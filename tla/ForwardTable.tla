---------------------------- MODULE ForwardTable ----------------------------
(***************************************************************************)
(* One run of the Unbound process: it starts from the generated            *)
(* configuration file, receives the table of that configuration, and then  *)
(* follows one update after another through unbound-control. The module    *)
(* asks what the algorithms of unbound_manager.c add up to; Dnsconfd has   *)
(* the reloads, failures and restarts around them.                         *)
(***************************************************************************)
EXTENDS UnboundManager

VARIABLES
    list,       \* all_servers
    mode,       \* resolution_mode of the last update
    reported,   \* current_unbound_domain_to_servers
    effective_ca,
    forwards    \* what the Unbound process forwards

vars == <<list, mode, reported, effective_ca, forwards>>

\* The table that update() makes of a list of servers, and what Unbound
\* forwards once every command is performed
Used(servers, m) == UsedTable(ServerListToHashTable(servers), m)
Update(from, old, new) ==
    ApplyCommands(from, new, old, DomainsToAdd(new, old) \cup DomainsToRemove(new, old))

\* Unbound is started with write_configuration and updated for the first time.
StartWith(servers, m) ==
    /\ list = servers /\ mode = m
    /\ reported = Used(servers, m)
    /\ effective_ca \in EffectiveCa(ServerListToHashTable(servers), m)
                        \cap EffectiveCa(reported, m)
    /\ forwards = Update(GenerateForwardZones(ServerListToHashTable(servers), m),
                         [d \in {} |-> <<>>], reported)

\* The bundle of the new table may differ from the one Unbound has.
NeedsReload(servers, m) == EffectiveCa(Used(servers, m), m) # {effective_ca}

LiveUpdate(servers, m) ==
    /\ list' = servers /\ mode' = m
    /\ reported' = Used(servers, m)
    /\ effective_ca \in EffectiveCa(reported', m) /\ UNCHANGED effective_ca
    /\ forwards' = Update(forwards, reported, reported')

-----------------------------------------------------------------------------
Servers == {list[i] : i \in DOMAIN list}
BoundTo(d) == {s \in Servers : \E k \in DOMAIN s.domains : s.domains[k] = d}

\* A server is better with a higher priority, then with a better protocol,
\* then with validation. This is the order of compare_servers and of
\* dnsconfd-update.8:35, "higher number means higher priority";
\* docs/com.redhat.dnsconfd.md:28 says of the same field "lower means higher
\* priority", which the code does not do.
Better(a, b) ==
    \/ a.priority > b.priority
    \/ a.priority = b.priority /\ a.protocol > b.protocol
    \/ a.priority = b.priority /\ a.protocol = b.protocol /\ a.dnssec > b.dnssec

\* However many updates came before, Unbound forwards each domain to the
\* servers the status call reports for it and forwards nothing else: the
\* commands that update() leaves out because compare_servers finds no
\* difference are never needed.
UpdatesConverge == Serves(forwards, reported)

\* The sort by compare_servers and the walk of get_used_servers together
\* select, for each domain, the servers no other server of the domain is
\* better than, without the ones that the mode excludes. This is said of the
\* domains whose servers have priorities with differences that fit in an
\* int: compare_servers subtracts them, and a difference that overflows
\* turns the order round.
UsedAreBest ==
    \A d \in Domain :
        (\A s, t \in BoundTo(d) : s.priority - t.priority \in INT_MIN..(-INT_MIN - 1)) =>
        LET best == {s \in BoundTo(d) : \A t \in BoundTo(d) : ~Better(t, s)}
            used == {s \in best : Usable(s, mode, d)}
        IN  IF used = {} THEN d \notin DOMAIN reported
            ELSE /\ d \in DOMAIN reported
                 /\ {reported[d][i] : i \in DOMAIN reported[d]} = used

\* get_forward_add_command takes the flags of the command from the first
\* server: they are right for every server of the domain, so that no server
\* over TLS is queried in the clear and no validating one as insecure.
FlagsFitEveryServer ==
    \A d \in DOMAIN reported : \A i \in DOMAIN reported[d] :
        /\ forwards[d].tls = (reported[d][i].protocol = DNS_TLS)
        /\ forwards[d].insecure = (reported[d][i].dnssec = 0)

\* The restrictions of the mode hold for what Unbound really does, also for
\* the domains an update in another mode has configured before.
ModeIsKept ==
    \A d \in Domain : mode = MODE_EXCLUSIVE \/ (mode = MODE_PREFER /\ d = Root) =>
        \A i \in DOMAIN forwards[d].addrs :
            \/ forwards[d] = LocalForward
            \/ \E s \in Servers : s.interface = "none" /\ s.addr = forwards[d].addrs[i]
=============================================================================
