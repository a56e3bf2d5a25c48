--------------------------- MODULE UnboundManager ---------------------------
(***************************************************************************)
(* The part of dnsconfd that decides what Unbound has to do: the hash      *)
(* table that groups the servers by domain (types/server_uri.c), the       *)
(* servers that are really used for a domain, the certificate bundle, the  *)
(* zones that go to unbound.conf and the commands that bring a running     *)
(* Unbound from one table to the next (dns_managers/unbound_manager.c).    *)
(*                                                                         *)
(* A server is a record                                                    *)
(*   addr      address with port and certificate name                      *)
(*   priority  the higher the better                                       *)
(*   protocol  DNS_UDP, DNS_TCP or DNS_TLS                                 *)
(*   dnssec    0 or 1                                                      *)
(*   interface "none" when the server can be used globally                 *)
(*   ca        "none" when the server names no bundle                      *)
(*   domains   routing domains, then the reverse zones of its networks     *)
(*   search    set of search domains                                       *)
(***************************************************************************)
EXTENDS Integers, Sequences, FiniteSets

CONSTANTS
    Domain,         \* the domains that servers may be bound to
    ConfigCa,       \* first readable bundle of the configuration
    INT_MIN         \* the least int

Root == "."

\* dns_protocol_t
DNS_UDP == 0
DNS_TCP == 1
DNS_TLS == 2

\* dnsconfd_mode_t
MODE_BACKUP == 0
MODE_PREFER == 1
MODE_EXCLUSIVE == 2

Mode == {MODE_BACKUP, MODE_PREFER, MODE_EXCLUSIVE}

ASSUME RootAssumption == Root \in Domain

ASSUME IntAssumption == INT_MIN \in Int /\ INT_MIN < 0

-----------------------------------------------------------------------------
(* types/server_uri.c                                                      *)

\* Variant: the less capable protocol first
CompareServersReversed(a, b) ==
    IF a.priority # b.priority THEN b.priority - a.priority
    ELSE IF a.protocol # b.protocol THEN a.protocol - b.protocol
    ELSE b.dnssec - a.dnssec

\* The value of a difference in a variable of type int
ToInt(x) == ((x - INT_MIN) % (-2 * INT_MIN)) + INT_MIN

\* Negative when a has to be placed before b. Signed overflow is not defined
\* in C; with the two's complement arithmetic of the build it wraps around.
CompareServers(a, b) ==
    IF a.priority # b.priority THEN ToInt(b.priority - a.priority)
    ELSE IF a.protocol # b.protocol THEN b.protocol - a.protocol
    ELSE b.dnssec - a.dnssec

\* g_list_sort sorts two halves and merges them. Written out because a
\* difference that wraps around leaves it without an order to rely on.
Merge(a, b) ==
    LET merged[i \in 1..(Len(a) + 1), j \in 1..(Len(b) + 1)] ==
            IF i > Len(a) THEN SubSeq(b, j, Len(b))
            ELSE IF j > Len(b) THEN SubSeq(a, i, Len(a))
            ELSE IF CompareServers(a[i], b[j]) <= 0 THEN <<a[i]>> \o merged[i + 1, j]
            ELSE <<b[j]>> \o merged[i, j + 1]
    IN  merged[1, 1]

Sorted(list) ==
    LET sorted[i \in DOMAIN list, n \in DOMAIN list] ==
            IF n = 1 THEN <<list[i]>>
            ELSE Merge(sorted[i, n \div 2], sorted[i + n \div 2, n - n \div 2])
    IN  IF list = <<>> THEN <<>> ELSE sorted[1, Len(list)]

\* append_server for every domain of every server: a server that has a
\* domain twice is in its list twice.
AppendServers(list, domain) ==
    LET Copies(s) == SelectSeq(s.domains, LAMBDA d : d = domain)
        append[n \in 0..Len(list)] ==
            IF n = 0 THEN <<>>
            ELSE append[n - 1] \o [k \in DOMAIN Copies(list[n]) |-> list[n]]
    IN  append[Len(list)]

ServerListToHashTable(list) ==
    [d \in UNION {{list[i].domains[k] : k \in DOMAIN list[i].domains} : i \in DOMAIN list} |->
        CHOOSE sorted \in {Sorted(bound) : bound \in {AppendServers(list, d)}} : TRUE]

-----------------------------------------------------------------------------
(* dns_managers/unbound_manager.c                                          *)

\* A server bound to an interface is not used for the root domain unless
\* the mode is backup, and is not used at all in exclusive mode.
Usable(server, mode, domain) ==
    \/ server.interface = "none"
    \/ mode # MODE_EXCLUSIVE /\ ~(mode > MODE_BACKUP /\ domain = Root)

\* Variant: validation is not looked at
WorseIgnoringDnssec(server, head) ==
    server.priority < head.priority \/ server.protocol < head.protocol

\* Where the walk of get_used_servers stops: the first server that is worse
\* than the head of the list.
Worse(server, head) ==
    \/ server.priority < head.priority
    \/ server.protocol < head.protocol
    \/ server.dnssec # head.dnssec

\* g_list_prepend turns the list around.
GetUsedServers(list, mode, domain) ==
    LET best == {n \in 0..Len(list) : \A i \in 1..n : ~Worse(list[i], list[1])}
        last == CHOOSE n \in best : \A m \in best : m <= n
        used == SelectSeq(SubSeq(list, 1, last), LAMBDA s : Usable(s, mode, domain))
    IN  [i \in DOMAIN used |-> used[Len(used) - i + 1]]

\* The table that update() hands to Unbound.
UsedTable(table, mode) ==
    [d \in {e \in DOMAIN table : GetUsedServers(table[e], mode, e) # <<>>} |->
        GetUsedServers(table[d], mode, d)]

\* effective_ca_from_uris keeps the first server with the lowest priority.
\* The order in which a GHashTable yields its keys is not specified, so any
\* of the domains that have such a server may provide it.
EffectiveCa(table, mode) ==
    LET Named(d) == SelectSeq(table[d], LAMBDA s :
                        s.ca # "none" /\ s.protocol = DNS_TLS /\ Usable(s, mode, d))
        Priorities == UNION {{Named(d)[i].priority : i \in DOMAIN Named(d)} : d \in DOMAIN table}
        Lowest == CHOOSE p \in Priorities : \A q \in Priorities : p <= q
        First(d) == SelectSeq(Named(d), LAMBDA s : s.priority = Lowest)
    IN  IF Priorities = {} THEN {ConfigCa}
        ELSE {First(d)[1].ca : d \in {e \in DOMAIN table : First(e) # <<>>}}

\* What Unbound does with the queries for a domain.
NoForward == [addrs |-> <<>>, tls |-> FALSE, insecure |-> FALSE]
LocalForward == [addrs |-> <<"127.0.0.1">>, tls |-> FALSE, insecure |-> FALSE]
Addresses(list) == [i \in DOMAIN list |-> list[i].addr]

\* forward-zone clauses of unbound.conf: nothing in them tells that the
\* domain is insecure.
GenerateForwardZones(table, mode) ==
    LET used == UsedTable(table, mode)
    IN  [d \in Domain |->
            IF d \in DOMAIN used
            THEN [addrs |-> Addresses(used[d]),
                  tls |-> \E i \in DOMAIN used[d] : used[d][i].protocol = DNS_TLS,
                  insecure |-> FALSE]
            ELSE IF d = Root THEN LocalForward ELSE NoForward]

\* unbound-control forward_add
GetForwardAddCommand(list) ==
    [addrs |-> Addresses(list),
     tls |-> list[1].protocol = DNS_TLS,
     insecure |-> list[1].dnssec = 0]

\* unbound-control forward_remove, or forward_add of 127.0.0.1 for the root
RemoveDomain(domain) ==
    IF domain = Root THEN LocalForward ELSE NoForward

\* Variant: validation is not compared
SameServersIgnoringDnssec(a, b) ==
    LET Compared(s) == <<s.addr, s.priority, s.interface, s.protocol, s.ca>>
    IN  /\ Len(a) = Len(b)
        /\ \A i \in DOMAIN a : Compared(a[i]) = Compared(b[i])

\* compare_servers: routing domains, search domains and networks are not looked at.
SameServers(a, b) ==
    LET Compared(s) == <<s.addr, s.priority, s.interface, s.dnssec, s.protocol, s.ca>>
    IN  /\ Len(a) = Len(b)
        /\ \A i \in DOMAIN a : Compared(a[i]) = Compared(b[i])

\* Variant: the first update relies on the configuration file
DomainsToAddUnlessFirst(new, old) ==
    {d \in DOMAIN new : DOMAIN old # {} /\ ~(d \in DOMAIN old /\ SameServers(new[d], old[d]))}

\* The two loops of update(): domains to (re)add and domains to remove.
DomainsToAdd(new, old) ==
    {d \in DOMAIN new : ~(d \in DOMAIN old /\ SameServers(new[d], old[d]))}

\* Variant: domains that are gone are forgotten
DomainsToRemoveNone(new, old) ==
    {}

DomainsToRemove(new, old) ==
    DOMAIN old \ DOMAIN new

\* The forwards of Unbound after the commands for the domains in done.
ApplyCommands(forwards, new, old, done) ==
    LET added == done \cap DomainsToAdd(new, old)
        removed == done \cap DomainsToRemove(new, old)
    IN  [d \in Domain |-> IF d \in added THEN GetForwardAddCommand(new[d])
                          ELSE IF d \in removed THEN RemoveDomain(d)
                          ELSE forwards[d]]

\* Unbound forwards what the table says, and nothing else.
Serves(forwards, table) ==
    \A d \in Domain : forwards[d] = IF d \in DOMAIN table THEN GetForwardAddCommand(table[d])
                                                          ELSE RemoveDomain(d)

\* The search line of write_resolv_conf
SearchDomains(table, mode) ==
    LET used == UsedTable(table, mode)
    IN  UNION {UNION {used[d][i].search : i \in DOMAIN used[d]} : d \in DOMAIN used}
=============================================================================
