----------------------------- MODULE UpdatePath -----------------------------
(***************************************************************************)
(* The way of an update from the command line to Unbound: dnsconfd update  *)
(* reads its words and builds dictionaries (UpdateCommand), the daemon     *)
(* parses them (UpdateCall), takes the servers, groups them by domain with *)
(* the reverse zones of their networks (NetworkAddress) and brings Unbound *)
(* from the table before to the new one (ForwardTable). Other programs     *)
(* call Update with dictionaries of their own.                             *)
(*                                                                         *)
(* The module follows one Unbound process. It ends when a call is dropped  *)
(* because the daemon is stopping, or needs a reload; Dnsconfd has these.  *)
(***************************************************************************)
EXTENDS UpdateCall, UpdateCommand, TLC

CONSTANTS
    Commands,       \* command lines of dnsconfd update, after the name
    StaticLists,    \* static_servers of the configurations
    Domain,
    ConfigCa

VARIABLES
    typed,          \* the command line behind the call, <<>> if there is none
    static_servers,
    current_dynamic_servers,
    live,           \* the Unbound process is followed
    list, table_mode, reported, effective_ca, forwards

Table == INSTANCE ForwardTable WITH mode <- table_mode

tableVars == <<current_dynamic_servers, live, list, table_mode, reported, effective_ca, forwards>>
pathVars == <<vars, typed, static_servers, tableVars>>

-----------------------------------------------------------------------------
\* Names and addresses are compared as a whole only: any injective text will do.
ZoneName(zone) == ToString(zone)

\* A server as the hash table and the commands to Unbound look at it
TableServer(server) ==
    [addr |-> ToString(<<server.address, server.port, server.name>>),
     priority |-> server.priority, protocol |-> server.protocol,
     dnssec |-> IF server.dnssec THEN 1 ELSE 0,
     interface |-> IF server.interface = "empty" THEN "none" ELSE server.interface,
     ca |-> server.ca,
     domains |-> server.routing_domains
                 \o [i \in DOMAIN server.networks |-> ZoneName(ReverseDns(server.networks[i]))],
     search |-> Elements(server.search_domains)]

\* all_servers of update_context
AllServers(dynamic) ==
    LET servers == static_servers \o dynamic IN [i \in DOMAIN servers |-> TableServer(servers[i])]

-----------------------------------------------------------------------------
\* dnsconfd update calls the daemon unless its words are refused.
RunUpdateCommand ==
    \E words \in Commands :
        LET options == ParseUpdateCommand(words)
            dicts == [i \in DOMAIN options.servers |-> BuildServersVariant(options.servers[i])]
        IN  /\ ~options.refused
            /\ typed' = words
            /\ CallUpdate(dicts, options.mode)

Call ==
    /\ live /\ result = "idle"
    /\ RunUpdateCommand \/ (BeginCall /\ typed' = <<>>)
    /\ UNCHANGED <<static_servers, tableVars>>

HandleCall ==
    /\ ParseServer \/ EndCall
    /\ UNCHANGED <<typed, static_servers, tableVars>>

\* state_transition takes the servers, refreshes the table and updates Unbound.
Applied ==
    /\ ReturnTaken
    /\ typed' = <<>> /\ UNCHANGED static_servers
    /\ current_dynamic_servers' = new_dynamic_servers
    /\ \/ /\ Table!LiveUpdate(AllServers(new_dynamic_servers), resolution_mode)
          /\ UNCHANGED live
       \/ /\ Table!NeedsReload(AllServers(new_dynamic_servers), resolution_mode)
          /\ live' = FALSE
          /\ UNCHANGED <<list, table_mode, reported, effective_ca, forwards>>

NotApplied ==
    /\ ReturnLeft
    /\ typed' = <<>> /\ live' = (result # "accepted")
    /\ UNCHANGED <<static_servers, current_dynamic_servers,
                   list, table_mode, reported, effective_ca, forwards>>

PathInit ==
    /\ Init /\ typed = <<>> /\ live = TRUE
    /\ static_servers \in StaticLists /\ current_dynamic_servers = <<>>
    /\ Table!StartWith(AllServers(<<>>), 0)

PathNext == Call \/ HandleCall \/ Applied \/ NotApplied

PathSpec == PathInit /\ [][PathNext]_pathVars

-----------------------------------------------------------------------------
(* What was typed                                                          *)

\* The URIs of a command line and the objects of its JSON texts
TypedUris(words) == {words[i].uri : i \in {j \in DOMAIN words : Type(words[j]) = "uri"}}
TypedObjects(words) ==
    UNION {Elements(words[i].servers) : i \in {j \in DOMAIN words : Type(words[j]) = "servers"}}

\* The dictionary that has a key for each thing the URI says
UriDict(uri) ==
    LET Key == [priority |-> "priority", interface |-> "interface", ca |-> "ca", name |-> "name",
                routing_domains |-> "domain", search_domains |-> "search", networks |-> "network"]
        said == {key \in DOMAIN Key : Values(uri, Key[key]) # <<>>}
        Said(key) == IF key \in {"routing_domains", "search_domains", "networks"}
                     THEN Values(uri, Key[key]) ELSE LastValue(uri, Key[key], "none")
        off == \E i \in DOMAIN uri.query : TurnsOff(uri.query[i])
    IN  [address |-> uri.host, port |-> uri.port, dnssec |-> ~off]
        @@ [key \in said |-> Said(key)]
        @@ [key \in {k \in {"protocol"} : uri.scheme # "none"} |-> uri.scheme]

ObjectDict(object) ==
    LET Off(given) == CASE Type(given) = "boolean" -> ~Content(given)
                        [] Type(given) = "int" -> Content(given) = 0
                        [] Type(given) = "string" -> Content(given) = "0"
    IN  [key \in DOMAIN object |-> IF key = "dnssec" THEN ~Off(object[key]) ELSE Content(object[key])]

TypedDicts(words) ==
    {ObjectDict(o) : o \in TypedObjects(words)} \cup {UriDict(u) : u \in TypedUris(words)}

\* Whatever an accepted command line makes the daemon store was typed,
\* value by value: the structure of the client, the dictionary and the
\* parser of the daemon add nothing and change nothing
\* (server_uri_t_init_from_string, build_servers_variant,
\* handle_update_call). No address that was typed is lost, and a mode that
\* is given is the mode stored, for the command lines that the usage text of
\* update_command.c allows: URIs or JSON, and the mode once. Outside of it
\* both are lost without a word: parse_update_command_opt replaces the URIs
\* before a JSON text, and takes no notice of a backup mode that follows
\* another mode.
StoredAsTyped ==
    result = "accepted" /\ typed # <<>> =>
        LET modes == SelectSeq(typed, LAMBDA w : Type(w) = "mode")
            Number == [backup |-> 0, prefer |-> 1, exclusive |-> 2]
        IN  /\ \A k \in DOMAIN new_dynamic_servers : \E d \in TypedDicts(typed) :
                    new_dynamic_servers[k] = Weighted(Server(d))
            /\ TypedUris(typed) = {} \/ TypedObjects(typed) = {} =>
                    \A d \in TypedDicts(typed) : \E k \in DOMAIN new_dynamic_servers :
                        new_dynamic_servers[k].address = d["address"]
            /\ modes = <<>> => resolution_mode = 0
            /\ Len(modes) = 1 => resolution_mode = Number[modes[1].mode]

\* What the client accepts the daemon refuses only for what the client does
\* not look at, the domain names, or for want of memory: the two parsers of
\* server_uri.c and of dbus_server.c agree.
ClientChecksSuffice == typed # <<>> => parse_error \in {"NONE", "INVALID_DOMAIN", "OOM"}

\* In backup mode the reverse names of all the addresses of a network that a
\* server is given, whatever the prefix, are forwarded by the deepest zone
\* that holds them all, and a domain that neither a network nor a routing
\* domain names is not: the zones of network_address_t_to_reverse_dns come
\* and go with the updates.
ReverseNamesRouted ==
    live /\ result = "idle" /\ table_mode = 0 =>
        LET servers == static_servers \o current_dynamic_servers
            networks == UNION {Elements(servers[i].networks) : i \in DOMAIN servers}
            routing == UNION {Elements(servers[i].routing_domains) : i \in DOMAIN servers}
        IN  \A d \in Domain \ {"."} :
                forwards[d] # Table!NoForward
                <=> d \in routing \cup {ZoneName(ZoneOf(n)) : n \in networks}

-----------------------------------------------------------------------------
(* The properties of ForwardTable, for the updates that really arrive,     *)
(* stated between two calls                                                *)

\* Unbound forwards what the status reports after any number of calls.
UpdatesConverge == result = "idle" => Table!UpdatesConverge

\* The servers in use are the best ones that the mode allows.
UsedAreBest == result = "idle" => Table!UsedAreBest

\* The flags of a domain are right for each of its servers.
FlagsFitEveryServer == result = "idle" => Table!FlagsFitEveryServer

\* Unbound keeps the restrictions of the mode.
ModeIsKept == result = "idle" => Table!ModeIsKept
=============================================================================
