----------------------------- MODULE UpdateCall -----------------------------
(***************************************************************************)
(* handle_update_call of dbus_server.c up to its call of state_transition: *)
(* the dictionaries of an Update call are parsed one by one, and the call  *)
(* is refused as a whole at the first error.                               *)
(*                                                                         *)
(* A dictionary is a function on the keys that are present. The lookup     *)
(* asks for a key with a type, so a value of another type counts as absent.*)
(* An empty string is "empty"; an interface that is absent is "empty" too. *)
(***************************************************************************)
EXTENDS ServerUri

CONSTANTS
    Calls,      \* arguments of the calls: sequences of dictionaries
    Wireless,   \* interfaces that have a wireless directory in sysfs
    ToAscii     \* idn2_lookup_u8: a function on the domains it accepts

\* A priority is an int32 on the bus.
ASSUME CallAssumption ==
    \A c \in Calls :
        /\ Len(c) \in Nat /\ DOMAIN c = 1..Len(c)
        /\ \A i \in DOMAIN c : Get(c[i], "priority", 0) \in IntRange

VARIABLES
    args,           \* the call that is handled
    mode,
    next,           \* position of the iterator over the dictionaries
    parsed_servers,
    parse_error,
    result,         \* "idle", "none" while the call is handled, then the answer
    new_dynamic_servers,
    resolution_mode

callVars == <<args, mode>>
loopVars == <<next, parsed_servers, parse_error>>
contextVars == <<new_dynamic_servers, resolution_mode>>
vars == <<callVars, loopVars, result, contextVars>>

-----------------------------------------------------------------------------
(* The parsers                                                             *)

\* parse_address comes first, then the parsers of key_type_parser in this order.
Checks == <<[key |-> "port", error |-> "PORT_INVALID"],
            [key |-> "protocol", error |-> "INVALID_PROTOCOL"],
            [key |-> "interface", error |-> "INTERFACE_TOO_LONG"],
            [key |-> "routing_domains", error |-> "INVALID_DOMAIN"],
            [key |-> "search_domains", error |-> "INVALID_DOMAIN"],
            [key |-> "networks", error |-> "INVALID_NET"]>>

Accepts(key, value) ==
    /\ key = "port" => value \in 0..MaxPort
    /\ key = "protocol" => value \in ProtocolName
    /\ key = "interface" => value \notin LongName
    /\ key \in {"routing_domains", "search_domains"} =>
            Elements(value) \subseteq DOMAIN ToAscii \cup {"empty"}
    /\ key = "networks" => \A i \in DOMAIN value : NetworkParses(value[i])

ParseError(dict) ==
    LET Fails(i) == Checks[i].key \in DOMAIN dict /\ ~Accepts(Checks[i].key, dict[Checks[i].key])
        failing == {i \in DOMAIN Checks : Fails(i)}
    IN  IF "address" \notin DOMAIN dict THEN "MISSING_ADDRESS"
        ELSE IF dict["address"] \notin Address THEN "INVALID_ADDRESS"
        ELSE IF failing = {} THEN "NONE"
        ELSE Checks[CHOOSE i \in failing : \A j \in failing : i <= j].error

\* save_domains
Domains(names) ==
    [i \in DOMAIN names |-> IF names[i] = "empty" THEN "." ELSE ToAscii[names[i]]]

\* Variant: a list that is present but empty is taken as it is
ServerUnrouted(dict) ==
    LET protocol == Protocol(Get(dict, "protocol", "dns+udp"))
        port == Get(dict, "port", 0)
    IN  [address |-> dict["address"],
         port |-> IF port # 0 THEN port ELSE IF protocol # 2 THEN 53 ELSE 853,
         priority |-> Get(dict, "priority", 0),
         protocol |-> protocol,
         interface |-> Get(dict, "interface", "empty"),
         dnssec |-> Get(dict, "dnssec", TRUE),
         ca |-> Get(dict, "ca", "none"),
         name |-> Get(dict, "name", "none"),
         routing_domains |-> Domains(Get(dict, "routing_domains", <<"empty">>)),
         search_domains |-> Domains(Get(dict, "search_domains", <<>>)),
         networks |-> Get(dict, "networks", <<>>)]

\* The server with the defaults: the root domain, the port of the protocol.
Server(dict) ==
    LET protocol == Protocol(Get(dict, "protocol", "dns+udp"))
        port == Get(dict, "port", 0)
        routing == Domains(Get(dict, "routing_domains", <<>>))
    IN  [address |-> dict["address"],
         port |-> IF port # 0 THEN port ELSE IF protocol # 2 THEN 53 ELSE 853,
         priority |-> Get(dict, "priority", 0),
         protocol |-> protocol,
         interface |-> Get(dict, "interface", "empty"),
         dnssec |-> Get(dict, "dnssec", TRUE),
         ca |-> Get(dict, "ca", "none"),
         name |-> Get(dict, "name", "none"),
         routing_domains |-> IF routing = <<>> THEN <<".">> ELSE routing,
         search_domains |-> Domains(Get(dict, "search_domains", <<>>)),
         networks |-> Get(dict, "networks", <<>>)]

\* Variant: the comparison includes the port
ConflictsWithPort(server, servers) ==
    \E i \in DOMAIN servers : /\ servers[i].address = server.address
                              /\ servers[i].port = server.port
                              /\ servers[i].interface # server.interface

\* An address can be reached through one interface only, whatever the port.
Conflicts(server, servers) ==
    \E i \in DOMAIN servers : /\ servers[i].address = server.address
                              /\ servers[i].interface # server.interface

\* Variant: the subtraction wraps around
LowerPriorityWrapping(priority) ==
    IF priority - 10 < INT_MIN THEN priority - 10 - 2 * INT_MIN ELSE priority - 10

\* The subtraction is done in 64 bits and stops at INT_MIN.
LowerPriority(priority) ==
    IF priority - 10 < INT_MIN THEN INT_MIN ELSE priority - 10

Weighted(server) ==
    IF server.interface \in Wireless
    THEN [server EXCEPT !.priority = LowerPriority(@)]
    ELSE server

-----------------------------------------------------------------------------
\* The arguments are unpacked and the mode, an unsigned number, is checked.
CallUpdate(servers, m) ==
    /\ result' = "none"
    /\ args' = servers /\ mode' = m
    /\ next' = 1 /\ parsed_servers' = <<>>
    /\ parse_error' = IF m > 2 THEN "INVALID_MODE" ELSE "NONE"
    /\ UNCHANGED contextVars

BeginCall == result = "idle" /\ \E servers \in Calls, m \in 0..3 : CallUpdate(servers, m)

\* One dictionary. An allocation may fail at any point of it.
ParseServer ==
    /\ result = "none" /\ parse_error = "NONE" /\ next \in DOMAIN args
    /\ next' = next + 1
    /\ \/ parse_error' = "OOM" /\ UNCHANGED parsed_servers
       \/ /\ parse_error' = ParseError(args[next])
          /\ parsed_servers' =
                IF parse_error' # "NONE" \/ Conflicts(Server(args[next]), parsed_servers)
                THEN parsed_servers
                ELSE Append(parsed_servers, Weighted(Server(args[next])))
    /\ UNCHANGED <<callVars, result, contextVars>>

\* Variant: the mode is stored before the servers are known to be good
EndCallEarlyMode ==
    /\ result = "none"
    /\ parse_error # "NONE" \/ next \notin DOMAIN args
    /\ result' = IF parse_error = "NONE" THEN "accepted" ELSE parse_error
    /\ new_dynamic_servers' = IF parse_error = "NONE" THEN parsed_servers ELSE new_dynamic_servers
    /\ resolution_mode' = mode
    /\ UNCHANGED <<callVars, loopVars>>

\* The call is refused, or stored for the state machine.
EndCall ==
    /\ result = "none"
    /\ \/ /\ parse_error # "NONE"
          /\ result' = parse_error /\ UNCHANGED contextVars
       \/ /\ parse_error = "NONE" /\ next \notin DOMAIN args
          /\ result' = "accepted"
          /\ new_dynamic_servers' = parsed_servers /\ resolution_mode' = mode
    /\ UNCHANGED <<callVars, loopVars>>

LeaveHandler ==
    /\ result \notin {"idle", "none"} /\ result' = "idle"
    /\ args' = <<>> /\ mode' = 0
    /\ next' = 1 /\ parsed_servers' = <<>> /\ parse_error' = "NONE"
    /\ UNCHANGED resolution_mode

\* state_transition has taken the servers of an accepted call: set_dynamic_servers.
ReturnTaken == LeaveHandler /\ result = "accepted" /\ new_dynamic_servers' = <<>>

\* The call was refused, or the daemon is stopping and drops the event.
ReturnLeft == LeaveHandler /\ UNCHANGED new_dynamic_servers

Init ==
    /\ args = <<>> /\ mode = 0 /\ next = 1
    /\ parsed_servers = <<>> /\ parse_error = "NONE" /\ result = "idle"
    /\ new_dynamic_servers = <<>> /\ resolution_mode = 0

Next == BeginCall \/ ParseServer \/ EndCall \/ ReturnTaken \/ ReturnLeft

Spec == Init /\ [][Next]_vars

-----------------------------------------------------------------------------
OneInterface(servers) ==
    \A i, j \in DOMAIN servers :
        servers[i].address = servers[j].address => servers[i].interface = servers[j].interface

\* The servers handed to the state machine never send the traffic of one
\* address through two interfaces, whatever the order and the ports of the
\* call: the search for a duplicate looks at every server kept before.
OneInterfacePerAddress == OneInterface(new_dynamic_servers)

\* An accepted call loses no address: a dictionary is skipped only for an
\* address that another dictionary of the call provides. Every server kept
\* is used for some domain and has a port.
AcceptedIsComplete ==
    result = "accepted" =>
        /\ \A i \in DOMAIN args : \E j \in DOMAIN new_dynamic_servers :
                new_dynamic_servers[j].address = args[i]["address"]
        /\ \A j \in DOMAIN new_dynamic_servers :
                /\ new_dynamic_servers[j].routing_domains # <<>>
                /\ new_dynamic_servers[j].port \in 1..MaxPort

\* A refused call changes neither the servers nor the mode of the daemon,
\* however many of its dictionaries were good, and the two of them always
\* come from the same call.
RefusedKeepsContext ==
    [][result = "none" /\ contextVars' # contextVars =>
            /\ result' = "accepted"
            /\ resolution_mode' = mode /\ mode <= 2
            /\ \A i \in DOMAIN args : ParseError(args[i]) = "NONE"]_vars

\* Lowering the priority of a wireless server never puts it before a wired
\* server of the call that was preferred to it or its equal, at the lower
\* end of the range of int either.
WirelessNeverGains ==
    result = "accepted" =>
        \A i, j \in DOMAIN args : \A k \in DOMAIN new_dynamic_servers :
            /\ Get(args[i], "priority", 0) <= Get(args[j], "priority", 0)
            /\ Server(args[i]).interface \in Wireless
            /\ Server(args[j]).interface \notin Wireless
            /\ Weighted(Server(args[i])) = new_dynamic_servers[k]
            => new_dynamic_servers[k].priority <= Server(args[j]).priority
=============================================================================
