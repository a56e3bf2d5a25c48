-------------------------- MODULE UpdateCallProofs --------------------------
(***************************************************************************)
(* What handle_update_call stores, for every call: the loop invariant of   *)
(* the walk over the dictionaries and the theorems that follow from it.    *)
(***************************************************************************)
EXTENDS UpdateCall, TLAPS

\* The time that each prover has for a step
USE SMTT(30), ZenonT(30)

Dicts == UNION {Elements(c) : c \in Calls}
Kept == {Weighted(Server(d)) : d \in Dicts}

\* The dictionaries before the iterator are good, the servers made of them
\* keep to one interface for each address.
LoopInv ==
    /\ args \in Calls \cup {<<>>}
    /\ next \in Nat \ {0}
    /\ parsed_servers \in Seq(Kept) /\ new_dynamic_servers \in Seq(Kept)
    /\ OneInterface(parsed_servers) /\ OneInterface(new_dynamic_servers)
    /\ parse_error = "NONE" =>
        /\ mode \in 0..2
        /\ \A i \in DOMAIN args : i < next => ParseError(args[i]) = "NONE"

\* Lowering the priority leaves the address and the interface alone.
LEMMA WeightedSame ==
    ASSUME NEW d
    PROVE  /\ Weighted(Server(d)).address = Server(d).address
           /\ Weighted(Server(d)).interface = Server(d).interface
  BY DEF Weighted, Server

\* A server without a conflict can be appended.
LEMMA AppendKeepsOneInterface ==
    ASSUME NEW s \in Kept, NEW d \in Dicts, NEW servers \in Seq(Kept),
           s = Weighted(Server(d)),
           OneInterface(servers), ~Conflicts(Server(d), servers)
    PROVE  Append(servers, s) \in Seq(Kept) /\ OneInterface(Append(servers, s))
<1>1. s.address = Server(d).address /\ s.interface = Server(d).interface
  BY WeightedSame
<1>2. \A i \in DOMAIN servers :
        servers[i].address = s.address => servers[i].interface = s.interface
  BY <1>1 DEF Conflicts
<1> DEFINE t == Append(servers, s)
<1>3. /\ t \in Seq(Kept) /\ DOMAIN servers = 1..Len(servers) /\ Len(servers) \in Nat
      /\ DOMAIN t = 1..(Len(servers) + 1)
      /\ t[Len(servers) + 1] = s
      /\ \A i \in 1..Len(servers) : t[i] = servers[i]
  OBVIOUS
<1> HIDE DEF t
<1>4. \A i, j \in DOMAIN t : t[i].address = t[j].address => t[i].interface = t[j].interface
  <2> SUFFICES ASSUME NEW i \in DOMAIN t, NEW j \in DOMAIN t, t[i].address = t[j].address
               PROVE  t[i].interface = t[j].interface
    OBVIOUS
  <2>1. CASE i \in DOMAIN servers /\ j \in DOMAIN servers
    BY <1>3, <2>1 DEF OneInterface
  <2>2. CASE i \in DOMAIN servers /\ j = Len(servers) + 1
    BY <1>2, <1>3, <2>2
  <2>3. CASE i = Len(servers) + 1 /\ j \in DOMAIN servers
    BY <1>2, <1>3, <2>3
  <2>4. CASE i = Len(servers) + 1 /\ j = Len(servers) + 1
    BY <2>4
  <2> QED
    BY <1>3, <2>1, <2>2, <2>3, <2>4
<1> QED
  BY <1>3, <1>4 DEF OneInterface, t

LEMMA LoopInit == Init => LoopInv
  BY DEF Init, LoopInv, OneInterface

LEMMA LoopStep == LoopInv /\ [Next]_vars => LoopInv'
<1> SUFFICES ASSUME LoopInv, [Next]_vars PROVE LoopInv'
  OBVIOUS
<1>1. CASE BeginCall
  <2>1. args' \in Calls /\ DOMAIN args' = 1..Len(args') /\ Len(args') \in Nat
    BY <1>1, CallAssumption DEF BeginCall, CallUpdate
  <2>2. next' = 1 /\ parsed_servers' = <<>> /\ new_dynamic_servers' = new_dynamic_servers
    BY <1>1 DEF BeginCall, CallUpdate, contextVars
  <2>3. parse_error' = "NONE" => mode' \in 0..2
    BY <1>1 DEF BeginCall, CallUpdate
  <2> QED
    BY <2>1, <2>2, <2>3 DEF LoopInv, OneInterface
<1>2. CASE ParseServer
  <2>1. /\ next \in DOMAIN args /\ next' = next + 1 /\ parse_error = "NONE" /\ result = "none"
        /\ UNCHANGED <<args, mode, result, new_dynamic_servers>>
    BY <1>2 DEF ParseServer, callVars, contextVars
  <2>2. args \in Calls /\ args[next] \in Dicts /\ DOMAIN args = 1..Len(args) /\ Len(args) \in Nat
    BY <2>1, CallAssumption DEF LoopInv, Dicts, Elements
  <2>3. parsed_servers' \in Seq(Kept) /\ OneInterface(parsed_servers')
    <3>1. CASE parsed_servers' = parsed_servers
      BY <3>1 DEF LoopInv
    <3>2. CASE /\ ~Conflicts(Server(args[next]), parsed_servers)
               /\ parsed_servers' = Append(parsed_servers, Weighted(Server(args[next])))
      <4>1. Weighted(Server(args[next])) \in Kept
        BY <2>2 DEF Kept
      <4> QED
        BY <2>2, <3>2, <4>1, AppendKeepsOneInterface DEF LoopInv
    <3> QED
      BY <1>2, <3>1, <3>2 DEF ParseServer
  <2>4. parse_error' = "NONE" => ParseError(args[next]) = "NONE"
    BY <1>2 DEF ParseServer
  <2>5. parse_error' = "NONE" =>
            \A i \in DOMAIN args : i < next + 1 => ParseError(args[i]) = "NONE"
    BY <2>1, <2>2, <2>4 DEF LoopInv
  <2> QED
    BY <2>1, <2>3, <2>5 DEF LoopInv
<1>3. CASE EndCall
  <2>1. /\ UNCHANGED <<args, mode, next, parsed_servers, parse_error>>
        /\ new_dynamic_servers' \in {new_dynamic_servers, parsed_servers}
    BY <1>3 DEF EndCall, callVars, loopVars, contextVars
  <2> QED
    BY <2>1 DEF LoopInv
<1>4. CASE ReturnTaken \/ ReturnLeft
  <2>1. /\ args' = <<>> /\ mode' = 0 /\ next' = 1 /\ parsed_servers' = <<>>
        /\ new_dynamic_servers' \in {new_dynamic_servers, <<>>}
    BY <1>4 DEF ReturnTaken, ReturnLeft, LeaveHandler
  <2>2. new_dynamic_servers' \in Seq(Kept) /\ OneInterface(new_dynamic_servers')
    <3>1. CASE new_dynamic_servers' = new_dynamic_servers
      BY <3>1 DEF LoopInv
    <3>2. CASE new_dynamic_servers' = <<>>
      BY <3>2 DEF OneInterface
    <3> QED
      BY <2>1, <3>1, <3>2
  <2>3. DOMAIN args' = {} /\ mode' \in 0..2
    BY <2>1
  <2> QED
    BY <2>1, <2>2, <2>3 DEF LoopInv, OneInterface
<1>5. CASE UNCHANGED vars
  BY <1>5 DEF vars, callVars, loopVars, contextVars, LoopInv, OneInterface
<1> QED
  BY <1>1, <1>2, <1>3, <1>4, <1>5 DEF Next

LEMMA LoopCorrect == Spec => []LoopInv
  BY LoopInit, LoopStep, PTL DEF Spec

\* For every call, the servers stored by handle_update_call keep to one
\* interface for each address.
THEOREM OneInterfacePerAddressHolds == Spec => []OneInterfacePerAddress
<1>1. LoopInv => OneInterfacePerAddress
  BY DEF LoopInv, OneInterfacePerAddress
<1> QED
  BY <1>1, LoopCorrect, PTL

\* handle_update_call changes the context only for a call whose mode and
\* dictionaries are all good.
THEOREM RefusedKeepsContextHolds == Spec => RefusedKeepsContext
<1> DEFINE A == result = "none" /\ contextVars' # contextVars =>
            /\ result' = "accepted"
            /\ resolution_mode' = mode /\ mode <= 2
            /\ \A i \in DOMAIN args : ParseError(args[i]) = "NONE"
<1>1. LoopInv /\ [Next]_vars => [A]_vars
  <2> SUFFICES ASSUME LoopInv, Next, result = "none", contextVars' # contextVars
               PROVE  /\ result' = "accepted"
                      /\ resolution_mode' = mode /\ mode <= 2
                      /\ \A i \in DOMAIN args : ParseError(args[i]) = "NONE"
    OBVIOUS
  <2>1. EndCall
    BY DEF Next, BeginCall, CallUpdate, ParseServer, ReturnTaken, ReturnLeft, LeaveHandler
  <2>2. /\ parse_error = "NONE" /\ next \notin DOMAIN args
        /\ result' = "accepted" /\ resolution_mode' = mode
    BY <2>1 DEF EndCall, contextVars
  <2>3. mode \in 0..2 /\ \A i \in DOMAIN args : i < next => ParseError(args[i]) = "NONE"
    BY <2>2 DEF LoopInv
  <2>4. Len(args) \in Nat /\ DOMAIN args = 1..Len(args)
    BY CallAssumption DEF LoopInv
  <2>5. \A i \in DOMAIN args : i < next
    BY <2>2, <2>4 DEF LoopInv
  <2> QED
    BY <2>2, <2>3, <2>5
<1> QED
  BY <1>1, LoopCorrect, PTL DEF Spec, RefusedKeepsContext

-----------------------------------------------------------------------------
\* What ParseError returns: an error only if a check fails
LEMMA ErrorMeans ==
    ASSUME NEW dict
    PROVE  /\ ParseError(dict) # "accepted"
           /\ ParseError(dict) = "NONE" =>
                /\ "address" \in DOMAIN dict
                /\ "port" \in DOMAIN dict => Accepts("port", dict["port"])
<1> DEFINE failing == {i \in DOMAIN Checks : /\ Checks[i].key \in DOMAIN dict
                                             /\ ~Accepts(Checks[i].key, dict[Checks[i].key])}
           first == CHOOSE i \in failing : \A j \in failing : i <= j
<1>1. /\ DOMAIN Checks = 1..6 /\ Checks[1].key = "port"
      /\ \A i \in 1..6 : Checks[i].error \notin {"NONE", "accepted"}
  BY DEF Checks
<1>2. failing \subseteq 1..6
  BY <1>1
<1>3. ParseError(dict) = IF "address" \notin DOMAIN dict THEN "MISSING_ADDRESS"
                         ELSE IF dict["address"] \notin Address THEN "INVALID_ADDRESS"
                         ELSE IF failing = {} THEN "NONE" ELSE Checks[first].error
  BY DEF ParseError
<1>4. failing # {} => first \in 1..6
  <2> SUFFICES ASSUME failing # {} PROVE \E i \in failing : \A j \in failing : i <= j
    BY <1>2
  <2> HIDE DEF failing
  <2>1. \A j \in failing : j \in Int /\ 1 <= j /\ j <= 6
    BY <1>2
  <2>2. CASE 1 \in failing
    BY <2>1, <2>2
  <2>3. CASE 1 \notin failing /\ 2 \in failing
    <3>1. \A j \in failing : 2 <= j
      BY <2>1, <2>3
    <3> QED
      BY <2>3, <3>1
  <2>4. CASE {1, 2} \cap failing = {} /\ 3 \in failing
    <3>1. \A j \in failing : 3 <= j
      BY <2>1, <2>4
    <3> QED
      BY <2>4, <3>1
  <2>5. CASE {1, 2, 3} \cap failing = {}
    <3>1. \A j \in failing : j = 4 \/ j = 5 \/ j = 6
      BY <2>1, <2>5
    <3>2. CASE 4 \in failing
      BY <3>1, <3>2
    <3>3. CASE 4 \notin failing /\ 5 \in failing
      BY <3>1, <3>3
    <3>4. CASE 4 \notin failing /\ 5 \notin failing
      BY <3>1, <3>4
    <3> QED
      BY <3>2, <3>3, <3>4
  <2> QED
    BY <2>2, <2>3, <2>4, <2>5
<1>5. failing = {} => ("port" \in DOMAIN dict => Accepts("port", dict["port"]))
  BY <1>1
<1> HIDE DEF failing, first
<1> QED
  BY <1>1, <1>3, <1>4, <1>5

\* The defaults leave no server without a domain or a port.
LEMMA ServerIsUsable ==
    ASSUME NEW dict, ParseError(dict) = "NONE"
    PROVE  /\ Weighted(Server(dict)).address = dict["address"]
           /\ Server(dict).address = dict["address"]
           /\ Weighted(Server(dict)).routing_domains # <<>>
           /\ Weighted(Server(dict)).port \in 1..MaxPort
<1> DEFINE s == Server(dict)
<1>0. MaxPort \in Int /\ MaxPort >= 853
  BY DEF MaxPort
<1>1. Get(dict, "port", 0) \in 0..MaxPort
  <2>1. ASSUME NEW v, Accepts("port", v) PROVE v \in 0..MaxPort
    BY <2>1 DEF Accepts
  <2>2. "port" \in DOMAIN dict => dict["port"] \in 0..MaxPort
    BY <2>1, ErrorMeans
  <2> QED
    BY <1>0, <2>2 DEF Get
<1>2. s.address = dict["address"] /\ s.routing_domains # <<>> /\ s.port \in 1..MaxPort
  <2>1. s.address = dict["address"]
    BY DEF Server
  <2>2. s.routing_domains # <<>>
    <3> DEFINE routing == Domains(Get(dict, "routing_domains", <<>>))
    <3>1. s.routing_domains = IF routing = <<>> THEN <<".">> ELSE routing
      BY DEF Server
    <3> HIDE DEF routing, s
    <3> QED
      BY <3>1
  <2>3. s.port \in 1..MaxPort
    <3> DEFINE port == Get(dict, "port", 0)
               protocol == Protocol(Get(dict, "protocol", "dns+udp"))
    <3>1. s.port = IF port # 0 THEN port ELSE IF protocol # 2 THEN 53 ELSE 853
      BY DEF Server
    <3> HIDE DEF port, protocol, s
    <3> QED
      BY <1>0, <1>1, <3>1 DEF port
  <2> QED
    BY <2>1, <2>2, <2>3
<1>3. /\ Weighted(s).address = s.address /\ Weighted(s).port = s.port
      /\ Weighted(s).routing_domains = s.routing_domains
  BY DEF Weighted, Server
<1> QED
  BY <1>2, <1>3

Usable(servers) ==
    \A j \in DOMAIN servers :
        servers[j].routing_domains # <<>> /\ servers[j].port \in 1..MaxPort

\* While no error is met, each dictionary before the iterator has left a
\* server with its address, and an accepted call is one that came to its end.
CompleteInv ==
    /\ parse_error # "accepted" /\ Usable(parsed_servers)
    /\ parse_error = "NONE" =>
        \A i \in DOMAIN args : i < next =>
            \E j \in DOMAIN parsed_servers : parsed_servers[j].address = args[i]["address"]
    /\ result = "accepted" => /\ parse_error = "NONE" /\ next \notin DOMAIN args
                              /\ new_dynamic_servers = parsed_servers

LEMMA CompleteInit == Init => CompleteInv
  BY DEF Init, CompleteInv, Usable

LEMMA CompleteStep == LoopInv /\ CompleteInv /\ [Next]_vars => CompleteInv'
<1> SUFFICES ASSUME LoopInv, CompleteInv, [Next]_vars PROVE CompleteInv'
  OBVIOUS
<1>1. CASE BeginCall
  <2>1. /\ DOMAIN args' = 1..Len(args') /\ next' = 1 /\ parsed_servers' = <<>>
        /\ result' # "accepted" /\ parse_error' # "accepted"
    BY <1>1, CallAssumption DEF BeginCall, CallUpdate
  <2> QED
    BY <2>1 DEF CompleteInv, Usable
<1>2. CASE ParseServer
  <2> DEFINE d == args[next]
  <2>1. /\ next \in DOMAIN args /\ next' = next + 1 /\ parse_error = "NONE"
        /\ args' = args /\ result' # "accepted"
    BY <1>2 DEF ParseServer, callVars
  <2>2. DOMAIN args = 1..Len(args) /\ Len(args) \in Nat /\ next \in Nat
    BY <2>1, CallAssumption DEF LoopInv
  <2>3. CASE parse_error' # "NONE"
    <3>1. parsed_servers' = parsed_servers /\ parse_error' # "accepted"
      BY <1>2, <2>3, ErrorMeans DEF ParseServer
    <3> QED
      BY <2>1, <2>3, <3>1 DEF CompleteInv
  <2>4. CASE parse_error' = "NONE"
    <3>1. ParseError(d) = "NONE"
      BY <1>2, <2>4 DEF ParseServer
    <3>2. \/ Conflicts(Server(d), parsed_servers) /\ parsed_servers' = parsed_servers
          \/ parsed_servers' = Append(parsed_servers, Weighted(Server(d)))
      BY <1>2, <2>4 DEF ParseServer
    <3>3. parsed_servers \in Seq(Kept)
      BY DEF LoopInv
    <3>4. /\ \A j \in DOMAIN parsed_servers : j \in DOMAIN parsed_servers'
                                            /\ parsed_servers'[j] = parsed_servers[j]
          /\ Usable(parsed_servers')
          /\ \E j \in DOMAIN parsed_servers' : parsed_servers'[j].address = d["address"]
      <4>1. CASE Conflicts(Server(d), parsed_servers) /\ parsed_servers' = parsed_servers
        BY <3>1, <4>1, ServerIsUsable DEF Conflicts, CompleteInv
      <4>2. CASE parsed_servers' = Append(parsed_servers, Weighted(Server(d)))
        <5> DEFINE s == Weighted(Server(d))
        <5>1. s.address = d["address"] /\ s.routing_domains # <<>> /\ s.port \in 1..MaxPort
          BY <3>1, ServerIsUsable
        <5> HIDE DEF s
        <5>2. /\ Len(parsed_servers) \in Nat /\ DOMAIN parsed_servers = 1..Len(parsed_servers)
              /\ DOMAIN parsed_servers' = 1..(Len(parsed_servers) + 1)
              /\ \A j \in 1..Len(parsed_servers) : parsed_servers'[j] = parsed_servers[j]
              /\ parsed_servers'[Len(parsed_servers) + 1] = s
          BY <3>3, <4>2 DEF s
        <5> QED
          BY <5>1, <5>2 DEF CompleteInv, Usable
      <4> QED
        BY <3>2, <4>1, <4>2
    <3>5. ASSUME NEW i \in DOMAIN args, i < next + 1
          PROVE  \E j \in DOMAIN parsed_servers' :
                    parsed_servers'[j].address = args[i]["address"]
      <4>1. CASE i = next
        BY <3>4, <4>1
      <4>2. CASE i < next
        BY <2>1, <3>4, <4>2 DEF CompleteInv
      <4> QED
        BY <2>2, <3>5, <4>1, <4>2
    <3> QED
      BY <2>1, <2>4, <3>4, <3>5 DEF CompleteInv
  <2> QED
    BY <2>3, <2>4
<1>3. CASE EndCall
  <2>1. /\ UNCHANGED <<args, next, parsed_servers, parse_error>>
        /\ result' = "accepted" => \/ result' = parse_error
                                   \/ /\ parse_error = "NONE" /\ next \notin DOMAIN args
                                      /\ new_dynamic_servers' = parsed_servers
    BY <1>3 DEF EndCall, callVars, loopVars
  <2> QED
    BY <2>1 DEF CompleteInv
<1>4. CASE ReturnTaken \/ ReturnLeft
  BY <1>4 DEF ReturnTaken, ReturnLeft, LeaveHandler, CompleteInv, Usable
<1>5. CASE UNCHANGED vars
  BY <1>5 DEF vars, callVars, loopVars, contextVars, CompleteInv, Usable
<1> QED
  BY <1>1, <1>2, <1>3, <1>4, <1>5 DEF Next

\* For every call, an accepted one loses no address and leaves no server
\* without a domain or a port.
THEOREM AcceptedIsCompleteHolds == Spec => []AcceptedIsComplete
<1>1. LoopInv /\ CompleteInv => AcceptedIsComplete
  <2> SUFFICES ASSUME LoopInv, CompleteInv, result = "accepted" PROVE AcceptedIsComplete
    BY DEF AcceptedIsComplete
  <2>1. DOMAIN args = 1..Len(args) /\ Len(args) \in Nat /\ next \in Nat \ {0}
    BY CallAssumption DEF LoopInv
  <2>2. parse_error = "NONE" /\ next \notin DOMAIN args /\ new_dynamic_servers = parsed_servers
    BY DEF CompleteInv
  <2>3. \A i \in DOMAIN args : i < next
    BY <2>1, <2>2
  <2>4. \A i \in DOMAIN args : \E j \in DOMAIN new_dynamic_servers :
            new_dynamic_servers[j].address = args[i]["address"]
    BY <2>2, <2>3 DEF CompleteInv
  <2>5. \A j \in DOMAIN new_dynamic_servers :
            /\ new_dynamic_servers[j].routing_domains # <<>>
            /\ new_dynamic_servers[j].port \in 1..MaxPort
    BY <2>2 DEF CompleteInv, Usable
  <2> QED
    BY <2>4, <2>5 DEF AcceptedIsComplete
<1>2. Spec => []CompleteInv
  BY CompleteInit, CompleteStep, LoopCorrect, PTL DEF Spec
<1> QED
  BY <1>1, <1>2, LoopCorrect, PTL

\* For every call and every width of int, the penalty of a wireless server
\* does not put it before a wired one.
THEOREM WirelessNeverGainsHolds == Spec => []WirelessNeverGains
<1>1. LoopInv => WirelessNeverGains
  <2> SUFFICES ASSUME LoopInv, result = "accepted",
                      NEW i \in DOMAIN args, NEW j \in DOMAIN args,
                      NEW k \in DOMAIN new_dynamic_servers,
                      Get(args[i], "priority", 0) <= Get(args[j], "priority", 0),
                      Server(args[i]).interface \in Wireless,
                      Weighted(Server(args[i])) = new_dynamic_servers[k]
               PROVE  new_dynamic_servers[k].priority <= Server(args[j]).priority
    BY DEF WirelessNeverGains
  <2> DEFINE p == Get(args[i], "priority", 0)
             q == Get(args[j], "priority", 0)
  <2>1. p \in IntRange /\ q \in IntRange
    BY CallAssumption DEF LoopInv
  <2>2. Server(args[i]).priority = p /\ Server(args[j]).priority = q
    BY DEF Server
  <2>3. Weighted(Server(args[i])).priority = LowerPriority(p)
    BY <2>2 DEF Weighted, Server
  <2> HIDE DEF p, q
  <2>4. p \in Int /\ q \in Int /\ INT_MIN \in Int /\ INT_MIN <= q
    BY <2>1, IntAssumption DEF IntRange
  <2>5. LowerPriority(p) <= q
    BY <2>4 DEF LowerPriority, p, q
  <2> QED
    BY <2>2, <2>3, <2>5
<1> QED
  BY <1>1, LoopCorrect, PTL
=============================================================================
