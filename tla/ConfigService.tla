--------------------------- MODULE ConfigService ---------------------------
(***************************************************************************)
(* What dnsconfd promises to a client of its D-Bus interface, whatever it  *)
(* takes to configure Unbound: a configuration is requested and gets a     *)
(* serial, a serial is announced when the configuration is in place, and   *)
(* the service withdraws once and for all.                                 *)
(***************************************************************************)
EXTENDS Naturals

CONSTANT SerialModulus

VARIABLES
    phase,      \* "starting", "configuring", "serving", "stopping", "ending" or "gone"
    requested,  \* serial of the last configuration accepted
    announced   \* value of the configuration_serial property

serviceState == <<phase, requested, announced>>

Successor(serial) == IF serial = SerialModulus - 1 THEN 1 ELSE serial + 1

Init == phase = "starting" /\ requested = 1 /\ announced = 1

\* A new configuration, or the same one once more. Before the service has
\* its name, a configuration is only kept for later.
Accept ==
    /\ phase \in {"starting", "configuring", "serving"}
    /\ phase' = "configuring" \/ (phase = "starting" /\ UNCHANGED phase)
    /\ requested' = Successor(requested)
    /\ UNCHANGED announced

\* Only the configuration accepted last is ever announced.
Announce ==
    /\ phase = "configuring"
    /\ phase' = "serving"
    /\ announced' = requested
    /\ UNCHANGED requested

\* The service gives up or is told to stop, and accepts nothing any more. It
\* still answers calls while it waits for Unbound to stop.
Withdraw ==
    /\ phase \in {"configuring", "serving"}
    /\ phase' = "stopping"
    /\ UNCHANGED <<requested, announced>>

\* The main loop is told to quit: only what has arrived already is answered.
\* A service that serves always stops Unbound before.
Finish ==
    /\ phase \in {"starting", "configuring", "stopping"}
    /\ phase' = "ending"
    /\ UNCHANGED <<requested, announced>>

Leave ==
    /\ phase # "gone" /\ phase' = "gone"
    /\ UNCHANGED <<requested, announced>>

Next == Accept \/ Announce \/ Withdraw \/ Finish \/ Leave

Spec == Init /\ [][Next]_serviceState
=============================================================================
