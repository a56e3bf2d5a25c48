---------------------------- MODULE UpdateClient ----------------------------
(***************************************************************************)
(* dnsconfd update (cli_commands/cli_update.c): clients that submit a      *)
(* configuration over D-Bus and wait until the daemon announces its        *)
(* serial. The daemon is what ConfigService says of it; it handles one     *)
(* call at a time and answers at the end of the handler.                   *)
(***************************************************************************)
EXTENDS Integers, Sequences

CONSTANTS
    Client,         \* processes that run the command
    NoClient,
    SerialModulus,
    MaxAccepts      \* bound on the configurations accepted

ASSUME ClientAssumption ==
    /\ NoClient \notin Client
    /\ MaxAccepts \in Nat
    /\ SerialModulus \in Nat /\ SerialModulus > 2

VARIABLES
    phase, requested, announced,    \* the daemon
    caller,     \* client whose Update call the daemon handles
    pc,         \* where each client is in cli_update_command
    serial,     \* serial in the answer
    signals,    \* serials of the PropertiesChanged signals it has not dispatched
    total,      \* configurations accepted so far
    applied,    \* the configuration that was announced last
    own         \* the configuration of each client, 0 when it was not accepted

Service == INSTANCE ConfigService

daemonVars == <<phase, requested, announced>>
clientVars == <<pc, serial, signals>>
countVars == <<total, applied, own>>
vars == <<daemonVars, caller, clientVars, countVars>>

Subscribed == {"calling", "answered", "late", "waiting"}

-----------------------------------------------------------------------------
(* The daemon                                                              *)

AcceptConfiguration ==
    /\ Service!Accept
    /\ total < MaxAccepts /\ total' = total + 1
    /\ UNCHANGED applied

\* handle_update_call. In FSM_WAITING_STOP_JOB the event is dropped, in
\* FSM_STOPPING it is rejected, and the answer is the same as for an accepted
\* update.
HandleUpdateCall(c) ==
    /\ caller = NoClient /\ pc[c] = "calling"
    /\ \/ /\ AcceptConfiguration
          /\ caller' = c
          /\ own' = [own EXCEPT ![c] = total']
          /\ UNCHANGED clientVars
       \/ /\ phase \in {"stopping", "ending"}
          /\ caller' = c
          /\ UNCHANGED <<daemonVars, clientVars, countVars>>
       \/ /\ phase # "gone"
          /\ serial' = [serial EXCEPT ![c] = 0]
          /\ pc' = [pc EXCEPT ![c] = "answered"]
          /\ UNCHANGED <<daemonVars, caller, signals, countVars>>

\* The handler returns the serial that is the requested one by then. After
\* g_main_loop_quit the answer still leaves, but a call made on receiving it
\* comes too late to be dispatched.
AnswerUpdateCall(c) ==
    /\ caller = c /\ caller' = NoClient
    /\ serial' = [serial EXCEPT ![c] = requested]
    /\ pc' = [pc EXCEPT ![c] = IF phase = "ending" THEN "late" ELSE "answered"]
    /\ UNCHANGED <<daemonVars, signals, countVars>>

\* A reload, or an update of a client that does not wait
Reconfigure ==
    AcceptConfiguration /\ UNCHANGED <<caller, clientVars, own>>

\* Variant: the signal is emitted before the serial is stored
AnnounceSerialStale ==
    /\ Service!Announce
    /\ applied' = total
    /\ signals' = [c \in Client |-> IF pc[c] \in Subscribed THEN Append(signals[c], announced)
                                                            ELSE signals[c]]
    /\ UNCHANGED <<caller, pc, serial, total, own>>

\* update_dns_manager emits the signal.
AnnounceSerial ==
    /\ Service!Announce
    /\ applied' = total
    /\ signals' = [c \in Client |-> IF pc[c] \in Subscribed THEN Append(signals[c], announced')
                                                            ELSE signals[c]]
    /\ UNCHANGED <<caller, pc, serial, total, own>>

EndService ==
    /\ Service!Withdraw \/ Service!Finish \/ (caller = NoClient /\ Service!Leave)
    /\ UNCHANGED <<caller, clientVars, countVars>>

-----------------------------------------------------------------------------
(* The client                                                              *)

\* The client subscribes to the signal before it calls Update.
CallUpdate(c) ==
    /\ pc[c] = "start" /\ pc' = [pc EXCEPT ![c] = "calling"]
    /\ UNCHANGED <<daemonVars, caller, serial, signals, countVars>>

CallFails(c) ==
    /\ pc[c] = "calling" /\ phase = "gone"
    /\ pc' = [pc EXCEPT ![c] = "failure"]
    /\ UNCHANGED <<daemonVars, caller, serial, signals, countVars>>

\* The first half of wait_for_serial reads the property. A call that is not
\* answered fails when the daemon is gone. Signals that have arrived meanwhile
\* stay queued until the main loop of the client runs.
GetSerial(c) ==
    /\ pc[c] \in {"answered", "late"}
    /\ \/ serial[c] = 0 /\ pc' = [pc EXCEPT ![c] = "failure"]
       \/ /\ serial[c] # 0 /\ phase = "gone"
          /\ pc' = [pc EXCEPT ![c] = "waiting"]
       \/ /\ serial[c] # 0 /\ phase # "gone"
          /\ pc[c] = "answered" /\ caller = NoClient
          /\ pc' = [pc EXCEPT ![c] = IF announced = serial[c] THEN "success" ELSE "waiting"]
    /\ UNCHANGED <<daemonVars, caller, serial, signals, countVars>>

\* Variant: any announcement will do
OnPropertiesChangedAny(c) ==
    /\ pc[c] = "waiting" /\ signals[c] # <<>>
    /\ signals' = [signals EXCEPT ![c] = Tail(@)]
    /\ pc' = [pc EXCEPT ![c] = "success"]
    /\ UNCHANGED <<daemonVars, caller, serial, countVars>>

OnPropertiesChanged(c) ==
    /\ pc[c] = "waiting" /\ signals[c] # <<>>
    /\ signals' = [signals EXCEPT ![c] = Tail(@)]
    /\ pc' = [pc EXCEPT ![c] = IF Head(signals[c]) = serial[c] THEN "success" ELSE "waiting"]
    /\ UNCHANGED <<daemonVars, caller, serial, countVars>>

OnTimeout(c) ==
    /\ pc[c] = "waiting" /\ pc' = [pc EXCEPT ![c] = "failure"]
    /\ UNCHANGED <<daemonVars, caller, serial, signals, countVars>>

-----------------------------------------------------------------------------
Init ==
    /\ Service!Init
    /\ caller = NoClient
    /\ pc = [c \in Client |-> "start"]
    /\ serial = [c \in Client |-> 0]
    /\ signals = [c \in Client |-> <<>>]
    /\ total = 1 /\ applied = 0 /\ own = [c \in Client |-> 0]

DaemonNext ==
    \/ Reconfigure \/ AnnounceSerial \/ EndService
    \/ \E c \in Client : HandleUpdateCall(c) \/ AnswerUpdateCall(c)

ClientNext ==
    \E c \in Client : CallUpdate(c) \/ CallFails(c) \/ GetSerial(c)
                      \/ OnPropertiesChanged(c) \/ OnTimeout(c)

Next == DaemonNext \/ ClientNext

Spec == Init /\ [][Next]_vars

-----------------------------------------------------------------------------
\* The values of the variables; a serial that was handed out is never 0.
TypeOK ==
    /\ phase \in {"starting", "configuring", "serving", "stopping", "ending", "gone"}
    /\ requested \in 1..(SerialModulus - 1) /\ announced \in 1..(SerialModulus - 1)
    /\ caller \in Client \cup {NoClient}
    /\ pc \in [Client -> Subscribed \cup {"start", "success", "failure"}]
    /\ serial \in [Client -> 0..(SerialModulus - 1)]
    /\ signals \in [Client -> Seq(1..(SerialModulus - 1))]
    /\ total \in Nat /\ applied \in 0..total
    /\ own \in [Client -> 0..total]

\* A client that waits for a serial which has been announced has the signal
\* in its queue: the announcement can not slip between the answer, the
\* reading of the property and the start of the main loop (the client
\* subscribes before it calls, wait_for_serial reads the property first).
NoMissedSerial ==
    \A c \in Client :
        pc[c] = "waiting" /\ announced = serial[c] =>
            \/ phase = "gone"
            \/ \E i \in DOMAIN signals[c] : signals[c][i] = serial[c]

\* While the serials have not wrapped around, a client whose update was
\* accepted succeeds only after its configuration, or one that replaced it,
\* has been announced.
SuccessIsNotEarly ==
    \A c \in Client :
        pc[c] = "success" /\ own[c] # 0 => applied >= own[c]

\* A client that succeeds has had its configuration accepted.
SuccessIsAccepted ==
    \A c \in Client : pc[c] = "success" => own[c] # 0
=============================================================================
