------------------------- MODULE UpdateClientProofs -------------------------
(***************************************************************************)
(* Proofs about UpdateClient for any number of clients.                    *)
(***************************************************************************)
EXTENDS UpdateClient, TLAPS

\* The time that each prover has for a step
USE SMTT(30), ZenonT(30)

Serial == 1..(SerialModulus - 1)

LEMMA ClientTypeInit == Init => TypeOK
BY ClientAssumption DEF Init, Service!Init, TypeOK

LEMMA AcceptTypes ==
    ASSUME TypeOK, AcceptConfiguration
    PROVE  /\ phase' \in {"starting", "configuring", "serving", "stopping", "ending", "gone"}
           /\ requested' \in 1..(SerialModulus - 1) /\ announced' = announced
           /\ total' = total + 1 /\ applied' = applied
           /\ total' \in Nat /\ applied' \in 0..total' /\ total' \in 0..total'
           /\ own \in [Client -> 0..total']
<1>1. /\ phase' \in {"starting", "configuring", "serving", "stopping", "ending", "gone"}
      /\ requested' \in 1..(SerialModulus - 1) /\ announced' = announced
      /\ total' = total + 1 /\ applied' = applied
    BY ClientAssumption DEF TypeOK, AcceptConfiguration, Service!Accept, Service!Successor
<1>2. total \in Nat /\ applied \in 0..total /\ own \in [Client -> 0..total]
    BY DEF TypeOK
<1>3. /\ 0..total \subseteq 0..total'
      /\ total' \in Nat /\ applied' \in 0..total' /\ total' \in 0..total'
    BY <1>1, <1>2
<1>4. own \in [Client -> 0..total']
    BY <1>2, <1>3
<1> QED
    BY <1>1, <1>3, <1>4

LEMMA ClientTypeStep == TypeOK /\ [Next]_vars => TypeOK'
<1> SUFFICES ASSUME TypeOK, [Next]_vars PROVE TypeOK'
    OBVIOUS
<1> USE DEF daemonVars, clientVars, countVars
<1>1. CASE Reconfigure
    BY <1>1, AcceptTypes DEF Reconfigure, TypeOK
<1>2. CASE AnnounceSerial
  <2>1. announced' \in 1..(SerialModulus - 1)
    BY <1>2 DEF AnnounceSerial, Service!Announce, TypeOK
  <2>2. signals' \in [Client -> Seq(1..(SerialModulus - 1))]
    <3>1. ASSUME NEW c \in Client PROVE Append(signals[c], announced') \in Seq(Serial)
      BY <2>1 DEF TypeOK, Serial
    <3>2. ASSUME NEW c \in Client PROVE signals[c] \in Seq(Serial)
      BY DEF TypeOK, Serial
    <3>3. signals' = [c \in Client |-> IF pc[c] \in Subscribed THEN Append(signals[c], announced')
                                                               ELSE signals[c]]
      BY <1>2 DEF AnnounceSerial
    <3>4. signals' \in [Client -> Seq(Serial)]
      BY <3>1, <3>2, <3>3
    <3> QED
      BY <3>4 DEF Serial
  <2> QED
    BY <1>2, <2>1, <2>2 DEF AnnounceSerial, Service!Announce, TypeOK
<1>3. CASE EndService
    BY <1>3 DEF EndService, Service!Withdraw, Service!Finish, Service!Leave, TypeOK
<1>4. ASSUME NEW c \in Client, HandleUpdateCall(c) PROVE TypeOK'
  <2>1. CASE AcceptConfiguration /\ caller' = c /\ own' = [own EXCEPT ![c] = total']
             /\ UNCHANGED clientVars
    BY <2>1, AcceptTypes DEF TypeOK
  <2>2. CASE caller' = c /\ UNCHANGED <<daemonVars, clientVars, countVars>>
    BY <2>2 DEF TypeOK
  <2>3. CASE /\ serial' = [serial EXCEPT ![c] = 0] /\ pc' = [pc EXCEPT ![c] = "answered"]
             /\ UNCHANGED <<daemonVars, caller, signals, countVars>>
    BY <2>3, ClientAssumption DEF TypeOK, Subscribed
  <2> QED
    BY <1>4, <2>1, <2>2, <2>3 DEF HandleUpdateCall
<1>5. ASSUME NEW c \in Client, AnswerUpdateCall(c) PROVE TypeOK'
    BY <1>5, ClientAssumption DEF AnswerUpdateCall, TypeOK, Subscribed
<1>6. ASSUME NEW c \in Client, CallUpdate(c) \/ CallFails(c) \/ OnTimeout(c) PROVE TypeOK'
    BY <1>6 DEF CallUpdate, CallFails, OnTimeout, TypeOK, Subscribed
<1>7. ASSUME NEW c \in Client, GetSerial(c) PROVE TypeOK'
    BY <1>7 DEF GetSerial, TypeOK, Subscribed
<1>8. ASSUME NEW c \in Client, OnPropertiesChanged(c) PROVE TypeOK'
  <2>1. Tail(signals[c]) \in Seq(1..(SerialModulus - 1))
    BY <1>8 DEF OnPropertiesChanged, TypeOK
  <2> QED
    BY <1>8, <2>1 DEF OnPropertiesChanged, TypeOK, Subscribed
<1>9. CASE UNCHANGED vars
    BY <1>9 DEF vars, TypeOK
<1> QED
    BY <1>1, <1>2, <1>3, <1>4, <1>5, <1>6, <1>7, <1>8, <1>9 DEF Next, DaemonNext, ClientNext

LEMMA ClientTypeCorrect == Spec => []TypeOK
BY ClientTypeInit, ClientTypeStep, PTL DEF Spec

Queued(c) == \E i \in DOMAIN signals[c] : signals[c][i] = serial[c]

\* A waiting client never misses the announcement of its serial, for any
\* number of clients and reconfigurations: subscribing before the call and
\* reading the property before the wait leaves no gap.
THEOREM NoMissedSerialHolds == Spec => []NoMissedSerial
<1>1. Init => NoMissedSerial
    BY DEF Init, NoMissedSerial
<1>2. TypeOK /\ NoMissedSerial /\ [Next]_vars => NoMissedSerial'
  <2> SUFFICES ASSUME TypeOK, NoMissedSerial, [Next]_vars,
                      NEW k \in Client, pc'[k] = "waiting", announced' = serial'[k]
               PROVE  phase' = "gone" \/ Queued(k)'
      BY DEF NoMissedSerial, Queued
  <2> USE DEF daemonVars, clientVars, countVars
  <2>1. CASE Reconfigure
      BY <2>1 DEF Reconfigure, AcceptConfiguration, Service!Accept, NoMissedSerial, Queued
  <2>2. CASE AnnounceSerial
    <3>1. signals'[k] = Append(signals[k], announced')
      BY <2>2 DEF AnnounceSerial, Subscribed
    <3>2. signals[k] \in Seq(1..(SerialModulus - 1))
      BY DEF TypeOK
    <3>3. Len(signals[k]) + 1 \in DOMAIN signals'[k]
          /\ signals'[k][Len(signals[k]) + 1] = announced'
      BY <3>1, <3>2
    <3> QED
      BY <3>3 DEF Queued
  <2>3. CASE EndService
      BY <2>3 DEF EndService, Service!Withdraw, Service!Finish, Service!Leave, NoMissedSerial, Queued
  <2>4. ASSUME NEW c \in Client, HandleUpdateCall(c) PROVE phase' = "gone" \/ Queued(k)'
      BY <2>4 DEF HandleUpdateCall, AcceptConfiguration, Service!Accept, NoMissedSerial, Queued, TypeOK
  <2>5. ASSUME NEW c \in Client, AnswerUpdateCall(c) PROVE phase' = "gone" \/ Queued(k)'
      BY <2>5 DEF AnswerUpdateCall, NoMissedSerial, Queued, TypeOK
  <2>6. ASSUME NEW c \in Client, CallUpdate(c) \/ CallFails(c) \/ OnTimeout(c)
        PROVE phase' = "gone" \/ Queued(k)'
      BY <2>6 DEF CallUpdate, CallFails, OnTimeout, NoMissedSerial, Queued, TypeOK
  <2>7. ASSUME NEW c \in Client, GetSerial(c) PROVE phase' = "gone" \/ Queued(k)'
      BY <2>7 DEF GetSerial, NoMissedSerial, Queued, TypeOK
  <2>8. ASSUME NEW c \in Client, OnPropertiesChanged(c) PROVE phase' = "gone" \/ Queued(k)'
    <3>1. CASE c # k
      BY <2>8, <3>1 DEF OnPropertiesChanged, NoMissedSerial, Queued, TypeOK
    <3>2. CASE c = k
      <4>1. pc[k] = "waiting" /\ announced = serial[k] /\ Head(signals[k]) # serial[k]
            /\ phase' = phase /\ serial'[k] = serial[k] /\ signals'[k] = Tail(signals[k])
        BY <2>8, <3>2 DEF OnPropertiesChanged, TypeOK
      <4>2. CASE Queued(k)
        <5>1. PICK i \in DOMAIN signals[k] : signals[k][i] = serial[k]
          BY <4>2 DEF Queued
        <5>2. signals[k] \in Seq(1..(SerialModulus - 1)) /\ signals[k] # <<>>
          BY <2>8, <3>2 DEF TypeOK, OnPropertiesChanged
        <5>3. i # 1
          BY <4>1, <5>1, <5>2
        <5>4. i - 1 \in DOMAIN Tail(signals[k]) /\ Tail(signals[k])[i - 1] = serial[k]
          BY <5>1, <5>2, <5>3
        <5> QED
          BY <4>1, <5>4 DEF Queued
      <4> QED
        BY <4>1, <4>2 DEF NoMissedSerial, Queued
    <3> QED
      BY <3>1, <3>2
  <2>9. CASE UNCHANGED vars
      BY <2>9 DEF vars, NoMissedSerial, Queued
  <2> QED
      BY <2>1, <2>2, <2>3, <2>4, <2>5, <2>6, <2>7, <2>8, <2>9 DEF Next, DaemonNext, ClientNext
<1> QED
    BY <1>1, <1>2, ClientTypeCorrect, PTL DEF Spec
=============================================================================
