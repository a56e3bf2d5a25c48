--------------------------- MODULE DnsconfdProofs ---------------------------
(***************************************************************************)
(* Proofs about Dnsconfd for every value of the constants.                 *)
(***************************************************************************)
EXTENDS DnsconfdInvariants, TLAPS

\* The time that each prover has for a step
USE SMTT(30), ZenonT(30)

-----------------------------------------------------------------------------
(* Type correctness                                                        *)

LEMMA TypeInit == Init => TypeOK
<1> SUFFICES ASSUME Init PROVE TypeOK
    OBVIOUS
<1>1. Values
    BY ServiceAssumption, FsmAssumption
       DEF Init, ServiceInit, Values, ServiceTypeOK, State, Event, Mode, MODE_BACKUP
<1>2. Flags
    BY DEF Init, ServiceInit, Flags
<1> QED
    BY <1>1, <1>2 DEF TypeOK

LEMMA ValuesStep == Values /\ [Next]_vars => Values'
<1> SUFFICES ASSUME Values, [Next]_vars PROVE Values'
    OBVIOUS
<1> USE ServiceAssumption, FsmAssumption DEF Values, ServiceTypeOK, State, Event
<1> USE DEF loopVars, serverVars, appliedVars, resolvVars, fileVars, systemdVars, processVars,
            serviceVars, handlerVars
<1>1. CASE HandleReloadCall
    BY <1>1 DEF HandleReloadCall, Dispatch
<1>2. CASE OnSigterm
    BY <1>2 DEF OnSigterm, Dispatch
<1>3. ASSUME NEW u \in Updates, HandleUpdateCall(u) PROVE Values'
    BY <1>3, UpdatesAssumption DEF HandleUpdateCall, Dispatch
<1>4. CASE OnNameAcquired
    BY <1>4 DEF OnNameAcquired, Dispatch
<1>5. CASE OnNameLost
    BY <1>5 DEF OnNameLost
<1>6. CASE OnFileChanged
    BY <1>6 DEF OnFileChanged, Dispatch
<1>7. CASE CleanContext
    BY <1>7 DEF CleanContext
<1>8. CASE ServiceStep
  <2> USE <1>8 DEF ServiceStep, fsmVars
  <2>1. CASE RunScript
    BY <2>1 DEF RunScript
  <2>2. CASE StopUnbound
    BY <2>2 DEF StopUnbound, WriteStatusFile, Capped
  <2>3. CASE StartUnbound
    BY <2>3 DEF StartUnbound
  <2>4. CASE FailStart
    BY <2>4 DEF FailStart, WriteStatusFile, Capped
  <2>5. CASE ReportReady
    BY <2>5 DEF ReportReady, WriteStatusFile, Capped
  <2>6. CASE AdminCommand
    BY <2>6 DEF AdminCommand
  <2>7. CASE CrashUnbound
    BY <2>7 DEF CrashUnbound, WriteStatusFile, Capped
  <2> QED
    BY <2>1, <2>2, <2>3, <2>4, <2>5, <2>6, <2>7 DEF ServiceNext, SystemdNext
<1>9. CASE DaemonStep
  <2> DEFINE Called == /\ cur_event' \in Event
                       /\ resolution_mode' \in Mode
                       /\ requested_configuration_serial' \in 1..(SerialModulus - 1)
                       /\ current_configuration_serial' \in 1..(SerialModulus - 1)
                       /\ expected_status' \in {"none", "ready", "stopped"}
                       /\ faults' \in 0..MaxFaults
                       /\ ServiceTypeOK'
  <2>0. UNCHANGED handlerVars /\ origin' = IF cur_event' = "NONE" THEN "none" ELSE origin
    BY <1>9 DEF DaemonStep, StateTransition
  <2>1. ASSUME NEW expected \in {"ready", "stopped"}, NEW command \in {"restart", "stop"},
               SetServiceStatus(expected, command)
        PROVE Called
    BY <2>1 DEF SetServiceStatus, WriteStatusFile, WriteControlFile, Capped, Fault
  <2>2. ASSUME UNCHANGED serverVars \/ SetDynamicServers, SetResolvConf PROVE Called
    BY <2>2 DEF SetDynamicServers, UpdateContext, NextSerial, SetResolvConf, Fault
  <2>3. ASSUME Kickoff PROVE Called
    BY <2>3 DEF UpdateContext, NextSerial, Kickoff, Subscribe, WriteConfiguration, Capped, Fault
  <2>4. ASSUME StoreUpdate PROVE Called
    BY <2>4 DEF StoreUpdate, SetDynamicServers, UpdateContext, NextSerial
  <2>5. ASSUME RevertResolvConf PROVE Called
    BY <2>5 DEF RevertResolvConf, Fault
  <2>6. ASSUME UpdateDnsManager PROVE Called
    BY <2>6 DEF UpdateDnsManager, Fault
  <2>7. ASSUME NEW state, NEW event \in Event, JustGoto(state, event) PROVE Called
    BY <2>7 DEF JustGoto
  <2>8. ASSUME Called, current_state' \in State,
               \/ UNCHANGED loopVars
               \/ UNCHANGED main_loop /\ \E code \in {"SERVICE_FAILURE", "RESOLV_CONF_FAILURE",
                                                       "UPDATE_FAILURE"} : SetExitCode(code)
               \/ exit_code' = "FSM_FAILURE" /\ main_loop' = "quit"
               \/ UNCHANGED exit_code /\ main_loop' = "quit"
        PROVE Values'
    <3>1. /\ main_loop' \in {"running", "quit", "exited"}
          /\ exit_code' \in {"OK", "SERVICE_FAILURE", "DBUS_FAILURE", "RESOLV_CONF_FAILURE",
                             "UPDATE_FAILURE", "FSM_FAILURE"}
      BY <2>8 DEF SetExitCode
    <3>2. /\ origin' \in {"none", "handle_update_call", "handle_reload_call",
                          "on_name_acquired", "on_sigterm", "on_systemd_job_finished"}
          /\ bus_name' \in {"none", "owned", "lost"}
      BY <2>0
    <3> QED
      BY <2>8, <3>1, <3>2
  <2> HIDE DEF Called
  <2> USE DEF At, Goto
  <2>9. CASE Starting \/ UpdatingDnsManager
    BY <2>9, <2>3, <2>4, <2>5, <2>7, <2>8 DEF Starting, UpdatingDnsManager, JustGoto, StoreUpdate
  <2>10. CASE Configuring \/ Reverting \/ SettingResolvConf
    BY <2>10, <2>1, <2>6, <2>7, <2>8 DEF Configuring, Reverting, SettingResolvConf, JustGoto
  <2>11. CASE WaitingForStart
    BY <2>11, <2>1, <2>2, <2>3, <2>4, <2>7, <2>8 DEF WaitingForStart, JustGoto, StoreUpdate
  <2>12. CASE Running
    BY <2>12, <2>2, <2>3, <2>5, <2>8 DEF Running
  <2>13. CASE SubmittingStart \/ SubmittingStop \/ WaitingStop
    BY <2>13, <2>7, <2>8 DEF SubmittingStart, SubmittingStop, WaitingStop, JustGoto
  <2>14. CASE Stopping \/ Reject
    BY <2>14, <2>7, <2>8 DEF Stopping, Reject, JustGoto
  <2> QED
    BY <1>9, <2>9, <2>10, <2>11, <2>12, <2>13, <2>14 DEF DaemonStep, StateTransition
<1>10. CASE UNCHANGED vars
    BY <1>10 DEF vars, fsmVars
<1> QED
    BY <1>1, <1>2, <1>3, <1>4, <1>5, <1>6, <1>7, <1>8, <1>9, <1>10 DEF Next, Request

LEMMA FlagsStep == TypeOK /\ [Next]_vars => Flags'
<1> SUFFICES ASSUME TypeOK, [Next]_vars PROVE Flags'
    OBVIOUS
<1> USE DEF TypeOK, Flags
<1> USE DEF loopVars, serverVars, appliedVars, resolvVars, fileVars, systemdVars, processVars,
            serviceVars, handlerVars
<1>1. CASE HandleReloadCall
    BY <1>1 DEF HandleReloadCall, Dispatch
<1>2. CASE OnSigterm
    BY <1>2 DEF OnSigterm, Dispatch
<1>3. ASSUME NEW u \in Updates, HandleUpdateCall(u) PROVE Flags'
    BY <1>3 DEF HandleUpdateCall, Dispatch
<1>4. CASE OnNameAcquired
    BY <1>4 DEF OnNameAcquired, Dispatch
<1>5. CASE OnNameLost
    BY <1>5 DEF OnNameLost
<1>6. CASE OnFileChanged
    BY <1>6 DEF OnFileChanged, Dispatch
<1>7. CASE CleanContext
    BY <1>7 DEF CleanContext
<1>8. CASE ServiceStep
    BY <1>8 DEF ServiceStep, fsmVars, ServiceNext, SystemdNext, RunScript, StopUnbound, StartUnbound,
                FailStart, ReportReady, AdminCommand, CrashUnbound
<1>9. CASE DaemonStep
  <2>0. UNCHANGED handlerVars
    BY <1>9 DEF DaemonStep
  <2> USE <2>0 DEF Goto, JustGoto
  <2>1. ASSUME NEW expected, NEW command, SetServiceStatus(expected, command) PROVE Flags'
    BY <2>1, ServiceAssumption DEF SetServiceStatus, WriteControlFile
  <2>2. CASE Kickoff
    BY <2>2 DEF Kickoff
  <2>3. CASE Starting
    BY <2>2, <2>3 DEF Starting, StoreUpdate
  <2>4. CASE WaitingForStart
    BY <2>1, <2>2, <2>4 DEF WaitingForStart, StoreUpdate, SetResolvConf
  <2>5. CASE SettingResolvConf
    BY <2>1, <2>5 DEF SettingResolvConf, UpdateDnsManager
  <2>6. CASE UpdatingDnsManager
    BY <2>2, <2>6 DEF UpdatingDnsManager, RevertResolvConf
  <2>7. CASE Running
    BY <2>2, <2>7 DEF Running, SetResolvConf, RevertResolvConf
  <2>8. CASE Configuring \/ Reverting
    BY <2>1, <2>8 DEF Configuring, Reverting
  <2>9. CASE SubmittingStart \/ SubmittingStop \/ WaitingStop \/ Stopping \/ Reject
    BY <2>9 DEF SubmittingStart, SubmittingStop, WaitingStop, Stopping, Reject
  <2> QED
    BY <1>9, <2>3, <2>4, <2>5, <2>6, <2>7, <2>8, <2>9 DEF DaemonStep, StateTransition
<1>10. CASE UNCHANGED vars
    BY <1>10 DEF vars
<1> QED
    BY <1>1, <1>2, <1>3, <1>4, <1>5, <1>6, <1>7, <1>8, <1>9, <1>10 DEF Next, Request

\* Every variable keeps its type whatever the clients, systemd and Unbound
\* do; in particular a serial handed out by update_context is never 0.
THEOREM TypeCorrect == Spec => []TypeOK
<1>1. Init => TypeOK
    BY TypeInit
<1>2. TypeOK /\ [Next]_vars => TypeOK'
    BY ValuesStep, FlagsStep DEF TypeOK
<1> QED
    BY <1>1, <1>2, PTL DEF Spec

-----------------------------------------------------------------------------
(* Which events meet which states                                          *)

\* Looking up the case labels
LEMMA HandledLookup ==
    /\ Handled["STARTING"] = {"UPDATE", "KICKOFF", "RELOAD", "STOP"}
    /\ Handled["CONFIGURING_DNS_MANAGER"] = {"SUCCESS", "FAILURE"}
    /\ Handled["SUBMITTING_START_JOB"] = {"SUCCESS", "FAILURE"}
    /\ Handled["WAITING_FOR_START_JOB"] = {"JOB_SUCCESS", "JOB_FAILURE", "UPDATE", "RELOAD", "STOP"}
    /\ Handled["SETTING_RESOLV_CONF"] = {"SUCCESS", "FAILURE"}
    /\ Handled["UPDATING_DNS_MANAGER"] = {"SUCCESS", "FAILURE", "RELOAD"}
    /\ Handled["RUNNING"] = {"UPDATE", "RELOAD", "STOP"}
    /\ Handled["REVERTING_RESOLV_CONF"] = {"SUCCESS", "FAILURE"}
    /\ Handled["SUBMITTING_STOP_JOB"] = {"SUCCESS", "FAILURE"}
    /\ Handled["WAITING_STOP_JOB"] = {"JOB_SUCCESS", "JOB_FAILURE", "UPDATE", "RELOAD", "STOP"}
    /\ Handled["STOPPING"] = {"STOP"}
BY DEF Handled

LEMMA ControlInit == Init => ControlInv
BY DEF Init, ControlInv, Transient

LEMMA ControlStep == TypeOK /\ ControlInv /\ [Next]_vars => ControlInv'
<1> SUFFICES ASSUME Values, ControlInv, [Next]_vars PROVE ControlInv'
    BY DEF TypeOK
<1> USE DEF ControlInv, Transient
<1>1. CASE HandleReloadCall
    BY <1>1 DEF HandleReloadCall, Dispatch, handlerVars
<1>2. CASE OnSigterm
    BY <1>2 DEF OnSigterm, Dispatch
<1>3. ASSUME NEW u \in Updates, HandleUpdateCall(u) PROVE ControlInv'
    BY <1>3 DEF HandleUpdateCall, Dispatch, handlerVars
<1>4. CASE OnNameAcquired
    BY <1>4 DEF OnNameAcquired, Dispatch
<1>5. CASE OnNameLost
    BY <1>5 DEF OnNameLost
<1>6. CASE OnFileChanged
    BY <1>6 DEF OnFileChanged, Dispatch, handlerVars
<1>7. CASE CleanContext
    BY <1>7 DEF CleanContext, handlerVars
<1>8. CASE ServiceStep
    BY <1>8 DEF ServiceStep, fsmVars, loopVars, handlerVars
<1>9. CASE DaemonStep
  <2>0. UNCHANGED handlerVars /\ origin' = IF cur_event' = "NONE" THEN "none" ELSE origin
    BY <1>9 DEF DaemonStep, StateTransition
  <2> USE <2>0 DEF At, Goto, JustGoto, loopVars, handlerVars
  <2>1. ASSUME NEW expected, NEW command, SetServiceStatus(expected, command)
        PROVE cur_event' \in {"SUCCESS", "FAILURE"}
    BY <2>1 DEF SetServiceStatus
  <2>2. ASSUME Kickoff PROVE cur_event' \in {"SUCCESS", "FAILURE"}
    BY <2>2 DEF Kickoff, WriteConfiguration
  <2>3. ASSUME SetResolvConf \/ RevertResolvConf PROVE cur_event' \in {"SUCCESS", "FAILURE"}
    BY <2>3 DEF SetResolvConf, RevertResolvConf
  <2>4. CASE Starting
    BY <2>2, <2>4 DEF Starting, StoreUpdate
  <2>5. CASE Configuring \/ Reverting
    BY <2>1, <2>5 DEF Configuring, Reverting
  <2>6. CASE WaitingForStart
    BY <2>1, <2>2, <2>3, <2>6 DEF WaitingForStart, StoreUpdate
  <2>7. CASE SettingResolvConf
    <3>1. ASSUME UpdateDnsManager PROVE cur_event' \in {"SUCCESS", "FAILURE", "RELOAD"}
      BY <3>1 DEF UpdateDnsManager
    <3> QED
      BY <2>1, <2>7, <3>1 DEF SettingResolvConf
  <2>8. CASE UpdatingDnsManager
    BY <2>2, <2>3, <2>8 DEF UpdatingDnsManager
  <2>9. CASE Running
    BY <2>2, <2>3, <2>9 DEF Running
  <2>10. CASE SubmittingStart \/ SubmittingStop \/ WaitingStop \/ Stopping
    BY <2>10 DEF SubmittingStart, SubmittingStop, WaitingStop, Stopping
  <2>11. CASE Reject
    <3>1. /\ current_state' = current_state /\ cur_event' = "NONE"
          /\ main_loop' \in {main_loop, "quit"}
          /\ cur_event \notin Handled[current_state]
      BY <2>11 DEF Reject
    <3>2. current_state \notin Transient
      BY <3>1, HandledLookup
    <3>3. ~(main_loop = "running" /\ current_state = "STOPPING")
      BY <3>1, HandledLookup
    <3>4. main_loop' = "running" => main_loop = "running"
      BY <3>1
    <3> QED
      BY <3>1, <3>2, <3>3, <3>4
  <2> QED
    BY <1>9, <2>4, <2>5, <2>6, <2>7, <2>8, <2>9, <2>10, <2>11 DEF DaemonStep, StateTransition
<1>10. CASE UNCHANGED vars
    BY <1>10 DEF vars, fsmVars, loopVars, handlerVars
<1> QED
    BY <1>1, <1>2, <1>3, <1>4, <1>5, <1>6, <1>7, <1>8, <1>9, <1>10 DEF Next, Request

LEMMA ControlCorrect == Spec => []ControlInv
BY ControlInit, ControlStep, TypeCorrect, PTL DEF Spec

\* No call, signal or bus event meets a state without a case for it while
\* the main loop runs: the exits that ask the user to report a bug are
\* unreachable, however many updates there are.
THEOREM NoUnexpectedEventHolds == Spec => []NoUnexpectedEvent
<1>1. TypeOK /\ ControlInv => NoUnexpectedEvent
    BY HandledLookup DEF TypeOK, Values, ControlInv, NoUnexpectedEvent, Transient, State, Event
<1> QED
    BY <1>1, TypeCorrect, ControlCorrect, PTL

-----------------------------------------------------------------------------
(* The backup of resolv.conf                                               *)

LEMMA BackupInit == Init => BackupInv
BY DEF Init, BackupInv, Original, NoBackup

LEMMA BackupStep == BackupInv /\ [Next]_vars => BackupInv'
<1> SUFFICES ASSUME BackupInv, [Next]_vars PROVE BackupInv'
    OBVIOUS
<1> USE DEF BackupInv, resolvVars
<1>1. CASE HandleReloadCall \/ OnSigterm \/ OnNameAcquired \/ OnFileChanged
    BY <1>1 DEF HandleReloadCall, OnSigterm, OnNameAcquired, OnFileChanged, Dispatch
<1>2. ASSUME NEW u \in Updates, HandleUpdateCall(u) PROVE BackupInv'
    BY <1>2 DEF HandleUpdateCall, Dispatch
<1>3. CASE OnNameLost \/ CleanContext
    BY <1>3 DEF OnNameLost, CleanContext
<1>4. CASE ServiceStep
    BY <1>4 DEF ServiceStep, fsmVars
<1>5. CASE DaemonStep
  <2> USE DEF At, Goto, JustGoto
  <2>1. ASSUME NEW expected, NEW command, SetServiceStatus(expected, command)
        PROVE UNCHANGED resolvVars
    BY <2>1 DEF SetServiceStatus
  <2>2. ASSUME Kickoff PROVE UNCHANGED resolvVars
    BY <2>2 DEF Kickoff
  <2>3. ASSUME SetResolvConf
        PROVE resolv_conf' # NoBackup /\ (cur_event' = "SUCCESS" => resolv_conf_backup' # NoBackup)
    BY <2>3 DEF SetResolvConf, Generated, Torn, NoBackup
  <2>4. ASSUME RevertResolvConf, resolv_conf_backup # NoBackup
        PROVE resolv_conf' # NoBackup /\ resolv_conf_backup' # NoBackup
    BY <2>4 DEF RevertResolvConf, Torn, NoBackup
  <2>5. CASE Starting
    BY <2>2, <2>5 DEF Starting, StoreUpdate
  <2>6. CASE Configuring \/ Reverting
    BY <2>1, <2>6 DEF Configuring, Reverting
  <2>7. CASE WaitingForStart
    BY <2>1, <2>2, <2>3, <2>7 DEF WaitingForStart, StoreUpdate
  <2>8. CASE SettingResolvConf
    BY <2>1, <2>8 DEF SettingResolvConf, UpdateDnsManager
  <2>9. CASE UpdatingDnsManager
    BY <2>2, <2>4, <2>9 DEF UpdatingDnsManager
  <2>10. CASE Running
    BY <2>2, <2>3, <2>4, <2>10 DEF Running
  <2>11. CASE SubmittingStart \/ SubmittingStop \/ WaitingStop \/ Stopping
    BY <2>11 DEF SubmittingStart, SubmittingStop, WaitingStop, Stopping
  <2>12. CASE Reject
    BY <2>12 DEF Reject
  <2> QED
    BY <1>5, <2>5, <2>6, <2>7, <2>8, <2>9, <2>10, <2>11, <2>12 DEF DaemonStep, StateTransition
<1>6. CASE UNCHANGED vars
    BY <1>6 DEF vars, fsmVars
<1> QED
    BY <1>1, <1>2, <1>3, <1>4, <1>5, <1>6 DEF Next, Request

LEMMA BackupCorrect == Spec => []BackupInv
BY BackupInit, BackupStep, PTL DEF Spec

\* revert_resolv_conf never runs without a backup: no interleaving of
\* updates, reloads and failing writes leads to its unchecked dereference.
THEOREM BackupBeforeRevertHolds == Spec => []BackupBeforeRevert
<1>1. BackupInv => BackupBeforeRevert
    BY DEF BackupInv, BackupBeforeRevert
<1> QED
    BY <1>1, BackupCorrect, PTL

-----------------------------------------------------------------------------
(* What is in place when the daemon rests in FSM_RUNNING                   *)

LEMMA AppliedInit == Init => AppliedInv
BY DEF Init, AppliedInv

LEMMA AppliedStep == ControlInv /\ AppliedInv /\ [Next]_vars => AppliedInv'
<1> SUFFICES ASSUME ControlInv, AppliedInv, [Next]_vars PROVE AppliedInv'
    OBVIOUS
<1> USE DEF AppliedInv, ResolvConfApplied, UnboundApplied, resolvVars, appliedVars, serverVars
<1>1. CASE HandleReloadCall \/ OnSigterm \/ OnNameAcquired \/ OnFileChanged
    BY <1>1 DEF HandleReloadCall, OnSigterm, OnNameAcquired, OnFileChanged, Dispatch
<1>2. ASSUME NEW u \in Updates, HandleUpdateCall(u) PROVE AppliedInv'
    BY <1>2 DEF HandleUpdateCall, Dispatch, ControlInv, Transient
<1>3. CASE OnNameLost \/ CleanContext
    BY <1>3 DEF OnNameLost, CleanContext
<1>4. CASE ServiceStep
    BY <1>4 DEF ServiceStep, fsmVars
<1>5. CASE DaemonStep
  <2> USE DEF At, Goto, JustGoto
  <2>1. CASE Starting
    BY <2>1 DEF Starting, StoreUpdate
  <2>2. CASE Configuring \/ Reverting
    BY <2>2 DEF Configuring, Reverting
  <2>3. CASE WaitingForStart
    <3>1. ASSUME UNCHANGED serverVars, SetResolvConf, cur_event' = "SUCCESS"
          PROVE ResolvConfApplied'
      BY <3>1 DEF SetResolvConf
    <3> QED
      BY <2>3, <3>1 DEF WaitingForStart, StoreUpdate
  <2>4. CASE SettingResolvConf
    <3>1. ASSUME UpdateDnsManager PROVE cur_event' = "SUCCESS" => UnboundApplied'
      BY <3>1 DEF UpdateDnsManager
    <3>2. ASSUME UpdateDnsManager, ResolvConfApplied PROVE ResolvConfApplied'
      BY <3>2 DEF UpdateDnsManager
    <3> QED
      BY <2>4, <3>1, <3>2 DEF SettingResolvConf
  <2>5. CASE UpdatingDnsManager
    BY <2>5 DEF UpdatingDnsManager
  <2>6. CASE Running
    <3>1. ASSUME SetDynamicServers, SetResolvConf, cur_event' = "SUCCESS"
          PROVE ResolvConfApplied'
      BY <3>1 DEF SetResolvConf
    <3> QED
      BY <2>6, <3>1 DEF Running
  <2>7. CASE SubmittingStart \/ SubmittingStop \/ WaitingStop \/ Stopping
    BY <2>7 DEF SubmittingStart, SubmittingStop, WaitingStop, Stopping
  <2>8. CASE Reject
    <3>1. current_state = "RUNNING" => cur_event # "UPDATE"
      BY <2>8, HandledLookup DEF Reject
    <3> QED
      BY <2>8, <3>1 DEF Reject
  <2> QED
    BY <1>5, <2>1, <2>2, <2>3, <2>4, <2>5, <2>6, <2>7, <2>8 DEF DaemonStep, StateTransition
<1>6. CASE UNCHANGED vars
    BY <1>6 DEF vars, fsmVars
<1> QED
    BY <1>1, <1>2, <1>3, <1>4, <1>5, <1>6 DEF Next, Request

LEMMA AppliedCorrect == Spec => []AppliedInv
BY AppliedInit, AppliedStep, ControlCorrect, PTL DEF Spec

\* At rest in FSM_RUNNING the announced serial, the table given to Unbound,
\* its bundle and resolv.conf all belong to the servers and the mode last
\* requested, for every list of servers and every history of updates,
\* reloads and failures.
THEOREM RunningIsAppliedHolds == Spec => []RunningIsApplied
<1>1. AppliedInv => RunningIsApplied
    BY DEF AppliedInv, ResolvConfApplied, UnboundApplied, RunningIsApplied, AtRest
<1> QED
    BY <1>1, AppliedCorrect, PTL

-----------------------------------------------------------------------------
(* A start of Unbound is always answered by something still to come        *)

\* No event is rejected in a state in which the daemon never rests.
LEMMA RejectAtRest == ControlInv /\ Reject => current_state \notin Transient
<1> SUFFICES ASSUME ControlInv, Reject, current_state \in Transient PROVE FALSE
    OBVIOUS
<1>1. cur_event \notin Handled[current_state]
    BY DEF Reject
<1>2. \/ cur_event \in {"SUCCESS", "FAILURE"}
      \/ current_state = "UPDATING_DNS_MANAGER" /\ cur_event = "RELOAD"
    BY DEF ControlInv
<1> QED
    BY <1>1, <1>2, HandledLookup DEF Transient

LEMMA WakeInit == Init => WakeInv
BY DEF Init, ServiceInit, WakeInv, Awaiting

LEMMA CappedPositive ==
    ASSUME Values PROVE monitors > 0 => Capped(notes + monitors) > 0
BY ServiceAssumption DEF Values, ServiceTypeOK, Capped

LEMMA WakeStep == TypeOK /\ ControlInv /\ WakeInv /\ [Next]_vars => WakeInv'
<1> SUFFICES ASSUME Values, ControlInv, WakeInv, [Next]_vars PROVE WakeInv'
    BY DEF TypeOK
<1> USE DEF WakeInv, Awaiting, fileVars, systemdVars
<1>1. CASE HandleReloadCall \/ OnSigterm \/ OnNameAcquired
  <2>1. CASE HandleReloadCall
    BY <2>1 DEF HandleReloadCall, Dispatch
  <2>2. CASE OnSigterm
    BY <2>2 DEF OnSigterm, Dispatch
  <2>3. CASE OnNameAcquired
    BY <2>3 DEF OnNameAcquired, Dispatch
  <2> QED
    BY <1>1, <2>1, <2>2, <2>3
<1>2. ASSUME NEW u \in Updates, HandleUpdateCall(u) PROVE WakeInv'
    BY <1>2 DEF HandleUpdateCall, Dispatch
<1>3. CASE OnNameLost
    BY <1>3 DEF OnNameLost, serviceVars
<1>4. CASE OnFileChanged
    BY <1>4 DEF OnFileChanged, Dispatch, Values, ServiceTypeOK
<1>5. CASE CleanContext
    BY <1>5 DEF CleanContext
<1>6. CASE ServiceStep
  <2> USE <1>6, CappedPositive DEF ServiceStep, fsmVars, loopVars, WriteStatusFile
  <2>1. CASE RunScript
    BY <2>1 DEF RunScript
  <2>2. CASE StopUnbound
    BY <2>2 DEF StopUnbound
  <2>3. CASE StartUnbound
    BY <2>3 DEF StartUnbound
  <2>4. CASE FailStart
    BY <2>4 DEF FailStart
  <2>5. CASE ReportReady
    BY <2>5 DEF ReportReady
  <2>6. CASE AdminCommand
    BY <2>6 DEF AdminCommand
  <2>7. CASE CrashUnbound
    BY <2>7 DEF CrashUnbound
  <2> QED
    BY <2>1, <2>2, <2>3, <2>4, <2>5, <2>6, <2>7 DEF ServiceNext, SystemdNext
<1>7. CASE DaemonStep
  <2> USE DEF At, Goto, JustGoto, serviceVars
  <2>1. ASSUME Kickoff
        PROVE UNCHANGED <<script, job>> /\ (cur_event' = "SUCCESS" => monitors' > 0)
    <3>1. Capped(monitors + 1) > 0
      BY ServiceAssumption DEF Capped, Values, ServiceTypeOK
    <3> QED
      BY <2>1, <3>1 DEF Kickoff, Subscribe
  <2>2. ASSUME NEW expected, NEW command, SetServiceStatus(expected, command)
        PROVE UNCHANGED <<script, job>>
    BY <2>2 DEF SetServiceStatus
  <2>3. ASSUME UNCHANGED <<script, job>>,
               current_state' \notin {"CONFIGURING_DNS_MANAGER", "SUBMITTING_START_JOB",
                                      "WAITING_FOR_START_JOB"}
        PROVE WakeInv'
    BY <2>3
  <2>4. ASSUME Kickoff, current_state' = "CONFIGURING_DNS_MANAGER" PROVE WakeInv'
    BY <2>1, <2>4
  <2>5. ASSUME Awaiting' => Awaiting, current_state' # "CONFIGURING_DNS_MANAGER",
               UNCHANGED <<expected_status, serviceVars>>
        PROVE WakeInv'
    BY <2>5
  <2>6. CASE Configuring
    <3>1. CASE /\ At("CONFIGURING_DNS_MANAGER", {"SUCCESS"})
               /\ Goto("SUBMITTING_START_JOB") /\ SetServiceStatus("ready", "restart")
      <4>1. UNCHANGED <<script, job, monitors>> /\ expected_status' = "ready"
        BY <3>1 DEF SetServiceStatus
      <4>2. cur_event' = "SUCCESS" => control_file' = "restart" /\ (script \/ trigger')
        BY <3>1 DEF SetServiceStatus, WriteControlFile
      <4>3. monitors > 0 /\ current_state' = "SUBMITTING_START_JOB"
        BY <3>1
      <4> QED
        BY <4>1, <4>2, <4>3
    <3>2. CASE At("CONFIGURING_DNS_MANAGER", {"FAILURE"}) /\ JustGoto("STOPPING", "STOP")
      BY <2>3, <3>2
    <3> QED
      BY <2>6, <3>1, <3>2 DEF Configuring
  <2>7. CASE WaitingForStart
    <3>1. CASE At("WAITING_FOR_START_JOB", {"UPDATE"}) /\ UNCHANGED loopVars /\ StoreUpdate
      BY <2>5, <3>1 DEF StoreUpdate, loopVars
    <3> QED
      BY <2>2, <2>3, <2>4, <2>7, <3>1 DEF WaitingForStart, SetResolvConf
  <2>8. CASE SubmittingStart
    BY <2>3, <2>5, <2>8 DEF SubmittingStart, loopVars
  <2>9. CASE Starting \/ UpdatingDnsManager \/ Running
    <3> HIDE DEF WakeInv
    <3> QED
      BY <2>3, <2>4, <2>9 DEF Starting, UpdatingDnsManager, Running, StoreUpdate, SetResolvConf,
                              RevertResolvConf
  <2>10. CASE SettingResolvConf \/ Reverting
    <3> HIDE DEF WakeInv
    <3> QED
      BY <2>2, <2>3, <2>10 DEF SettingResolvConf, Reverting, UpdateDnsManager
  <2>11. CASE SubmittingStop \/ WaitingStop \/ Stopping
    <3> HIDE DEF WakeInv
    <3> QED
      BY <2>3, <2>11 DEF SubmittingStop, WaitingStop, Stopping
  <2>12. CASE Reject
    <3>1. current_state = "WAITING_FOR_START_JOB" => cur_event \in {"NONE", "UPDATE", "KICKOFF"}
      <4>1. current_state = "WAITING_FOR_START_JOB" =>
                cur_event \notin {"JOB_SUCCESS", "JOB_FAILURE", "UPDATE", "RELOAD", "STOP"}
        BY <2>12, HandledLookup DEF Reject
      <4>2. current_state = "WAITING_FOR_START_JOB" => cur_event \notin {"SUCCESS", "FAILURE"}
        BY DEF ControlInv, Transient
      <4>3. cur_event \in Event
        BY DEF Values
      <4> QED
        BY <4>1, <4>2, <4>3 DEF Event
    <3>2. current_state # "SUBMITTING_START_JOB" /\ current_state # "CONFIGURING_DNS_MANAGER"
      BY <2>12, RejectAtRest DEF Transient
    <3> QED
      BY <2>12, <3>1, <3>2 DEF Reject, loopVars, ControlInv
  <2> QED
    BY <1>7, <2>6, <2>7, <2>8, <2>9, <2>10, <2>11, <2>12 DEF DaemonStep, StateTransition
<1>8. CASE UNCHANGED vars
    BY <1>8 DEF vars, fsmVars, loopVars, serviceVars
<1> QED
    BY <1>1, <1>2, <1>3, <1>4, <1>5, <1>6, <1>7, <1>8 DEF Next, Request

LEMMA WakeCorrect == Spec => []WakeInv
BY WakeInit, WakeStep, TypeCorrect, ControlCorrect, PTL DEF Spec

\* The daemon never rests in FSM_WAITING_FOR_START_JOB with nothing left
\* that could wake it: no number of reloads, commands of the administrator
\* or crashes, and no trigger lost by the path unit, loses the wake-up.
THEOREM StartNeverStuckHolds == Spec => []StartNeverStuck
<1>1. WakeInv => StartNeverStuck
    BY DEF WakeInv, Awaiting, StartNeverStuck, AtRest
<1> QED
    BY <1>1, WakeCorrect, PTL

-----------------------------------------------------------------------------
(* Stopping                                                                *)

StopStep ==
    InStop => /\ InStop'
              /\ control_file' \in {control_file, "stop", "empty"}
              /\ current_configuration_serial' = current_configuration_serial
              /\ resolv_conf' \in {resolv_conf, resolv_conf_backup, Torn}

\* Once the daemon has begun to stop, no late event, call or failure makes
\* it configure again, restart Unbound or announce a serial.
THEOREM StopIsFinalHolds == Spec => StopIsFinal
<1>1. ASSUME [Next]_vars PROVE [StopStep]_vars
  <2> SUFFICES ASSUME Next, InStop PROVE StopStep
      BY <1>1 DEF StopStep
  <2> USE DEF StopStep, InStop, appliedVars, resolvVars, fileVars
  <2>1. CASE HandleReloadCall \/ OnSigterm \/ OnNameAcquired \/ OnFileChanged
      BY <2>1 DEF HandleReloadCall, OnSigterm, OnNameAcquired, OnFileChanged, Dispatch
  <2>2. ASSUME NEW u \in Updates, HandleUpdateCall(u) PROVE StopStep
      BY <2>2 DEF HandleUpdateCall, Dispatch
  <2>3. CASE OnNameLost \/ CleanContext
      BY <2>3 DEF OnNameLost, CleanContext, serviceVars
  <2>4. CASE ServiceStep
      BY <2>4 DEF ServiceStep, fsmVars, ServiceNext, SystemdNext, RunScript, StopUnbound,
                  StartUnbound, FailStart, ReportReady, AdminCommand, CrashUnbound
  <2>5. CASE DaemonStep
    <3> USE DEF At, Goto, JustGoto, serviceVars
    <3>1. CASE Reverting
      BY <3>1 DEF Reverting, SetServiceStatus, WriteControlFile
    <3>2. CASE SubmittingStop \/ WaitingStop \/ Stopping \/ Reject
      BY <3>2 DEF SubmittingStop, WaitingStop, Stopping, Reject
    <3>3. ~(\/ Starting \/ Configuring \/ SubmittingStart \/ WaitingForStart
            \/ SettingResolvConf \/ UpdatingDnsManager \/ Running)
      BY DEF Starting, Configuring, SubmittingStart, WaitingForStart, SettingResolvConf,
             UpdatingDnsManager, Running
    <3> QED
      BY <2>5, <3>1, <3>2, <3>3 DEF DaemonStep, StateTransition
  <2> QED
      BY <2>1, <2>2, <2>3, <2>4, <2>5 DEF Next, Request
<1> QED
    BY <1>1, PTL DEF Spec, StopIsFinal, StopStep

-----------------------------------------------------------------------------
(* The daemon implements ConfigService                                     *)

LEMMA ServiceInitRefined == Init => Service!Init
BY DEF Init, Service!Init, Phase, InStop

LEMMA ServiceStepRefined ==
    ControlInv /\ [Next]_vars => [Service!Next]_(Service!serviceState)
<1> SUFFICES ASSUME ControlInv, [Next]_vars
             PROVE Service!Next \/ UNCHANGED Service!serviceState
    OBVIOUS
<1> USE DEF Service!serviceState, Service!Next, Service!Accept, Service!Announce,
            Service!Withdraw, Service!Finish, Service!Leave, Service!Successor,
            Phase, InStop, serverVars, appliedVars, loopVars
<1>1. CASE HandleReloadCall \/ OnSigterm \/ OnNameAcquired \/ OnFileChanged
    BY <1>1 DEF HandleReloadCall, OnSigterm, OnNameAcquired, OnFileChanged, Dispatch,
                ControlInv, Transient
<1>2. ASSUME NEW u \in Updates, HandleUpdateCall(u) PROVE UNCHANGED Service!serviceState
    BY <1>2 DEF HandleUpdateCall, Dispatch, ControlInv, Transient
<1>3. CASE OnNameLost
    BY <1>3 DEF OnNameLost
<1>4. CASE CleanContext
    BY <1>4 DEF CleanContext
<1>5. CASE ServiceStep
    BY <1>5 DEF ServiceStep, fsmVars
<1>6. CASE DaemonStep
  <2> USE DEF At, Goto, JustGoto
  <2>0. main_loop # "exited"
    BY <1>6 DEF DaemonStep, StateTransition, ControlInv, Starting, Configuring, SubmittingStart, WaitingForStart,
           SettingResolvConf, UpdatingDnsManager, Running, Reverting, SubmittingStop,
           WaitingStop, Stopping, Reject
  <2> DEFINE NewSerial == /\ requested_configuration_serial' = NextSerial(requested_configuration_serial)
                          /\ UNCHANGED current_configuration_serial
             SameSerial == UNCHANGED <<requested_configuration_serial, current_configuration_serial>>
  <2>1. ASSUME Kickoff \/ StoreUpdate \/ (SetDynamicServers /\ SetResolvConf) PROVE NewSerial
    BY <2>1 DEF Kickoff, StoreUpdate, SetDynamicServers, UpdateContext, SetResolvConf
  <2>2. ASSUME NEW expected, NEW command, SetServiceStatus(expected, command) PROVE SameSerial
    BY <2>2 DEF SetServiceStatus
  <2>3. ASSUME RevertResolvConf \/ (UNCHANGED serverVars /\ SetResolvConf) PROVE SameSerial
    BY <2>3 DEF RevertResolvConf, SetResolvConf
  <2>4. CASE Starting
    BY <2>0, <2>1, <2>4 DEF Starting, StoreUpdate, NextSerial
  <2>5. CASE Configuring \/ Reverting
    BY <2>0, <2>2, <2>5 DEF Configuring, Reverting
  <2>6. CASE WaitingForStart
    <3>1. CASE cur_event = "UPDATE"
      BY <2>0, <2>1, <2>6, <3>1 DEF WaitingForStart, StoreUpdate, NextSerial
    <3>2. CASE cur_event = "RELOAD"
      BY <2>0, <2>1, <2>6, <3>2 DEF WaitingForStart, NextSerial
    <3>3. CASE cur_event \in {"JOB_SUCCESS", "JOB_FAILURE", "STOP"}
      BY <2>0, <2>2, <2>3, <2>6, <3>3 DEF WaitingForStart
    <3> QED
      BY <2>6, <3>1, <3>2, <3>3 DEF WaitingForStart
  <2>7. CASE SettingResolvConf
    <3>1. ASSUME UpdateDnsManager
          PROVE /\ UNCHANGED requested_configuration_serial
                /\ current_configuration_serial' = IF cur_event' = "SUCCESS"
                                                   THEN requested_configuration_serial
                                                   ELSE current_configuration_serial
      BY <3>1 DEF UpdateDnsManager
    <3>2. CASE current_state' = "UPDATING_DNS_MANAGER" /\ UpdateDnsManager
      BY <2>0, <2>7, <3>1, <3>2 DEF SettingResolvConf
    <3>3. CASE current_state' = "SUBMITTING_STOP_JOB" /\ SetServiceStatus("stopped", "stop")
      BY <2>0, <2>2, <2>7, <3>3 DEF SettingResolvConf
    <3> QED
      BY <2>7, <3>2, <3>3 DEF SettingResolvConf
  <2>8. CASE UpdatingDnsManager \/ Running
    BY <2>0, <2>1, <2>3, <2>8 DEF UpdatingDnsManager, Running, NextSerial
  <2>9. CASE SubmittingStart \/ SubmittingStop \/ WaitingStop
    BY <2>0, <2>9 DEF SubmittingStart, SubmittingStop, WaitingStop
  <2>10. CASE Stopping
    BY <2>0, <2>10 DEF Stopping
  <2>11. CASE Reject
    <3>1. current_state # "UPDATING_DNS_MANAGER"
      BY <2>11, RejectAtRest DEF Transient
    <3> QED
      BY <2>0, <2>11, <3>1 DEF Reject
  <2> QED
    BY <1>6, <2>4, <2>5, <2>6, <2>7, <2>8, <2>9, <2>10, <2>11 DEF DaemonStep, StateTransition
<1>7. CASE UNCHANGED vars
    BY <1>7 DEF vars, fsmVars
<1> QED
    BY <1>1, <1>2, <1>3, <1>4, <1>5, <1>6, <1>7 DEF Next, Request

\* The daemon, with everything it does to Unbound, resolv.conf and the
\* files of systemd, implements ConfigService: only the serial handed out
\* last is announced, and nothing is accepted or announced after the
\* beginning of a stop.
THEOREM Refinement == Spec => ImplementsConfigService
BY ServiceInitRefined, ServiceStepRefined, ControlCorrect, PTL
   DEF Spec, ImplementsConfigService, Service!Spec
=============================================================================
