-------------------------------- MODULE Fsm --------------------------------
(***************************************************************************)
(* The state machine of the daemon (fsm/fsm.c) with the functions it calls *)
(* (service_management.c, dns_managers/unbound_manager.c).                 *)
(*                                                                         *)
(* state_transition() loops over events: each case of its switch sets      *)
(* current_state and computes the next event, and the loop ends when that  *)
(* event is EVENT_NONE. One iteration is one action here. The daemon has a *)
(* single thread, so no handler runs while cur_event is not "NONE", but    *)
(* systemd and Unbound go on between the iterations.                       *)
(***************************************************************************)
EXTENDS UnboundService

CONSTANTS
    StaticServers,  \* servers of the configuration file
    SerialModulus,  \* 2^32 in the code
    MaxFaults       \* bound on failing calls of the daemon

ASSUME FsmAssumption ==
    /\ SerialModulus \in Nat /\ SerialModulus > 1
    /\ MaxFaults \in Nat

VARIABLES
    current_state,
    cur_event,
    origin,             \* handler that called state_transition
    main_loop,          \* "running", "quit" after g_main_loop_quit, "exited"
    exit_code,
    current_dynamic_servers,
    new_dynamic_servers,
    resolution_mode,
    current_domain_to_servers,
    current_unbound_domain_to_servers,
    requested_configuration_serial,
    current_configuration_serial,
    effective_ca,
    resolv_conf,
    resolv_conf_backup,
    expected_status,
    faults              \* calls that failed so far

loopVars == <<main_loop, exit_code>>
serverVars == <<current_dynamic_servers, new_dynamic_servers, current_domain_to_servers,
                requested_configuration_serial>>
appliedVars == <<current_unbound_domain_to_servers, current_configuration_serial>>
resolvVars == <<resolv_conf, resolv_conf_backup>>
fsmVars == <<current_state, cur_event, origin, loopVars, serverVars, resolution_mode, appliedVars,
             effective_ca, resolvVars, expected_status, faults>>

State == {"STARTING", "CONFIGURING_DNS_MANAGER", "SUBMITTING_START_JOB",
          "WAITING_FOR_START_JOB", "SETTING_RESOLV_CONF", "UPDATING_DNS_MANAGER",
          "RUNNING", "REVERTING_RESOLV_CONF", "SUBMITTING_STOP_JOB",
          "WAITING_STOP_JOB", "STOPPING"}

Event == {"NONE", "UPDATE", "KICKOFF", "SUCCESS", "FAILURE", "RELOAD",
          "JOB_SUCCESS", "JOB_FAILURE", "STOP"}

\* Variant: no case for a second SIGTERM or a late update while stopping
HandledUntilStop ==
    [STARTING |-> {"UPDATE", "KICKOFF", "RELOAD", "STOP"},
     CONFIGURING_DNS_MANAGER |-> {"SUCCESS", "FAILURE"},
     SUBMITTING_START_JOB |-> {"SUCCESS", "FAILURE"},
     WAITING_FOR_START_JOB |-> {"JOB_SUCCESS", "JOB_FAILURE", "UPDATE", "RELOAD", "STOP"},
     SETTING_RESOLV_CONF |-> {"SUCCESS", "FAILURE"},
     UPDATING_DNS_MANAGER |-> {"SUCCESS", "FAILURE", "RELOAD"},
     RUNNING |-> {"UPDATE", "RELOAD", "STOP"},
     REVERTING_RESOLV_CONF |-> {"SUCCESS", "FAILURE"},
     SUBMITTING_STOP_JOB |-> {"SUCCESS", "FAILURE"},
     WAITING_STOP_JOB |-> {"JOB_SUCCESS", "JOB_FAILURE"},
     STOPPING |-> {"STOP"}]

\* The case labels of state_transition. Every other event returns -1.
Handled ==
    [STARTING |-> {"UPDATE", "KICKOFF", "RELOAD", "STOP"},
     CONFIGURING_DNS_MANAGER |-> {"SUCCESS", "FAILURE"},
     SUBMITTING_START_JOB |-> {"SUCCESS", "FAILURE"},
     WAITING_FOR_START_JOB |-> {"JOB_SUCCESS", "JOB_FAILURE", "UPDATE", "RELOAD", "STOP"},
     SETTING_RESOLV_CONF |-> {"SUCCESS", "FAILURE"},
     UPDATING_DNS_MANAGER |-> {"SUCCESS", "FAILURE", "RELOAD"},
     RUNNING |-> {"UPDATE", "RELOAD", "STOP"},
     REVERTING_RESOLV_CONF |-> {"SUCCESS", "FAILURE"},
     SUBMITTING_STOP_JOB |-> {"SUCCESS", "FAILURE"},
     WAITING_STOP_JOB |-> {"JOB_SUCCESS", "JOB_FAILURE", "UPDATE", "RELOAD", "STOP"},
     STOPPING |-> {"STOP"}]

\* The file at resolv_conf_path: what was there before dnsconfd, what
\* dnsconfd generates, or a file cut short by an error.
Original == [kind |-> "original", search |-> {}]
Generated(search) == [kind |-> "generated", search |-> search]
Torn == [kind |-> "torn", search |-> {}]
NoBackup == [kind |-> "none", search |-> {}]

EmptyTable == [d \in {} |-> <<>>]
NoCa == "none"

-----------------------------------------------------------------------------
(* Functions that state_transition calls                                   *)

Fault == faults < MaxFaults /\ faults' = faults + 1

\* Variant: 0 is not skipped
NextSerialZero(serial) ==
    IF serial = SerialModulus - 1 THEN 0 ELSE serial + 1

\* The serial wraps around and skips 0, which stands for a refused update.
NextSerial(serial) ==
    IF serial = SerialModulus - 1 THEN 1 ELSE serial + 1

\* set_dynamic_servers, when servers is the list of the update, followed by
\* update_context
UpdateContext(servers) ==
    /\ current_dynamic_servers' = servers
    /\ current_domain_to_servers' = ServerListToHashTable(StaticServers \o servers)
    /\ requested_configuration_serial' = NextSerial(requested_configuration_serial)

SetDynamicServers ==
    /\ UpdateContext(new_dynamic_servers)
    /\ new_dynamic_servers' = <<>>

\* write_configuration: on an error the file is left as it was, or torn.
WriteConfiguration ==
    \/ \E ca \in EffectiveCa(current_domain_to_servers', resolution_mode) :
        /\ effective_ca' = ca
        /\ unbound_conf' = GenerateForwardZones(current_domain_to_servers', resolution_mode)
        /\ cur_event' = "SUCCESS"
        /\ UNCHANGED faults
    \/ /\ Fault
       /\ cur_event' = "FAILURE"
       /\ effective_ca' \in {effective_ca} \cup EffectiveCa(current_domain_to_servers', resolution_mode)
       /\ unbound_conf' \in {unbound_conf, TornConf}

\* service_management_subscribe_job_removed
Subscribe ==
    monitors' = Capped(monitors + 1)

\* Variant: without the subscription
KickoffUnsubscribed ==
    /\ UpdateContext(current_dynamic_servers)
    /\ WriteConfiguration
    /\ UNCHANGED <<new_dynamic_servers, resolution_mode, appliedVars, resolvVars, expected_status,
                   status_file, control_file, monitors, notes, systemdVars, processVars, failures, admin>>

\* fsm_starting_event_kickoff. The monitor of an earlier call stays connected.
Kickoff ==
    /\ UpdateContext(current_dynamic_servers)
    /\ \/ Fault /\ cur_event' = "FAILURE" /\ UNCHANGED <<monitors, effective_ca, unbound_conf>>
       \/ Subscribe /\ WriteConfiguration
    /\ UNCHANGED <<new_dynamic_servers, resolution_mode, appliedVars, resolvVars, expected_status,
                   status_file, control_file, notes, systemdVars, processVars, failures, admin>>

\* set_service_status: either of the two writes may fail, before or after
\* fopen() has emptied the file.
SetServiceStatus(expected, command) ==
    /\ expected_status' = expected
    /\ \/ /\ WriteStatusFile("pending") /\ WriteControlFile(command)
          /\ cur_event' = "SUCCESS" /\ UNCHANGED faults
       \/ /\ Fault /\ cur_event' = "FAILURE"
          /\ \/ /\ \/ UNCHANGED <<status_file, notes>>
                   \/ \E content \in {"empty", "pending"} : WriteStatusFile(content)
                /\ UNCHANGED <<control_file, trigger>>
             \/ /\ WriteStatusFile("pending")
                /\ \E content \in {"empty", command} : WriteControlFile(content)
    /\ UNCHANGED <<serverVars, resolution_mode, appliedVars, effective_ca, resolvVars,
                   unbound_conf, monitors, script, job, processVars, failures, admin>>

\* Variant: the search domains of the table before the update
SetResolvConfStale ==
    /\ resolv_conf_backup' = IF resolv_conf_backup = NoBackup THEN resolv_conf
                                                              ELSE resolv_conf_backup
    /\ resolv_conf' = Generated(SearchDomains(current_domain_to_servers, resolution_mode))
    /\ cur_event' = "SUCCESS"
    /\ UNCHANGED <<faults, resolution_mode, appliedVars, effective_ca, expected_status, serviceVars>>

\* Variant: a file that can not be read is not backed up
SetResolvConfUnsaved ==
    /\ resolv_conf_backup' \in {resolv_conf_backup, IF resolv_conf_backup = NoBackup
                                                    THEN resolv_conf ELSE resolv_conf_backup}
    /\ resolv_conf' = Generated(SearchDomains(current_domain_to_servers', resolution_mode))
    /\ cur_event' = "SUCCESS"
    /\ UNCHANGED <<faults, resolution_mode, appliedVars, effective_ca, expected_status, serviceVars>>

\* write_resolv_conf: the backup is taken once, before the first write.
SetResolvConf ==
    /\ \/ /\ resolv_conf_backup' = IF resolv_conf_backup = NoBackup THEN resolv_conf
                                                                    ELSE resolv_conf_backup
          /\ \/ /\ resolv_conf' = Generated(SearchDomains(current_domain_to_servers', resolution_mode))
                /\ cur_event' = "SUCCESS" /\ UNCHANGED faults
             \/ /\ Fault /\ cur_event' = "FAILURE"
                /\ resolv_conf' \in {resolv_conf, Torn}
       \/ /\ resolv_conf_backup = NoBackup
          /\ Fault /\ cur_event' = "FAILURE" /\ UNCHANGED resolvVars
    /\ UNCHANGED <<resolution_mode, appliedVars, effective_ca, expected_status, serviceVars>>

\* revert_resolv_conf
RevertResolvConf ==
    /\ \/ resolv_conf' = resolv_conf_backup /\ cur_event' = "SUCCESS" /\ UNCHANGED faults
       \/ Fault /\ cur_event' = "FAILURE" /\ resolv_conf' \in {resolv_conf, Torn}
    /\ UNCHANGED <<serverVars, resolution_mode, appliedVars, effective_ca, resolv_conf_backup,
                   expected_status, serviceVars>>

\* update_dns_manager and update(). The commands fail when Unbound is not
\* there to take them, and then some of them have been performed already:
\* domains are added first.
UpdateDnsManager ==
    LET old == current_unbound_domain_to_servers
        new == UsedTable(current_domain_to_servers, resolution_mode)
        add == DomainsToAdd(new, old)
        remove == DomainsToRemove(new, old)
        changed == add \cup remove
    IN  /\ \/ \E ca \in EffectiveCa(new, resolution_mode) :
              \/ /\ ca # effective_ca
                 /\ cur_event' = "RELOAD"
                 /\ UNCHANGED <<appliedVars, forwards, faults>>
              \/ /\ ca = effective_ca
                 /\ unbound # "down" \/ changed = {}
                 /\ forwards' = ApplyCommands(forwards, new, old, changed)
                 /\ current_unbound_domain_to_servers' = new
                 /\ current_configuration_serial' = requested_configuration_serial
                 /\ cur_event' = "SUCCESS" /\ UNCHANGED faults
              \/ /\ ca = effective_ca
                 /\ unbound = "down" /\ changed # {}
                 /\ cur_event' = "FAILURE"
                 /\ UNCHANGED <<appliedVars, forwards, faults>>
           \/ /\ Fault /\ cur_event' = "FAILURE"
              /\ \E done \in SUBSET changed :
                    /\ done # {} => effective_ca \in EffectiveCa(new, resolution_mode)
                    /\ done \cap remove # {} => add \subseteq done
                    /\ forwards' = IF unbound = "down" THEN forwards
                                   ELSE ApplyCommands(forwards, new, old, done)
              /\ UNCHANGED appliedVars
        /\ UNCHANGED <<serverVars, resolution_mode, effective_ca, resolvVars, expected_status,
                       fileVars, monitors, notes, systemdVars, unbound, failures, admin>>

\* set_exit_code: the first code wins.
SetExitCode(code) ==
    exit_code' = IF exit_code = "OK" THEN code ELSE exit_code

-----------------------------------------------------------------------------
(* The cases of state_transition                                           *)

At(state, events) ==
    current_state = state /\ cur_event \in events

Goto(state) ==
    current_state' = state

\* The case changes the state and the event and calls nothing else.
JustGoto(state, event) ==
    /\ current_state' = state /\ cur_event' = event
    /\ UNCHANGED <<serverVars, resolution_mode, appliedVars, effective_ca, resolvVars,
                   expected_status, faults, serviceVars>>

\* Variant: the serial is announced before the configuration is applied
StoreUpdateAnnounced ==
    /\ SetDynamicServers
    /\ cur_event' = "NONE"
    /\ current_configuration_serial' = requested_configuration_serial'
    /\ UNCHANGED <<current_state, resolution_mode, current_unbound_domain_to_servers, effective_ca,
                   resolvVars, expected_status, faults, serviceVars>>

\* EVENT_UPDATE while there is nothing to apply it to yet
StoreUpdate ==
    /\ SetDynamicServers
    /\ cur_event' = "NONE"
    /\ UNCHANGED <<current_state, resolution_mode, appliedVars, effective_ca, resolvVars,
                   expected_status, faults, serviceVars>>

Starting ==
    /\ UNCHANGED loopVars
    /\ \/ At("STARTING", {"UPDATE"}) /\ StoreUpdate
       \/ At("STARTING", {"KICKOFF"}) /\ Goto("CONFIGURING_DNS_MANAGER") /\ Kickoff
       \/ At("STARTING", {"RELOAD"}) /\ JustGoto("STARTING", "NONE")
       \/ At("STARTING", {"STOP"}) /\ JustGoto("STOPPING", "STOP")

Configuring ==
    /\ UNCHANGED loopVars
    /\ \/ /\ At("CONFIGURING_DNS_MANAGER", {"SUCCESS"})
          /\ Goto("SUBMITTING_START_JOB") /\ SetServiceStatus("ready", "restart")
       \/ At("CONFIGURING_DNS_MANAGER", {"FAILURE"}) /\ JustGoto("STOPPING", "STOP")

SubmittingStart ==
    /\ UNCHANGED loopVars
    /\ \/ At("SUBMITTING_START_JOB", {"SUCCESS"}) /\ JustGoto("WAITING_FOR_START_JOB", "NONE")
       \/ At("SUBMITTING_START_JOB", {"FAILURE"}) /\ JustGoto("STOPPING", "STOP")

WaitingForStart ==
    \/ /\ UNCHANGED loopVars
       /\ \/ /\ At("WAITING_FOR_START_JOB", {"JOB_SUCCESS"})
             /\ UNCHANGED serverVars /\ Goto("SETTING_RESOLV_CONF") /\ SetResolvConf
          \/ At("WAITING_FOR_START_JOB", {"UPDATE"}) /\ StoreUpdate
          \/ At("WAITING_FOR_START_JOB", {"RELOAD"}) /\ Goto("CONFIGURING_DNS_MANAGER") /\ Kickoff
          \/ /\ At("WAITING_FOR_START_JOB", {"STOP"})
             /\ Goto("SUBMITTING_STOP_JOB") /\ SetServiceStatus("stopped", "stop")
    \/ /\ At("WAITING_FOR_START_JOB", {"JOB_FAILURE"})
       /\ SetExitCode("SERVICE_FAILURE") /\ UNCHANGED main_loop
       /\ JustGoto("STOPPING", "STOP")

SettingResolvConf ==
    \/ /\ At("SETTING_RESOLV_CONF", {"SUCCESS"})
       /\ UNCHANGED loopVars
       /\ Goto("UPDATING_DNS_MANAGER") /\ UpdateDnsManager
    \/ /\ At("SETTING_RESOLV_CONF", {"FAILURE"})
       /\ SetExitCode("RESOLV_CONF_FAILURE") /\ UNCHANGED main_loop
       /\ Goto("SUBMITTING_STOP_JOB") /\ SetServiceStatus("stopped", "stop")

UpdatingDnsManager ==
    \/ /\ UNCHANGED loopVars
       /\ \/ At("UPDATING_DNS_MANAGER", {"SUCCESS"}) /\ JustGoto("RUNNING", "NONE")
          \/ At("UPDATING_DNS_MANAGER", {"RELOAD"}) /\ Goto("CONFIGURING_DNS_MANAGER") /\ Kickoff
    \/ /\ At("UPDATING_DNS_MANAGER", {"FAILURE"})
       /\ SetExitCode("UPDATE_FAILURE") /\ UNCHANGED main_loop
       /\ Goto("REVERTING_RESOLV_CONF") /\ RevertResolvConf

\* Variant: the stop job is submitted without reverting resolv.conf
RunningUnreverted ==
    /\ UNCHANGED loopVars
    /\ \/ /\ At("RUNNING", {"UPDATE"})
          /\ SetDynamicServers /\ Goto("SETTING_RESOLV_CONF") /\ SetResolvConf
       \/ At("RUNNING", {"RELOAD"}) /\ Goto("CONFIGURING_DNS_MANAGER") /\ Kickoff
       \/ At("RUNNING", {"STOP"}) /\ Goto("SUBMITTING_STOP_JOB") /\ SetServiceStatus("stopped", "stop")

Running ==
    /\ UNCHANGED loopVars
    /\ \/ /\ At("RUNNING", {"UPDATE"})
          /\ SetDynamicServers /\ Goto("SETTING_RESOLV_CONF") /\ SetResolvConf
       \/ At("RUNNING", {"RELOAD"}) /\ Goto("CONFIGURING_DNS_MANAGER") /\ Kickoff
       \/ At("RUNNING", {"STOP"}) /\ Goto("REVERTING_RESOLV_CONF") /\ RevertResolvConf

Reverting ==
    /\ UNCHANGED loopVars
    /\ At("REVERTING_RESOLV_CONF", {"SUCCESS", "FAILURE"})
    /\ Goto("SUBMITTING_STOP_JOB") /\ SetServiceStatus("stopped", "stop")

SubmittingStop ==
    /\ UNCHANGED loopVars
    /\ \/ At("SUBMITTING_STOP_JOB", {"SUCCESS"}) /\ JustGoto("WAITING_STOP_JOB", "NONE")
       \/ At("SUBMITTING_STOP_JOB", {"FAILURE"}) /\ JustGoto("STOPPING", "STOP")

\* Variant: a reload is still honoured
WaitingStopReloads ==
    /\ UNCHANGED loopVars
    /\ \/ At("WAITING_STOP_JOB", {"JOB_SUCCESS", "JOB_FAILURE"}) /\ JustGoto("STOPPING", "STOP")
       \/ At("WAITING_STOP_JOB", {"UPDATE", "STOP"}) /\ JustGoto("WAITING_STOP_JOB", "NONE")
       \/ At("WAITING_STOP_JOB", {"RELOAD"}) /\ Goto("CONFIGURING_DNS_MANAGER") /\ Kickoff

\* Variant: only a failure of the stop job ends the wait
WaitingStopDeaf ==
    /\ UNCHANGED loopVars
    /\ \/ At("WAITING_STOP_JOB", {"JOB_FAILURE"}) /\ JustGoto("STOPPING", "STOP")
       \/ /\ At("WAITING_STOP_JOB", {"JOB_SUCCESS", "UPDATE", "RELOAD", "STOP"})
          /\ JustGoto("WAITING_STOP_JOB", "NONE")

WaitingStop ==
    /\ UNCHANGED loopVars
    /\ \/ At("WAITING_STOP_JOB", {"JOB_SUCCESS", "JOB_FAILURE"}) /\ JustGoto("STOPPING", "STOP")
       \/ At("WAITING_STOP_JOB", {"UPDATE", "RELOAD", "STOP"}) /\ JustGoto("WAITING_STOP_JOB", "NONE")

Stopping ==
    /\ At("STOPPING", {"STOP"})
    /\ main_loop' = "quit" /\ UNCHANGED exit_code
    /\ JustGoto("STOPPING", "NONE")

\* state_transition returns -1. The handlers of D-Bus and of SIGTERM quit
\* with EXIT_FSM_FAILURE, on_systemd_job_finished ignores the result.
Reject ==
    /\ cur_event # "NONE" /\ cur_event \notin Handled[current_state]
    /\ IF origin = "on_systemd_job_finished"
       THEN UNCHANGED loopVars
       ELSE exit_code' = "FSM_FAILURE" /\ main_loop' = "quit"
    /\ JustGoto(current_state, "NONE")

\* The handler returns when the loop of state_transition ends.
StateTransition ==
    /\ \/ Starting \/ Configuring \/ SubmittingStart \/ WaitingForStart \/ SettingResolvConf
       \/ UpdatingDnsManager \/ Running \/ Reverting \/ SubmittingStop \/ WaitingStop
       \/ Stopping \/ Reject
    /\ origin' = IF cur_event' = "NONE" THEN "none" ELSE origin
=============================================================================
