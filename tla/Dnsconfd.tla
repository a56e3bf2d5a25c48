------------------------------ MODULE Dnsconfd ------------------------------
(***************************************************************************)
(* The daemon with its surroundings: the handlers of the GLib main loop    *)
(* (dbus_server.c), each of which calls state_transition, composed with    *)
(* systemd and Unbound.                                                    *)
(***************************************************************************)
EXTENDS Fsm

CONSTANT Updates    \* arguments of the Update calls: records of servers and mode

ASSUME UpdatesAssumption == \A u \in Updates : u.mode \in Mode

VARIABLES
    bus_name,       \* "none", "owned" or "lost"
    sigterm         \* the SIGTERM source has fired and is removed

handlerVars == <<bus_name, sigterm>>
vars == <<fsmVars, serviceVars, handlerVars>>

-----------------------------------------------------------------------------
\* The main loop dispatches a source when no other handler runs. Sources
\* that were ready in the iteration that called g_main_loop_quit are still
\* dispatched.
Dispatch(handler, event) ==
    /\ cur_event = "NONE" /\ main_loop # "exited"
    /\ cur_event' = event
    /\ origin' = IF event = "NONE" THEN "none" ELSE handler
    /\ UNCHANGED <<current_state, exit_code, main_loop, current_dynamic_servers,
                   current_domain_to_servers, requested_configuration_serial, appliedVars,
                   effective_ca, resolvVars, expected_status, faults,
                   fileVars, monitors, systemdVars, processVars, failures, admin>>

\* A call whose arguments do not parse is answered and changes nothing.
HandleUpdateCall(update) ==
    /\ Dispatch("handle_update_call", "UPDATE")
    /\ new_dynamic_servers' = update.servers
    /\ resolution_mode' = update.mode
    /\ UNCHANGED <<notes, handlerVars>>

HandleReloadCall ==
    /\ Dispatch("handle_reload_call", "RELOAD")
    /\ UNCHANGED <<new_dynamic_servers, resolution_mode, notes, handlerVars>>

OnNameAcquired ==
    /\ bus_name = "none" /\ bus_name' = "owned"
    /\ Dispatch("on_name_acquired", "KICKOFF")
    /\ UNCHANGED <<new_dynamic_servers, resolution_mode, notes, sigterm>>

OnSigterm ==
    /\ ~sigterm /\ sigterm' = TRUE
    /\ Dispatch("on_sigterm", "STOP")
    /\ UNCHANGED <<new_dynamic_servers, resolution_mode, notes, bus_name>>

\* Variant: a failed start is not reported to the state machine
OnFileChangedNoFailure ==
    LET event == IF status_file = expected_status THEN "JOB_SUCCESS"
                 ELSE IF status_file = "stopped" THEN "RELOAD"
                 ELSE "NONE"
    IN  /\ notes > 0 /\ notes' = notes - 1
        /\ Dispatch("on_systemd_job_finished", event)
        /\ UNCHANGED <<new_dynamic_servers, resolution_mode, handlerVars>>

\* Variant: a stop by somebody else is not noticed
OnFileChangedNoStop ==
    LET event == IF status_file = expected_status THEN "JOB_SUCCESS"
                 ELSE IF status_file = "fail" THEN "JOB_FAILURE"
                 ELSE "NONE"
    IN  /\ notes > 0 /\ notes' = notes - 1
        /\ Dispatch("on_systemd_job_finished", event)
        /\ UNCHANGED <<new_dynamic_servers, resolution_mode, handlerVars>>

\* on_file_changed reads what the file holds now, not what it held when the
\* notification was queued; on_systemd_job_finished turns it into an event.
OnFileChanged ==
    LET event == IF status_file = expected_status THEN "JOB_SUCCESS"
                 ELSE IF status_file = "fail" THEN "JOB_FAILURE"
                 ELSE IF status_file = "stopped" THEN "RELOAD"
                 ELSE "NONE"
    IN  /\ notes > 0 /\ notes' = notes - 1
        /\ Dispatch("on_systemd_job_finished", event)
        /\ UNCHANGED <<new_dynamic_servers, resolution_mode, handlerVars>>

\* The daemon leaves at once, without a transition.
OnNameLost ==
    /\ cur_event = "NONE" /\ main_loop # "exited"
    /\ bus_name # "lost" /\ bus_name' = "lost"
    /\ exit_code' = "DBUS_FAILURE" /\ main_loop' = "quit"
    /\ UNCHANGED <<current_state, cur_event, origin, serverVars, resolution_mode, appliedVars,
                   effective_ca, resolvVars, expected_status, faults, serviceVars, sigterm>>

\* g_main_loop_run returns, the context is freed and the process ends.
CleanContext ==
    /\ main_loop = "quit" /\ cur_event = "NONE"
    /\ main_loop' = "exited" /\ monitors' = 0 /\ notes' = 0
    /\ UNCHANGED <<current_state, cur_event, origin, exit_code, serverVars, resolution_mode,
                   appliedVars, effective_ca, resolvVars, expected_status, faults,
                   fileVars, systemdVars, processVars, failures, admin, handlerVars>>

-----------------------------------------------------------------------------
Init ==
    /\ current_state = "STARTING" /\ cur_event = "NONE"
    /\ origin = "none" /\ main_loop = "running" /\ exit_code = "OK"
    /\ current_dynamic_servers = <<>> /\ new_dynamic_servers = <<>>
    /\ resolution_mode = MODE_BACKUP
    /\ current_domain_to_servers = EmptyTable
    /\ current_unbound_domain_to_servers = EmptyTable
    /\ requested_configuration_serial = 1 /\ current_configuration_serial = 1
    /\ effective_ca = NoCa
    /\ resolv_conf = Original /\ resolv_conf_backup = NoBackup
    /\ expected_status = "none" /\ faults = 0
    /\ bus_name = "none" /\ sigterm = FALSE
    /\ ServiceInit

\* Clients and the administrator of the daemon
Request == HandleReloadCall \/ OnSigterm \/ \E u \in Updates : HandleUpdateCall(u)

DaemonStep == StateTransition /\ UNCHANGED handlerVars
ServiceStep == ServiceNext /\ UNCHANGED <<fsmVars, handlerVars>>

Next ==
    \/ Request \/ OnNameAcquired \/ OnNameLost \/ OnFileChanged
    \/ DaemonStep \/ CleanContext \/ ServiceStep

Spec == Init /\ [][Next]_vars

\* The thread of the daemon runs; the main loop serves every source that
\* stays ready, so a queued notification is delivered whatever the clients
\* do; systemd performs the jobs it has accepted.
Fairness ==
    /\ WF_vars(DaemonStep)
    /\ SF_vars(OnFileChanged)
    /\ SF_vars(CleanContext)
    /\ WF_vars(SystemdNext /\ UNCHANGED <<fsmVars, handlerVars>>)

FairSpec == Spec /\ Fairness

-----------------------------------------------------------------------------
Values ==
    /\ current_state \in State /\ cur_event \in Event
    /\ main_loop \in {"running", "quit", "exited"}
    /\ exit_code \in {"OK", "SERVICE_FAILURE", "DBUS_FAILURE", "RESOLV_CONF_FAILURE",
                      "UPDATE_FAILURE", "FSM_FAILURE"}
    /\ origin \in {"none", "handle_update_call", "handle_reload_call", "on_name_acquired",
                   "on_sigterm", "on_systemd_job_finished"}
    /\ resolution_mode \in Mode
    /\ requested_configuration_serial \in 1..(SerialModulus - 1)
    /\ current_configuration_serial \in 1..(SerialModulus - 1)
    /\ expected_status \in {"none", "ready", "stopped"}
    /\ faults \in 0..MaxFaults
    /\ bus_name \in {"none", "owned", "lost"}
    /\ ServiceTypeOK

Flags == trigger \in BOOLEAN /\ script \in BOOLEAN /\ sigterm \in BOOLEAN

\* Every variable keeps to the values the code can give it; the serial of
\* an accepted update is never 0, the answer to a refused one.
TypeOK == Values /\ Flags

AtRest == cur_event = "NONE"

\* Whenever the daemon rests in FSM_RUNNING, the announced serial is the one
\* last handed out, and the three outputs (the table Unbound was given, the
\* bundle, resolv.conf) were all computed from the servers and the mode that
\* serial stands for (update_context, set_resolv_conf, update_dns_manager).
RunningIsApplied ==
    current_state = "RUNNING" /\ AtRest =>
        LET used == UsedTable(current_domain_to_servers, resolution_mode)
        IN  /\ current_configuration_serial = requested_configuration_serial
            /\ current_unbound_domain_to_servers = used
            /\ effective_ca \in EffectiveCa(used, resolution_mode)
            /\ resolv_conf = Generated(SearchDomains(current_domain_to_servers, resolution_mode))

\* revert_resolv_conf dereferences the backup without a check: whenever a
\* state is reached from which it is called, the backup exists.
BackupBeforeRevert ==
    current_state \in {"UPDATING_DNS_MANAGER", "RUNNING", "REVERTING_RESOLV_CONF"} =>
        resolv_conf_backup # NoBackup

\* While the main loop runs, no call, signal or bus event meets a state that
\* has no case for it, so the "please report bug" exits are not taken.
NoUnexpectedEvent ==
    main_loop = "running" /\ cur_event # "NONE" /\ origin # "on_systemd_job_finished" =>
        cur_event \in Handled[current_state]

\* While the daemon rests in FSM_WAITING_FOR_START_JOB something is still to
\* come that will wake it: a queued notification, a job of systemd, or a
\* start of the script. No interleaving of reloads with the script loses the
\* wake-up.
StartNeverStuck ==
    current_state = "WAITING_FOR_START_JOB" /\ AtRest /\ main_loop = "running" =>
        notes > 0 \/ job # "none" \/ trigger

\* The same for FSM_WAITING_STOP_JOB.
StopNeverStuck ==
    current_state = "WAITING_STOP_JOB" /\ AtRest /\ main_loop = "running" =>
        notes > 0 \/ job # "none" \/ trigger

InStop == current_state \in {"REVERTING_RESOLV_CONF", "SUBMITTING_STOP_JOB",
                             "WAITING_STOP_JOB", "STOPPING"}

\* Once the daemon has begun to stop it never configures again: it does not
\* leave the stop states, does not order a restart of Unbound, announces no
\* serial and only restores (or spoils) resolv.conf.
StopIsFinal ==
    [][InStop => /\ InStop'
                 /\ control_file' \in {control_file, "stop", "empty"}
                 /\ current_configuration_serial' = current_configuration_serial
                 /\ resolv_conf' \in {resolv_conf, resolv_conf_backup, Torn}]_vars

\* An exit after a single start of Unbound, with no failing call and with
\* the bus name held, leaves resolv.conf as it was found.
FirstExitRestores ==
    main_loop = "quit" /\ monitors <= 1 /\ faults = 0 /\ bus_name # "lost" =>
        resolv_conf = Original

\* Every exit with status 0 leaves resolv.conf as it was found.
ExitRestores ==
    main_loop = "exited" /\ exit_code = "OK" /\ faults = 0 => resolv_conf = Original

\* Before any reload, crash or command of the administrator, every domain
\* the status call reports is forwarded by Unbound to the reported servers.
FirstStartServes ==
    current_state = "RUNNING" /\ AtRest /\ monitors = 1 /\ failures = 0 /\ admin = 0 =>
        \A d \in DOMAIN current_unbound_domain_to_servers :
            forwards[d] = GetForwardAddCommand(current_unbound_domain_to_servers[d])

Quiet == notes = 0 /\ job = "none" /\ ~trigger

\* When the daemon rests in FSM_RUNNING and nothing is in flight, every
\* domain the status call reports is forwarded by Unbound to the reported
\* servers with the reported options, after a restart of Unbound as well.
StatusIsServed ==
    current_state = "RUNNING" /\ AtRest /\ main_loop = "running" /\ Quiet /\ unbound = "up" =>
        \A d \in DOMAIN current_unbound_domain_to_servers :
            forwards[d] = GetForwardAddCommand(current_unbound_domain_to_servers[d])

\* When the daemon rests in FSM_RUNNING and nothing is in flight, Unbound
\* runs, however the administrator stopped or restarted it meanwhile: the
\* "stopped" status is turned into a reload. Unbound has not failed.
StopIsRecovered ==
    current_state = "RUNNING" /\ AtRest /\ main_loop = "running" /\ Quiet /\ failures = 0 =>
        unbound = "up"

\* The same when Unbound crashes: the daemon exits or brings it back.
CrashIsNoticed ==
    current_state = "RUNNING" /\ AtRest /\ main_loop = "running" /\ Quiet =>
        unbound = "up"

\* When update() asks for a reload because of the certificate bundle, the
\* configuration written by that reload names another bundle than the
\* present one, so that the reload is not asked for again.
ReloadChangesBundle ==
    current_state = "UPDATING_DNS_MANAGER" /\ cur_event = "RELOAD" =>
        EffectiveCa(current_domain_to_servers, resolution_mode) # {effective_ca}

\* A daemon that waits for Unbound to start does not wait for ever.
StartIsAnswered ==
    current_state = "WAITING_FOR_START_JOB" ~>
        current_state # "WAITING_FOR_START_JOB" \/ main_loop = "exited"

\* A SIGTERM that reaches the daemon in FSM_RUNNING, with Unbound up and
\* nothing in flight, ends the daemon, unless Unbound fails or the
\* administrator interferes after the signal.
QuietStopEnds ==
    \A n \in 0..MaxTroubles :
        (/\ current_state = "RUNNING" /\ cur_event = "STOP"
         /\ Quiet /\ unbound = "up" /\ failures + admin = n) ~>
            main_loop = "exited" \/ failures + admin > n

-----------------------------------------------------------------------------
\* The daemon as its clients see it. The serial is announced by
\* update_dns_manager, one iteration before FSM_RUNNING is reached.
Phase ==
    IF main_loop = "exited" THEN "gone"
    ELSE IF current_state = "STARTING" THEN "starting"
    ELSE IF current_state = "STOPPING" THEN "ending"
    ELSE IF InStop THEN "stopping"
    ELSE IF \/ current_state = "RUNNING"
            \/ current_state = "UPDATING_DNS_MANAGER" /\ cur_event = "SUCCESS"
         THEN "serving"
    ELSE "configuring"

Service == INSTANCE ConfigService WITH
    phase <- Phase,
    requested <- requested_configuration_serial,
    announced <- current_configuration_serial

\* The daemon implements ConfigService: each serial is announced while it is
\* the last one handed out, a reload or an update withdraws the announcement
\* until it is applied, and after the begin of a stop nothing is accepted or
\* announced.
ImplementsConfigService == Service!Spec
=============================================================================
