--------------------------- MODULE UnboundService ---------------------------
(***************************************************************************)
(* What dnsconfd talks to, outside of its own process. The daemon writes   *)
(* unbound.conf, the control file and the status file under /run/dnsconfd. *)
(* A systemd path unit runs dnsconfd-unbound-control.sh when the control   *)
(* file changes, the script asks systemd to restart or stop Unbound, and   *)
(* the drop-in of unbound.service reports the result in the status file,   *)
(* which the daemon watches with a GFileMonitor.                           *)
(***************************************************************************)
EXTENDS UnboundManager

CONSTANTS
    BusyTrigger,        \* subset of BOOLEAN: what becomes of a change of the control
                        \* file seen while the script runs (TRUE: run again, FALSE: lost)
    MaxNotes,           \* bound on queued notifications and on counted monitors
    MaxTroubles         \* bound on crashes and failed starts of Unbound and on
                        \* systemctl commands of the administrator, taken together

ASSUME ServiceAssumption ==
    /\ BusyTrigger \in SUBSET BOOLEAN /\ BusyTrigger # {}
    /\ MaxNotes \in Nat \ {0}
    /\ MaxTroubles \in Nat

VARIABLES
    status_file,    \* /run/dnsconfd/unbound_status
    control_file,   \* /run/dnsconfd/unbound_control
    unbound_conf,   \* /run/dnsconfd/unbound.conf: the forwards it configures
    monitors,       \* file monitors of the daemon on the status file
    notes,          \* notifications the monitors have not delivered yet
    trigger,        \* the path unit has queued the start of the script
    script,         \* the script is running
    job,            \* job systemd performs on unbound.service
    unbound,        \* the Unbound process
    forwards,       \* what the Unbound process forwards
    failures,       \* crashes and failed starts so far
    admin           \* commands of the administrator so far

fileVars == <<status_file, control_file, unbound_conf>>
systemdVars == <<trigger, script, job>>
processVars == <<unbound, forwards>>
serviceVars == <<fileVars, monitors, notes, systemdVars, processVars, failures, admin>>

NoForwards == [d \in Domain |-> NoForward]

\* A configuration file that was cut short by an error of the writer
TornConf == [d \in {} |-> NoForward]

Capped(n) == IF n > MaxNotes THEN MaxNotes ELSE n

-----------------------------------------------------------------------------
\* Every monitor that watches the file queues a notification.
WriteStatusFile(content) ==
    /\ status_file' = content
    /\ notes' = Capped(notes + monitors)

\* The path unit starts the script. A start that is requested while the
\* script runs is merged with the one in progress.
WriteControlFile(command) ==
    /\ control_file' = command
    /\ IF script THEN \E again \in BusyTrigger : trigger' = (trigger \/ again)
                 ELSE trigger' = TRUE

-----------------------------------------------------------------------------
\* dnsconfd-unbound-control.sh. Stopping a unit that is not active does
\* nothing, and then no ExecStopPost runs. An empty file is no command.
RunScript ==
    /\ trigger /\ ~script /\ job = "none"
    /\ trigger' = FALSE
    /\ job' = IF control_file = "restart"
              THEN IF unbound = "down" THEN "start" ELSE "restart"
              ELSE IF control_file = "stop" /\ unbound # "down" THEN "stop" ELSE "none"
    /\ script' = (job' # "none")
    /\ UNCHANGED <<fileVars, monitors, notes, processVars, failures, admin>>

\* The administrator (or the test suite) uses systemctl on unbound.service.
AdminCommand ==
    /\ job = "none" /\ failures + admin < MaxTroubles
    /\ admin' = admin + 1
    /\ \/ job' = IF unbound = "down" THEN "start" ELSE "restart"
       \/ unbound # "down" /\ job' = "stop"
    /\ UNCHANGED <<fileVars, monitors, notes, trigger, script, processVars, failures>>

\* Unbound stops and ExecStopPost writes the status.
StopUnbound ==
    /\ job \in {"stop", "restart"}
    /\ unbound' = "down" /\ forwards' = NoForwards
    /\ WriteStatusFile("stopped")
    /\ job' = IF job = "restart" THEN "start" ELSE "none"
    /\ script' = (script /\ job = "restart")
    /\ UNCHANGED <<control_file, unbound_conf, monitors, trigger, failures, admin>>

\* Unbound reads its configuration and forks. A file that is cut short may
\* still parse.
StartUnbound ==
    /\ job = "start" /\ unbound = "down"
    /\ unbound' = "started"
    /\ forwards' = IF unbound_conf = TornConf THEN NoForwards ELSE unbound_conf
    /\ UNCHANGED <<fileVars, monitors, notes, systemdVars, failures, admin>>

\* Unbound can not start and ExecStopPost reports it.
FailStart ==
    /\ job = "start" /\ unbound = "down"
    /\ \/ unbound_conf = TornConf /\ UNCHANGED failures
       \/ failures + admin < MaxTroubles /\ failures' = failures + 1
    /\ WriteStatusFile("fail")
    /\ job' = "none" /\ script' = FALSE
    /\ UNCHANGED <<control_file, unbound_conf, monitors, trigger, processVars, admin>>

\* ExecStartPost of the drop-in
ReportReady ==
    /\ job = "start" /\ unbound = "started"
    /\ unbound' = "up"
    /\ WriteStatusFile("ready")
    /\ job' = "none" /\ script' = FALSE
    /\ UNCHANGED <<control_file, unbound_conf, monitors, trigger, forwards, failures, admin>>

\* Unbound dies and ExecStopPost reports it.
CrashUnbound ==
    /\ unbound = "up" /\ job = "none"
    /\ failures + admin < MaxTroubles /\ failures' = failures + 1
    /\ unbound' = "down" /\ forwards' = NoForwards
    /\ WriteStatusFile("fail")
    /\ UNCHANGED <<control_file, unbound_conf, monitors, systemdVars, admin>>

-----------------------------------------------------------------------------
\* systemd-tmpfiles creates empty files. Unbound may already run.
ServiceInit ==
    /\ status_file = "empty" /\ control_file = "empty" /\ unbound_conf = NoForwards
    /\ monitors = 0 /\ notes = 0
    /\ trigger = FALSE /\ script = FALSE /\ job = "none"
    /\ unbound \in {"down", "up"} /\ forwards = NoForwards
    /\ failures = 0 /\ admin = 0

\* What systemd does of its own accord, and what befalls it
SystemdNext == RunScript \/ StopUnbound \/ StartUnbound \/ FailStart \/ ReportReady
ServiceNext == SystemdNext \/ AdminCommand \/ CrashUnbound

ServiceTypeOK ==
    /\ status_file \in {"empty", "pending", "ready", "fail", "stopped"}
    /\ control_file \in {"empty", "restart", "stop"}
    /\ monitors \in 0..MaxNotes /\ notes \in 0..MaxNotes
    /\ job \in {"none", "restart", "start", "stop"}
    /\ unbound \in {"down", "started", "up"}
    /\ failures \in Nat /\ admin \in Nat /\ failures + admin <= MaxTroubles
=============================================================================
