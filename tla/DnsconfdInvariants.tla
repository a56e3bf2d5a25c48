------------------------- MODULE DnsconfdInvariants -------------------------
(***************************************************************************)
(* The inductive invariant of Dnsconfd, in four parts. Each part is        *)
(* inductive given the parts before it; DnsconfdProofs has the proofs.     *)
(***************************************************************************)
EXTENDS Dnsconfd

\* States in which a handler never leaves the daemon: state_transition goes
\* on with the event that the work of the state resulted in.
Transient == {"CONFIGURING_DNS_MANAGER", "SUBMITTING_START_JOB", "SETTING_RESOLV_CONF",
              "UPDATING_DNS_MANAGER", "REVERTING_RESOLV_CONF", "SUBMITTING_STOP_JOB"}

\* Which events can be pending in which states
ControlInv ==
    /\ current_state \in Transient =>
        \/ cur_event \in {"SUCCESS", "FAILURE"}
        \/ current_state = "UPDATING_DNS_MANAGER" /\ cur_event = "RELOAD"
    /\ cur_event \in {"SUCCESS", "FAILURE"} => current_state \in Transient
    /\ cur_event \in {"JOB_SUCCESS", "JOB_FAILURE"} => origin = "on_systemd_job_finished"
    /\ main_loop = "running" /\ current_state = "STOPPING" => cur_event = "STOP"
    /\ cur_event = "KICKOFF" => bus_name # "none"
    /\ main_loop = "running" /\ cur_event = "KICKOFF" => current_state = "STARTING"
    /\ main_loop = "running" /\ bus_name = "none" => current_state \in {"STARTING", "STOPPING"}
    /\ main_loop = "exited" => cur_event = "NONE"

\* resolv.conf always exists, and is backed up before it is overwritten.
BackupInv ==
    /\ resolv_conf # NoBackup
    /\ \/ current_state \in {"UPDATING_DNS_MANAGER", "RUNNING", "REVERTING_RESOLV_CONF"}
       \/ current_state = "SETTING_RESOLV_CONF" /\ cur_event = "SUCCESS"
       => resolv_conf_backup # NoBackup

ResolvConfApplied ==
    resolv_conf = Generated(SearchDomains(current_domain_to_servers, resolution_mode))

UnboundApplied ==
    LET used == UsedTable(current_domain_to_servers, resolution_mode)
    IN  /\ current_configuration_serial = requested_configuration_serial
        /\ current_unbound_domain_to_servers = used
        /\ effective_ca \in EffectiveCa(used, resolution_mode)

\* Which outputs are up to date. An update that is pending in FSM_RUNNING
\* has replaced the mode already.
AppliedInv ==
    /\ \/ current_state = "UPDATING_DNS_MANAGER"
       \/ current_state = "SETTING_RESOLV_CONF" /\ cur_event = "SUCCESS"
       \/ current_state = "RUNNING" /\ cur_event # "UPDATE"
       => ResolvConfApplied
    /\ \/ current_state = "UPDATING_DNS_MANAGER" /\ cur_event = "SUCCESS"
       \/ current_state = "RUNNING" /\ cur_event # "UPDATE"
       => UnboundApplied

\* A restart has been ordered and its outcome has not been taken in yet.
Awaiting ==
    /\ main_loop # "exited"
    /\ \/ current_state = "SUBMITTING_START_JOB" /\ cur_event = "SUCCESS"
       \/ current_state = "WAITING_FOR_START_JOB" /\ cur_event \in {"NONE", "UPDATE", "KICKOFF"}

\* What wakes the daemon up again
WakeInv ==
    /\ script => job # "none"
    /\ current_state = "CONFIGURING_DNS_MANAGER" /\ cur_event = "SUCCESS" => monitors > 0
    /\ Awaiting =>
        /\ expected_status = "ready"
        /\ monitors > 0
        /\ \/ job # "none"
           \/ trigger /\ control_file = "restart"
           \/ notes > 0 /\ status_file \in {"ready", "fail", "stopped"}

\* The inductive invariant: the daemon never runs out of step with the files
\* it writes or the events it waits for.
IInv == TypeOK /\ ControlInv /\ BackupInv /\ AppliedInv /\ WakeInv
=============================================================================
