--------------------------- MODULE HostLifecycle ---------------------------
(***************************************************************************)
(* The life of dnsconfd on a host: dnsconfd.service with the scripts it    *)
(* runs before and after the daemon, the commands of dnsconfd config       *)
(* (cli_commands/cli_config.c), NetworkManager, and what the daemon does   *)
(* to resolv.conf in between. The daemon may be killed, the host may lose  *)
(* power, and the configuration may change, at any point.                  *)
(*                                                                         *)
(* A path holds a record with                                              *)
(*   kind     "file", "symlink" or "absent"                                *)
(*   owner    "root" or "dnsconfd"                                         *)
(*   content  what a reader finds there                                    *)
(***************************************************************************)
EXTENDS Integers

CONSTANTS
    Path,           \* paths that the configuration may name for resolv.conf
    Configuration,  \* records with the path that the scripts and the daemon read
    Found,          \* what may be at a path before dnsconfd is used
    MaxEvents       \* bound on power cuts, kills, edits, commands and failing calls

\* The path that the scripts look at, and no path at all
Etc == "/etc/resolv.conf"
Refused == "refused"

ASSUME LifecycleAssumption ==
    /\ Etc \in Path /\ Refused \notin Path
    /\ Configuration \subseteq [scripts : Path \cup {Refused}, daemon : Path \cup {Refused}]
    /\ \A f \in Found : /\ f.owner = "root" /\ f.content \notin {"generated", "none"}
                       /\ f.kind \in {"file", "symlink", "absent"}
    /\ MaxEvents \in Nat

VARIABLES
    conf,           \* what parse_configuration finds now
    file,
    unit,           \* where dnsconfd.service is
    managed,        \* resolv_conf_path of the daemon that runs
    backup,         \* resolv_conf_backup of that daemon
    local_root,     \* unbound-local-root.conf: "enabled", "disabled" or "absent"
    anchor_disable, \* /run/unbound/anchor-disable is there
    as112,          \* the link dnsconfd-as112.conf is there
    as112_file,     \* unbound has installed the file that the link names
    nm_conf,        \* conf.d/dnsconfd.conf of NetworkManager names dnsconfd
    nm_dns,         \* what NetworkManager does since its last reload
    events,
    touched,        \* history: somebody else changed something since the last script
    unclean         \* history: a daemon ended without putting resolv.conf back

unboundVars == <<local_root, anchor_disable, as112, as112_file>>
nmVars == <<nm_conf, nm_dns>>
daemonVars == <<managed, backup>>
vars == <<conf, file, unit, daemonVars, unboundVars, nmVars, events, touched, unclean>>

NoBackup == "none"

Event == events < MaxEvents /\ events' = events + 1

-----------------------------------------------------------------------------
(* dnsconfd config: the states a command may leave a path in               *)

Owned(f) == f.kind = "file" /\ f.owner = "dnsconfd"

\* A link goes, and a file is created where there is none.
Created(f) ==
    IF f.kind = "file" THEN f ELSE [kind |-> "file", owner |-> "root", content |-> "empty"]

\* do_take_resolvconf
Taken(f) == [kind |-> "file", owner |-> "dnsconfd", content |-> Created(f).content]

\* The states in which a failing call may leave it
HalfTaken(f) ==
    {f, Created(f)} \cup
    IF f.kind = "symlink" THEN {[kind |-> "absent", owner |-> "root", content |-> "empty"]} ELSE {}

\* do_return_resolvconf: chown follows a link, whose target is root's already.
Returned(f) == [kind |-> f.kind, owner |-> "root", content |-> f.content]

\* fopen(path, "w") of the daemon, on a file that is its own
Written(f, content) == [kind |-> f.kind, owner |-> f.owner, content |-> content]

\* A configuration that is refused ends the command before it begins.
TakeResolvConf(path) ==
    IF path = Refused THEN UNCHANGED <<file, events>>
    ELSE \/ file' = [file EXCEPT ![path] = Taken(@)] /\ UNCHANGED events
         \/ Event /\ \E f \in HalfTaken(file[path]) : file' = [file EXCEPT ![path] = f]

\* do_nm_enable and do_nm_disable: the file of NetworkManager is written, or
\* emptied if it is there, and NetworkManager is told to read it.
SwitchNetworkManager(on, succeeds) ==
    IF succeeds THEN nm_conf' = on /\ nm_dns' = IF on THEN "dnsconfd" ELSE "default"
    ELSE nm_conf' \in {nm_conf, on} /\ UNCHANGED nm_dns

Command ==
    {"nm_enable", "nm_disable", "take_resolvconf", "return_resolvconf", "install", "uninstall"}

\* cli_config_command: install and uninstall stop at the first failure.
ConfigCommand(action) ==
    /\ conf.scripts # Refused /\ Event
    /\ \E switched \in BOOLEAN :
        /\ IF action \in {"nm_enable", "install"} THEN SwitchNetworkManager(TRUE, switched)
           ELSE IF action \in {"nm_disable", "uninstall"} THEN SwitchNetworkManager(FALSE, switched)
           ELSE switched /\ UNCHANGED nmVars
        /\ LET f == file[conf.scripts]
               left == IF ~switched \/ action \in {"nm_enable", "nm_disable"} THEN {f}
                       ELSE IF action \in {"install", "take_resolvconf"}
                       THEN {Taken(f)} \cup HalfTaken(f)
                       ELSE {Returned(f), f}
           IN  \E g \in left : file' = [file EXCEPT ![conf.scripts] = g]
    /\ touched' = TRUE
    /\ UNCHANGED <<conf, unit, daemonVars, unboundVars, unclean>>

-----------------------------------------------------------------------------
(* dnsconfd.service                                                        *)

StartUnit ==
    /\ unit = "inactive" /\ unit' = "prepare"
    /\ touched' = FALSE
    /\ UNCHANGED <<conf, file, daemonVars, unboundVars, nmVars, events, unclean>>

\* Variant: whatever is at the path counts as ours once it is a file
TakeUnlessFile ==
    /\ IF file[Etc].kind = "symlink" THEN TakeResolvConf(conf.scripts)
       ELSE UNCHANGED <<file, events>>
    /\ UNCHANGED <<conf, daemonVars, unboundVars, nmVars, unclean>>

\* The first half of dnsconfd-prepare.sh: the owner of /etc/resolv.conf
\* decides, whatever path the configuration names. A failure does not end
\* the script.
TakeUnlessOwned ==
    /\ IF ~Owned(file[Etc]) THEN TakeResolvConf(conf.scripts) ELSE UNCHANGED <<file, events>>
    /\ UNCHANGED <<conf, daemonVars, unboundVars, nmVars, unclean>>

\* The second half. The shell goes on after a command that fails.
ArrangeUnbound ==
    LET moved == IF local_root = "enabled" THEN "disabled" ELSE local_root
    IN  /\ \/ /\ local_root' = moved /\ anchor_disable' = TRUE /\ as112' = TRUE
              /\ UNCHANGED events
           \/ /\ local_root' \in {local_root, moved}
              /\ anchor_disable' \in {anchor_disable, TRUE} /\ as112' \in {as112, TRUE}
              /\ Event
        /\ UNCHANGED <<conf, file, daemonVars, as112_file, nmVars, touched, unclean>>

\* The script has the exit status of the last command. [ -e ] is false for a
\* link to nothing, and then ln finds the link in its way.
ScriptSucceeds == as112' /\ (~as112 \/ as112_file)

PrepareOwnership ==
    /\ unit = "prepare" /\ unit' = "prepare_unbound"
    /\ TakeUnlessOwned
    /\ touched' = (touched \/ events' # events)

PrepareUnbound ==
    /\ unit = "prepare_unbound"
    /\ ArrangeUnbound
    /\ unit' = IF ScriptSucceeds THEN "start" ELSE "cleanup"

\* main: a configuration that is refused ends the daemon at once.
StartDaemon ==
    /\ unit = "start"
    /\ unit' = IF conf.daemon = Refused THEN "cleanup" ELSE "waiting"
    /\ managed' = conf.daemon /\ backup' = NoBackup
    /\ UNCHANGED <<conf, file, unboundVars, nmVars, events, touched, unclean>>

\* Variant: each update saves what it overwrites
SavedAgain == file[managed].content

\* What write_resolv_conf keeps: the content that the first write overwrites
Saved == IF backup = NoBackup THEN file[managed].content ELSE backup

\* write_resolv_conf, for the first configuration and for each one after it.
\* When the file is not the daemon's, or the write fails half way, the daemon
\* stops without putting anything back.
DaemonWrites ==
    /\ unit \in {"waiting", "serving"}
    /\ \/ /\ Owned(file[managed]) /\ unit' = "serving"
          /\ UNCHANGED <<events, unclean>>
       \/ /\ Owned(file[managed]) /\ unit' = "cleanup"
          /\ Event /\ unclean' = TRUE
       \/ /\ ~Owned(file[managed]) /\ unit' = "cleanup"
          /\ unclean' = (unclean \/ unit = "serving")
          /\ UNCHANGED events
    /\ backup' = Saved
    /\ file' = IF Owned(file[managed])
               THEN [file EXCEPT ![managed] = Written(@, "generated")] ELSE file
    /\ UNCHANGED <<conf, managed, unboundVars, nmVars, touched>>

\* A SIGTERM: revert_resolv_conf once resolv.conf was written
DaemonStops ==
    /\ unit \in {"waiting", "serving"} /\ unit' = "cleanup"
    /\ LET reverts == unit = "serving" /\ Owned(file[managed])
       IN  /\ file' = IF reverts
                      THEN [file EXCEPT ![managed] = Written(@, backup)] ELSE file
           /\ unclean' = (unclean \/ (unit = "serving" /\ ~reverts))
    /\ UNCHANGED <<conf, daemonVars, unboundVars, nmVars, events, touched>>

\* The daemon is killed, or takes one of the exits that do not revert.
DaemonDies ==
    /\ unit \in {"waiting", "serving"} /\ unit' = "cleanup" /\ Event
    /\ unclean' = (unclean \/ unit = "serving")
    /\ UNCHANGED <<conf, file, daemonVars, unboundVars, nmVars, touched>>

\* ExecStopPost runs /usr/libexec/dnsconfd-cleanup, and dnsconfd.spec installs
\* dnsconfd-prepare.sh under that name: what was prepared is prepared again.
CleanupOwnership ==
    /\ unit = "cleanup" /\ unit' = "cleanup_unbound"
    /\ TakeUnlessOwned
    /\ touched' = (events' # events)

CleanupUnbound ==
    /\ unit = "cleanup_unbound" /\ unit' = "inactive"
    /\ ArrangeUnbound

-----------------------------------------------------------------------------
(* Everybody else                                                          *)

\* /run is empty after a boot, and NetworkManager reads its files again.
PowerCut ==
    /\ Event
    /\ unit' = "inactive" /\ anchor_disable' = FALSE
    /\ nm_dns' = IF nm_conf THEN "dnsconfd" ELSE "default"
    /\ touched' = TRUE /\ unclean' = (unclean \/ unit = "serving")
    /\ UNCHANGED <<conf, file, daemonVars, local_root, as112, as112_file, nm_conf>>

EditConfiguration ==
    /\ Event
    /\ conf' \in Configuration \ {conf}
    /\ touched' = TRUE
    /\ UNCHANGED <<file, unit, daemonVars, unboundVars, nmVars, unclean>>

\* Without dns=dnsconfd NetworkManager puts a file of its own in place.
NetworkManagerWrites ==
    /\ nm_dns = "default" /\ file[Etc].kind # "symlink"
    /\ file' = [file EXCEPT ![Etc] = [kind |-> "file", owner |-> "root", content |-> "network"]]
    /\ touched' = TRUE
    /\ UNCHANGED <<conf, unit, daemonVars, unboundVars, nmVars, events, unclean>>

Init ==
    /\ conf \in Configuration
    /\ file \in [Path -> Found]
    /\ unit = "inactive" /\ managed = Refused /\ backup = NoBackup
    /\ local_root \in {"enabled", "absent"} /\ anchor_disable = FALSE
    /\ as112 = FALSE /\ as112_file \in BOOLEAN
    /\ \/ nm_conf = FALSE /\ nm_dns = "default"
       \/ nm_conf = TRUE /\ nm_dns = "dnsconfd"
    /\ events = 0 /\ touched = FALSE /\ unclean = FALSE

UnitStep ==
    \/ StartUnit \/ PrepareOwnership \/ PrepareUnbound \/ StartDaemon
    \/ DaemonWrites \/ DaemonStops \/ DaemonDies
    \/ CleanupOwnership \/ CleanupUnbound

Next ==
    \/ UnitStep
    \/ \E action \in Command : ConfigCommand(action)
    \/ PowerCut \/ EditConfiguration \/ NetworkManagerWrites

Spec == Init /\ [][Next]_vars

-----------------------------------------------------------------------------
(* What must hold                                                          *)

\* Over any number of starts and stops, configurations and commands in
\* between: while no daemon ended without reverting, a host on which
\* dnsconfd does not run never shows the resolv.conf that dnsconfd wrote.
CleanStopRestores ==
    unit = "inactive" /\ ~unclean => \A path \in Path : file[path].content # "generated"

\* Whatever came before (kills, power cuts, refused configurations, other
\* paths), a start that nobody disturbs gives the daemon a resolv.conf that it
\* can write, and the daemon keeps it. This is said of hosts where the scripts
\* and the daemon read the same path (the options of the service are not seen
\* by the scripts), and it is false for another path than /etc/resolv.conf
\* while /etc/resolv.conf belongs to dnsconfd: then the script takes nothing
\* and every start fails.
DaemonCanWrite ==
    /\ unit \in {"waiting", "serving"} /\ ~touched
    /\ managed = conf.scripts /\ (managed = Etc \/ ~Owned(file[Etc]))
    => Owned(file[managed])
=============================================================================
