------------------------ MODULE HostLifecycleProofs ------------------------
(***************************************************************************)
(* The properties of HostLifecycle for every set of paths, every           *)
(* configuration and any number of starts, crashes and commands. They need *)
(* one invariant: what dnsconfd generated is on disk only under a daemon   *)
(* that holds the content it replaced, unless some daemon ended without    *)
(* putting it back.                                                        *)
(***************************************************************************)
EXTENDS HostLifecycle, TLAPS

\* The time that each prover has for a step
USE SMTT(30), ZenonT(30)

\* The states of a path
PathOK(f) ==
    /\ f.kind \in {"file", "symlink", "absent"}
    /\ f.owner \in {"root", "dnsconfd"}
    /\ f.owner = "dnsconfd" => f.kind = "file"
    /\ f.content # NoBackup

FilesOK ==
    /\ conf \in Configuration
    /\ file = [path \in Path |-> file[path]]
    /\ \A path \in Path : PathOK(file[path])

\* What a daemon that runs knows
DaemonOK ==
    /\ unit \in {"waiting", "serving"} => managed \in Path
    /\ unit = "waiting" => backup = NoBackup
    /\ unit = "serving" => backup # NoBackup /\ (~unclean => backup # "generated")

\* What dnsconfd generated is only where a daemon serves.
GeneratedOK ==
    ~unclean => \A path \in Path :
        file[path].content = "generated" => unit = "serving" /\ managed = path

LInv == FilesOK /\ DaemonOK /\ GeneratedOK

\* What a command does to a path keeps it well formed, and generates nothing.
LEMMA TakingKeeps ==
    ASSUME NEW f, PathOK(f)
    PROVE  \A g \in {f, Taken(f), Returned(f)} \cup HalfTaken(f) :
               PathOK(g) /\ (g.content = "generated" => f.content = "generated")
  BY DEF PathOK, Taken, Returned, HalfTaken, Created, NoBackup

\* Hence so does a step that only changes one path that way.
LEMMA ChangeKeeps ==
    ASSUME LInv, NEW path \in Path, NEW g, PathOK(g),
           g.content = "generated" => file[path].content = "generated",
           file' = [file EXCEPT ![path] = g], conf' \in Configuration
    PROVE  /\ FilesOK'
           /\ \A p \in Path : file'[p].content = "generated" => file[p].content = "generated"
  BY DEF LInv, FilesOK, PathOK, NoBackup

\* The initial states satisfy the invariant.
LEMMA InitLInv == Init => LInv
  <1>1. ASSUME Init PROVE FilesOK
    BY <1>1, LifecycleAssumption DEF Init, FilesOK, PathOK, NoBackup
  <1>2. ASSUME Init PROVE DaemonOK
    BY <1>2 DEF Init, DaemonOK
  <1>3. ASSUME Init PROVE GeneratedOK
    BY <1>3, LifecycleAssumption DEF Init, GeneratedOK
  <1> QED BY <1>1, <1>2, <1>3 DEF LInv

\* A step that leaves the daemon where it is and generates nothing
LEMMA QuietStep ==
    ASSUME LInv, FilesOK', UNCHANGED <<unit, daemonVars, unclean>>,
           \A p \in Path : file'[p].content = "generated" => file[p].content = "generated"
    PROVE  LInv'
  BY DEF LInv, DaemonOK, GeneratedOK, daemonVars

\* A step after which no daemon runs, that generates nothing, and that
\* records an end without a revert
LEMMA EndStep ==
    ASSUME LInv, FilesOK', unit' \notin {"waiting", "serving"},
           ~unclean' => ~unclean /\ unit # "serving",
           \A p \in Path : file'[p].content = "generated" => file[p].content = "generated"
    PROVE  LInv'
  BY DEF LInv, DaemonOK, GeneratedOK

\* The script leaves the paths in the states that its command may leave.
LEMMA ScriptKeeps ==
    ASSUME LInv, TakeUnlessOwned
    PROVE  /\ FilesOK'
           /\ \A p \in Path : file'[p].content = "generated" => file[p].content = "generated"
  <1>1. CASE UNCHANGED file
    BY <1>1 DEF LInv, FilesOK, PathOK, TakeUnlessOwned
  <1>2. CASE file' # file
    <2> DEFINE path == conf.scripts
    <2>1. path \in Path
      BY <1>2, LifecycleAssumption DEF LInv, FilesOK, TakeUnlessOwned, TakeResolvConf, Refused
    <2>2. PICK g \in {file[path], Taken(file[path]), Returned(file[path])} \cup HalfTaken(file[path]) :
            file' = [file EXCEPT ![path] = g]
      BY <1>2, <2>1 DEF TakeUnlessOwned, TakeResolvConf
    <2>3. PathOK(file[path]) /\ conf' \in Configuration
      BY <2>1 DEF LInv, FilesOK, TakeUnlessOwned
    <2>4. PathOK(g) /\ (g.content = "generated" => file[path].content = "generated")
      BY <2>2, <2>3, TakingKeeps
    <2> QED BY <2>1, <2>2, <2>3, <2>4, ChangeKeeps
  <1> QED BY <1>1, <1>2

\* The rest of the script touches neither the paths nor the daemon.
LEMMA ArrangeKeeps ==
    ASSUME ArrangeUnbound
    PROVE  /\ UNCHANGED <<conf, file, managed, backup, touched, unclean>>
           /\ UNCHANGED events \/ Event
  BY ZenonT(30) DEF ArrangeUnbound, daemonVars

\* Where the unit goes from there
LEMMA PrepareUnboundKeeps ==
    ASSUME PrepareUnbound
    PROVE  /\ unit = "prepare_unbound" /\ unit' \in {"start", "cleanup"}
           /\ UNCHANGED <<conf, file, managed, backup, touched, unclean>>
           /\ UNCHANGED events \/ Event
  <1>1. unit = "prepare_unbound" /\ unit' \in {"start", "cleanup"} /\ ArrangeUnbound
    BY ZenonT(30) DEF PrepareUnbound
  <1> QED BY <1>1, ArrangeKeeps

\* What the daemon writes, and what it puts back
LEMMA WritesKeep == LInv /\ DaemonWrites => LInv'
  <1> SUFFICES ASSUME LInv, DaemonWrites PROVE LInv'
    OBVIOUS
  <1>1. managed \in Path /\ PathOK(file[managed]) /\ UNCHANGED <<managed, conf>>
    BY DEF LInv, DaemonOK, FilesOK, DaemonWrites
  <1>2. Saved # NoBackup /\ backup' = Saved
    BY <1>1 DEF LInv, DaemonOK, Saved, PathOK, DaemonWrites
  <1>3. CASE ~Owned(file[managed])
    <2>1. UNCHANGED file /\ unit' = "cleanup" /\ unclean' = (unclean \/ unit = "serving")
      BY <1>3 DEF DaemonWrites
    <2>2. FilesOK'
      BY <1>1, <2>1 DEF LInv, FilesOK, PathOK
    <2> QED BY <2>1, <2>2, EndStep
  <1>4. CASE Owned(file[managed])
    <2> DEFINE g == Written(file[managed], "generated")
    <2>1. file' = [file EXCEPT ![managed] = g]
      BY <1>4 DEF DaemonWrites
    <2>2. PathOK(g)
      BY <1>1 DEF PathOK, Written, NoBackup
    <2>3. FilesOK'
      BY <1>1, <2>1, <2>2 DEF LInv, FilesOK, PathOK
    <2>4. CASE unit' = "cleanup"
      <3>1. unclean' = TRUE
        BY <1>4, <2>4 DEF DaemonWrites
      <3> QED BY <2>3, <2>4, <3>1 DEF LInv, DaemonOK, GeneratedOK
    <2>5. CASE unit' = "serving" /\ UNCHANGED unclean
      <3>1. ~unclean => Saved # "generated"
        BY <1>1 DEF LInv, DaemonOK, GeneratedOK, Saved, DaemonWrites
      <3>2. DaemonOK'
        BY <1>1, <1>2, <2>5, <3>1 DEF DaemonOK
      <3>3. GeneratedOK'
        BY <1>1, <2>1, <2>5 DEF LInv, GeneratedOK, FilesOK
      <3> QED BY <2>3, <3>2, <3>3 DEF LInv
    <2> QED BY <1>4, <2>4, <2>5 DEF DaemonWrites
  <1> QED BY <1>3, <1>4

\* The revert puts back what was kept, unless the file is not the daemon's.
LEMMA StopKeeps == LInv /\ DaemonStops => LInv'
  <1> SUFFICES ASSUME LInv, DaemonStops PROVE LInv'
    OBVIOUS
  <1>1. managed \in Path /\ PathOK(file[managed]) /\ UNCHANGED <<managed, backup, conf>>
    BY DEF LInv, DaemonOK, FilesOK, DaemonStops, daemonVars
  <1>2. unit' = "cleanup"
    BY DEF DaemonStops
  <1>3. CASE unit = "serving" /\ Owned(file[managed])
    <2> DEFINE g == Written(file[managed], backup)
    <2>1. file' = [file EXCEPT ![managed] = g] /\ (~unclean' => ~unclean)
      BY <1>3 DEF DaemonStops
    <2>2. PathOK(g)
      BY <1>1, <1>3 DEF PathOK, Written, LInv, DaemonOK
    <2>3. FilesOK'
      BY <1>1, <2>1, <2>2 DEF LInv, FilesOK, PathOK
    <2>4. ~unclean => g.content # "generated"
      BY <1>3 DEF LInv, DaemonOK, Written
    <2>5. GeneratedOK'
      BY <1>1, <2>1, <2>4 DEF LInv, GeneratedOK, FilesOK
    <2> QED BY <1>2, <2>3, <2>5 DEF LInv, DaemonOK
  <1>4. CASE ~(unit = "serving" /\ Owned(file[managed]))
    <2>1. UNCHANGED file /\ (~unclean' => ~unclean /\ unit # "serving")
      BY <1>4 DEF DaemonStops
    <2>2. FilesOK'
      BY <1>1, <2>1 DEF LInv, FilesOK, PathOK
    <2> QED BY <1>2, <2>1, <2>2, EndStep
  <1> QED BY <1>3, <1>4

\* Every step keeps the invariant.
LEMMA StepLInv == LInv /\ [Next]_vars => LInv'
  <1> SUFFICES ASSUME LInv, [Next]_vars PROVE LInv'
    OBVIOUS
  <1>0. ASSUME UNCHANGED <<file, conf>>
        PROVE  /\ FilesOK'
               /\ \A p \in Path : file'[p].content = "generated" => file[p].content = "generated"
    BY <1>0 DEF LInv, FilesOK, PathOK
  <1>1. CASE StartUnit \/ PrepareUnbound
    <2>1. CASE StartUnit
      BY <1>0, <2>1, EndStep DEF StartUnit
    <2>2. CASE PrepareUnbound
      BY <1>0, <2>2, PrepareUnboundKeeps, EndStep
    <2> QED BY <1>1, <2>1, <2>2
  <1>2. CASE PrepareOwnership
    BY <1>2, ScriptKeeps, EndStep DEF PrepareOwnership, TakeUnlessOwned
  <1>3. CASE StartDaemon
    <2>1. UNCHANGED <<file, conf, unclean>> /\ unit # "serving"
      BY <1>3 DEF StartDaemon
    <2>2. unit' = "waiting" => managed' \in Path /\ backup' = NoBackup
      BY <1>3, LifecycleAssumption DEF StartDaemon, LInv, FilesOK, Refused
    <2>3. unit' # "serving"
      BY <1>3 DEF StartDaemon
    <2> QED BY <1>0, <2>1, <2>2, <2>3 DEF LInv, DaemonOK, GeneratedOK
  <1>4. CASE DaemonWrites
    BY <1>4, WritesKeep
  <1>5. CASE DaemonStops
    BY <1>5, StopKeeps
  <1>6. CASE DaemonDies
    BY <1>0, <1>6, EndStep DEF DaemonDies
  <1>7. CASE CleanupOwnership
    BY <1>7, ScriptKeeps, EndStep DEF CleanupOwnership, TakeUnlessOwned
  <1>8. CASE CleanupUnbound
    BY <1>0, <1>8, ArrangeKeeps, EndStep DEF CleanupUnbound
  <1>9. CASE \E action \in Command : ConfigCommand(action)
    <2> DEFINE path == conf.scripts
    <2>1. path \in Path /\ UNCHANGED <<conf, unit, daemonVars, unclean>>
      BY <1>9, LifecycleAssumption DEF ConfigCommand, LInv, FilesOK, Refused
    <2>2. PICK g \in {file[path], Taken(file[path]), Returned(file[path])} \cup HalfTaken(file[path]) :
            file' = [file EXCEPT ![path] = g]
      BY <1>9 DEF ConfigCommand
    <2>3. PathOK(file[path]) /\ conf' \in Configuration
      BY <2>1 DEF LInv, FilesOK
    <2>4. PathOK(g) /\ (g.content = "generated" => file[path].content = "generated")
      BY <2>2, <2>3, TakingKeeps
    <2> QED BY <2>1, <2>2, <2>3, <2>4, ChangeKeeps, QuietStep
  <1>10. CASE PowerCut
    BY <1>0, <1>10, EndStep DEF PowerCut
  <1>11. CASE EditConfiguration
    <2>1. FilesOK' /\ UNCHANGED <<file, unit, daemonVars, unclean>>
      BY <1>11 DEF EditConfiguration, LInv, FilesOK, PathOK
    <2> QED BY <2>1, QuietStep
  <1>12. CASE NetworkManagerWrites
    <2> DEFINE g == [kind |-> "file", owner |-> "root", content |-> "network"]
    <2>1. file' = [file EXCEPT ![Etc] = g] /\ UNCHANGED <<conf, unit, daemonVars, unclean>>
      BY <1>12 DEF NetworkManagerWrites
    <2>2. PathOK(g) /\ g.content # "generated"
      BY DEF PathOK, NoBackup
    <2>3. Etc \in Path /\ conf' \in Configuration
      BY <2>1, LifecycleAssumption DEF LInv, FilesOK
    <2> QED BY <2>1, <2>2, <2>3, ChangeKeeps, QuietStep
  <1>13. CASE UNCHANGED vars
    BY <1>0, <1>13, QuietStep DEF vars
  <1> QED BY <1>1, <1>2, <1>3, <1>4, <1>5, <1>6, <1>7, <1>8, <1>9, <1>10, <1>11, <1>12, <1>13
          DEF Next, UnitStep

\* The invariant holds in every state.
THEOREM LifecycleInvariant == Spec => []LInv
  BY InitLInv, StepLInv, PTL DEF Spec

\* While every daemon put resolv.conf back, a host on which dnsconfd does
\* not run never shows what dnsconfd generated: over any number of starts,
\* stops, changes of the configuration and commands.
THEOREM CleanStopRestoresHolds == Spec => []CleanStopRestores
  <1>1. LInv => CleanStopRestores
    BY DEF LInv, GeneratedOK, CleanStopRestores
  <1> QED BY <1>1, LifecycleInvariant, PTL

-----------------------------------------------------------------------------
(* The script before the daemon                                            *)

\* What the script leaves for the daemon, from its first half on: it has taken
\* the path it read, unless /etc/resolv.conf was dnsconfd's already.
PreparedOK ==
    unit \in {"prepare_unbound", "start", "waiting", "serving"} /\ ~touched =>
        \/ conf.scripts = Refused
        \/ Owned(file[conf.scripts])
        \/ conf.scripts # Etc /\ Owned(file[Etc])

ScriptInv == events \in Nat /\ PreparedOK

\* The daemon changes what a path holds and never whose it is.
LEMMA DaemonKeepsOwners ==
    ASSUME LInv, DaemonWrites \/ DaemonStops, NEW path \in Path
    PROVE  Owned(file'[path]) <=> Owned(file[path])
  <1>1. \/ UNCHANGED file
        \/ \E c : file' = [file EXCEPT ![managed] = Written(file[managed], c)]
    BY DEF DaemonWrites, DaemonStops
  <1> QED BY <1>1 DEF Written, Owned, LInv, FilesOK

\* The script takes the path, or finds /etc/resolv.conf taken.
LEMMA PrepareStep ==
    ASSUME LInv, ScriptInv, PrepareOwnership
    PROVE  ScriptInv'
  <1>1. events' \in Nat /\ unit' = "prepare_unbound" /\ UNCHANGED conf
    BY DEF PrepareOwnership, TakeUnlessOwned, TakeResolvConf, Event, ScriptInv
  <1>2. ASSUME ~touched', conf.scripts # Refused
        PROVE  Owned(file'[conf.scripts]) \/ (conf.scripts # Etc /\ Owned(file'[Etc]))
    <2>1. events' = events
      BY <1>2 DEF PrepareOwnership
    <2>2. CASE Owned(file[Etc])
      BY <2>2 DEF PrepareOwnership, TakeUnlessOwned
    <2>3. CASE ~Owned(file[Etc])
      <3>1. file' = [file EXCEPT ![conf.scripts] = Taken(@)]
        BY <1>2, <2>1, <2>3 DEF PrepareOwnership, TakeUnlessOwned, TakeResolvConf, Event, ScriptInv
      <3>2. conf.scripts \in Path
        BY <1>2, LifecycleAssumption DEF LInv, FilesOK, Refused
      <3> QED BY <3>1, <3>2 DEF LInv, FilesOK, Taken, Owned
    <2> QED BY <2>2, <2>3
  <1> QED BY <1>1, <1>2 DEF ScriptInv, PreparedOK

\* Every step keeps what the script leaves.
LEMMA StepScriptInv == LInv /\ ScriptInv /\ [Next]_vars => ScriptInv'
  <1> SUFFICES ASSUME LInv, ScriptInv, [Next]_vars PROVE ScriptInv'
    OBVIOUS
  <1>0. ASSUME events' \in Nat, unit' \notin {"prepare_unbound", "start", "waiting", "serving"} \/ touched'
        PROVE  ScriptInv'
    BY <1>0 DEF ScriptInv, PreparedOK
  <1>1. CASE PrepareUnbound \/ StartDaemon
    <2>1. UNCHANGED <<conf, file, touched>> /\ unit \in {"prepare_unbound", "start"}
      BY <1>1, PrepareUnboundKeeps DEF StartDaemon
    <2>2. events' \in Nat
      BY <1>1, PrepareUnboundKeeps DEF StartDaemon, Event, ScriptInv
    <2> QED BY <2>1, <2>2 DEF ScriptInv, PreparedOK
  <1>2. CASE PrepareOwnership
    BY <1>2, PrepareStep
  <1>3. CASE DaemonWrites \/ DaemonStops
    <2>1. unit \in {"waiting", "serving"} /\ UNCHANGED <<conf, touched>>
      BY <1>3 DEF DaemonWrites, DaemonStops
    <2>2. events' \in Nat
      BY <1>3 DEF DaemonWrites, DaemonStops, Event, ScriptInv
    <2>3. conf.scripts \in Path \cup {Refused} /\ Etc \in Path
      BY LifecycleAssumption DEF LInv, FilesOK
    <2>4. \A path \in Path : Owned(file'[path]) <=> Owned(file[path])
      BY <1>3, DaemonKeepsOwners
    <2> QED BY <2>1, <2>2, <2>3, <2>4 DEF ScriptInv, PreparedOK
  <1>4. CASE StartUnit \/ DaemonDies
    BY <1>0, <1>4 DEF StartUnit, DaemonDies, Event, ScriptInv
  <1>5. CASE CleanupOwnership
    BY <1>0, <1>5 DEF CleanupOwnership, TakeUnlessOwned, TakeResolvConf, Event, ScriptInv
  <1>6. CASE CleanupUnbound
    BY <1>0, <1>6, ArrangeKeeps DEF CleanupUnbound, Event, ScriptInv
  <1>7. CASE \E action \in Command : ConfigCommand(action)
    BY <1>0, <1>7 DEF ConfigCommand, Event, ScriptInv
  <1>8. CASE PowerCut \/ EditConfiguration \/ NetworkManagerWrites
    BY <1>0, <1>8 DEF PowerCut, EditConfiguration, NetworkManagerWrites, Event, ScriptInv
  <1>9. CASE UNCHANGED vars
    BY <1>9 DEF vars, ScriptInv, PreparedOK
  <1> QED BY <1>1, <1>2, <1>3, <1>4, <1>5, <1>6, <1>7, <1>8, <1>9 DEF Next, UnitStep

\* What the script leaves holds in every state.
LEMMA ScriptInvariant == Spec => []ScriptInv
  <1>1. Init => ScriptInv
    BY LifecycleAssumption DEF Init, ScriptInv, PreparedOK
  <1> QED BY <1>1, StepScriptInv, LifecycleInvariant, PTL DEF Spec

\* Whatever came before, a start that nobody disturbs gives the daemon a
\* resolv.conf that it can write and keeps, for any set of paths, where the
\* scripts and the daemon read the same path and /etc/resolv.conf is either
\* that path or not dnsconfd's.
THEOREM DaemonCanWriteHolds == Spec => []DaemonCanWrite
  <1>1. LInv /\ ScriptInv => DaemonCanWrite
    <2> SUFFICES ASSUME LInv, ScriptInv,
                        unit \in {"waiting", "serving"}, ~touched, managed = conf.scripts,
                        managed = Etc \/ ~Owned(file[Etc])
                 PROVE  Owned(file[managed])
      BY DEF DaemonCanWrite
    <2>1. managed # Refused
      BY LifecycleAssumption DEF LInv, DaemonOK
    <2> QED BY <2>1 DEF ScriptInv, PreparedOK
  <1> QED BY <1>1, LifecycleInvariant, ScriptInvariant, PTL
=============================================================================
