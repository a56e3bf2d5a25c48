--------------------------- MODULE MCHostLifecycle ---------------------------
(***************************************************************************)
(* Two paths; the scripts do not see the options of the service, so they   *)
(* and the daemon may read different configurations.                       *)
(***************************************************************************)
EXTENDS HostLifecycle

MCPath == {Etc, "/other"}

MCConfiguration ==
    {[scripts |-> s, daemon |-> d] : s \in MCPath, d \in MCPath \cup {Refused}}
        \cup {[scripts |-> Refused, daemon |-> Refused]}

MCFound ==
    {[kind |-> "file", owner |-> "root", content |-> "original"],
     [kind |-> "symlink", owner |-> "root", content |-> "original"],
     [kind |-> "absent", owner |-> "root", content |-> "empty"]}
=============================================================================
