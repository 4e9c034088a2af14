------------------------------ MODULE MCSchedExt -------------------------------
(***************************************************************************)
(* SchedExt for TLC: two schedulers, the second of which can be picked,    *)
(* and a file that is missing, broken, or gives the first of them flags of *)
(* its own.                                                                *)
(***************************************************************************)
EXTENDS SchedExt, TLC

MCSupported == <<Bpfland, Lavd>>
MCTexts == {Words(<<"-p">>)[1]}
Custom ==
    [default_sched |-> Bpfland, default_mode |-> "PowerSave",
     scheds |-> [s \in {Bpfland} |-> [m \in {"Auto"} |-> Words(<<"-p">>)]]]
(* The service in the way is enabled or just runs; the loader is not.      *)
Machine(enabled) ==
    [scxEnabled |-> enabled, scxActive |-> TRUE, loaderEnabled |-> FALSE,
     running |-> Stopped]
MCStarts ==
    {[file |-> Absent, machine |-> Machine(TRUE)],
     [file |-> Broken, machine |-> Machine(TRUE)],
     [file |-> File(Custom), machine |-> Machine(FALSE)]}
Symmetry == Permutations(Calls)
===============================================================================
