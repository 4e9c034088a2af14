------------------------------ MODULE MCConfigure ------------------------------
(***************************************************************************)
(* Configure for TLC: three variants between which items come and go and   *)
(* zfs is taken away, each with a patch of its own, and a configuration    *)
(* file that offers a value that not all of them have.                     *)
(***************************************************************************)
EXTENDS Configure

Entry(name) == [name |-> name, patch |-> TRUE]
MCSourceArray ==
    [v \in {"cachyos", "lts", "rt"} |-> << [name |-> "config", patch |-> FALSE], Entry(v) >>]
MCBareSource == [v \in {"cachyos", "lts", "rt"} |-> << >>]
MCLtoPatches == << Entry("lto") >>
MCNvidiaPatches == << Entry("nvidia") >>
MCNone == << >>
MCUserPatches == {Entry("user")}
MCFiles ==
    {Missing, [ToConfig(DefaultWidgets) EXCEPT !.lto = "thin-dist", !.preempt = "voluntary",
                                               !.checked = {"builtin_zfs"}]}
MCOldFiles == {[ToConfig(DefaultWidgets) EXCEPT !.lto = "thin-dist", !.hz = "1200"]}
===============================================================================
