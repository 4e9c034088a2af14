----------------------------- MODULE MCTransaction -----------------------------
(***************************************************************************)
(* Transaction for TLC: two kernels, one of them in two repositories with  *)
(* different versions and companions.                                      *)
(***************************************************************************)
EXTENDS Transaction

CONSTANTS Core, Custom, Cachy, Lts

MCCatalog == {<<Core, Cachy>>, <<Custom, Cachy>>, <<Core, Lts>>}
MCVersion == [r \in MCCatalog |-> IF r = <<Core, Cachy>> THEN 2 ELSE 1]
MCCompanions ==
    [r \in MCCatalog |-> IF r = <<Core, Cachy>> THEN {"nvidia"} ELSE {}]
MCRank == [q \in {Core, Custom} |-> IF q = Core THEN 0 ELSE 1]

Machine(v, o, m) ==
    [version |-> [k \in {Cachy, Lts} |-> IF k = Cachy THEN v ELSE 1],
     from |-> [k \in {Cachy, Lts} |-> IF k = Cachy THEN o ELSE Core],
     modules |-> m, dkms |-> FALSE]

(* The first kernel is outdated, with all its companions, or from the      *)
(* other repository, without any.                                          *)
LtsHeaders == <<Lts, "headers">>
MCStart ==
    {Machine(1, Core, {LtsHeaders, <<Cachy, "headers">>, <<Cachy, "nvidia">>}),
     Machine(1, Custom, {LtsHeaders})}
===============================================================================
