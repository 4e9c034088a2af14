-------------------------- MODULE MCBuildLifecycle --------------------------
(***************************************************************************)
(* BuildLifecycle for TLC: two variants, so that a build and its install   *)
(* can disagree about the directory.                                       *)
(***************************************************************************)
EXTENDS BuildLifecycle
=============================================================================
