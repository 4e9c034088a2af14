---------------------------- MODULE BuildContract ----------------------------
(***************************************************************************)
(* What the Build button promises, as the user of the Configure window     *)
(* sees it: one operation at a time, in a fixed order.                     *)
(*                                                                         *)
(* The handlers of core/state.rs that move `AppState.build` have no guard  *)
(* but the one of BuildRequested: BuildFinished, InstallArtifactsRequested,*)
(* InstallDeclined and ArtifactsInstalled overwrite the state whatever it  *)
(* was.  This module says which of those overwrites may happen; module     *)
(* BuildLifecycle, with its threads, processes and cancellations, is shown *)
(* to implement it.                                                        *)
(***************************************************************************)
EXTENDS Naturals

VARIABLES
    build,      \* AppState.build
    question,   \* the "install build packages?" dialog is on the screen
    generation  \* Build presses and cancels since the program started

vars == <<build, question, generation>>

Init ==
    /\ build = "Idle"
    /\ question = FALSE
    /\ generation = 0

(* The Build button: nothing is in flight and no question is pending.      *)
Request ==
    /\ build \in {"Idle", "Failed"}
    /\ ~question
    /\ build' = "Running"
    /\ generation' = generation + 1
    /\ UNCHANGED question

(* A cancel only says so: the operation it is about ends in its own time,  *)
(* and until then nothing else may start.                                  *)
Cancel ==
    /\ build \in {"Running", "AwaitingInstallDecision", "Installing"}
    /\ generation' = generation + 1
    /\ UNCHANGED <<build, question>>

(* A build ends exactly once, and only a running build ends.               *)
Succeed ==
    /\ build = "Running"
    /\ build' = "AwaitingInstallDecision"
    /\ question' = TRUE
    /\ UNCHANGED generation

Fail ==
    /\ build = "Running"
    /\ build' = "Failed"
    /\ UNCHANGED <<question, generation>>

(* The question is answered at most once, about the build that asked it.   *)
Answer ==
    /\ question
    /\ build = "AwaitingInstallDecision"
    /\ build' \in {"Installing", "Idle"}
    /\ question' = FALSE
    /\ UNCHANGED generation

(* The dialog slot is shared: another dialog may replace the question.     *)
LoseQuestion ==
    /\ question
    /\ question' = FALSE
    /\ UNCHANGED <<build, generation>>

Installed ==
    /\ build = "Installing"
    /\ build' = "Idle"
    /\ UNCHANGED <<question, generation>>

(* The application exits, and is started again.                            *)
Restart ==
    /\ build' = "Idle"
    /\ question' = FALSE
    /\ generation' = 0

Next ==
    \/ Request
    \/ Cancel
    \/ Succeed
    \/ Fail
    \/ Answer
    \/ LoseQuestion
    \/ Installed
    \/ Restart

Spec == Init /\ [][Next]_vars
==============================================================================
