---------------------------- MODULE BuildLifecycle ----------------------------
(***************************************************************************)
(* The Build button, end to end: the core's BuildState, the worker threads *)
(* of `build_task` and `artifacts_task`, the operation-generation token    *)
(* `build_epoch`, the process slot `build_proc`, the terminal-helper       *)
(* processes, the makepkg/pacman jobs under them, the `.done-status`       *)
(* marker and the PKGBUILD on disk, and the cancellation that the Configure*)
(* window's Cancel and close button trigger.                               *)
(*                                                                         *)
(* Three kinds of actor interleave:                                        *)
(*   - the UI thread: user events and messages posted by the workers, one  *)
(*     at a time, under the App mutex;                                     *)
(*   - one thread per dispatched operation;                                *)
(*   - the operating system: the jobs, and the helpers that wait for them. *)
(*                                                                         *)
(* Operations are numbered in the order they are dispatched.  Bounds of    *)
(* the model, none of which the code has: MaxOps operations in all,        *)
(* MaxEpoch on the token at a cancel, MaxPrepares prepares in flight.      *)
(***************************************************************************)
EXTENDS Naturals, FiniteSets

CONSTANTS
    Variants,        \* the kernel variants (PKGBUILD directories)
    DefaultVariant,  \* the one a fresh Configure window selects
    MaxOps, MaxEpoch, MaxPrepares

ASSUME VariantsAssumption == DefaultVariant \in Variants
ASSUME BoundsAssumption == MaxOps \in Nat /\ MaxEpoch \in Nat /\ MaxPrepares \in Nat

VARIABLES
    build,       \* AppState.build
    window,      \* the Configure window is shown (Preparing or Editing)
    question,    \* the dialog slot holds the install question
    variant,     \* configure.variant
    epoch,       \* App.build_epoch
    slot,        \* App.build_proc: the operation whose child it holds, 0 if None
    ui,          \* "Killing": the UI thread is inside cancel_build_process
    refreshing,  \* prepare threads that have not run the git plan yet
    prepared,    \* ConfigurePrepared messages (or threads about to post one)
    ops,         \* operations dispatched so far
    kind,        \* per operation: "build" or "install"
    pc,          \* where its thread is
    born,        \* the generation it captured at dispatch
    dir,         \* the variant it captured at dispatch
    ok,          \* the builds whose thread found a success to report
    helper,      \* its terminal-helper process
    job,         \* the makepkg or pacman the helper's terminal runs
    source,      \* the build whose PKGBUILD the install probed (0: pristine)
    cancelled,   \* history: those live when a cancel reached the UI thread
    marker,      \* the variants whose directory holds a .done-status
    pkgbuild     \* per variant: the build that last wrote the PKGBUILD, 0: git's

core == <<build, window, question, variant>>
token == <<epoch, slot, ui>>
prepares == <<refreshing, prepared>>
birth == <<ops, kind, born, dir>>
thread == <<pc, ok, source>>
procs == <<helper, job>>
disk == <<marker, pkgbuild>>
vars == <<core, token, prepares, birth, thread, procs, cancelled, disk>>
-------------------------------------------------------------------------------
Ops == 1..MaxOps
Ended == {"Unborn", "Done", "Gone"}
Working == {"Refresh", "Mutate", "PreCheck", "Globs", "Spawn", "PostCheck",
            "Store", "Wait", "Clear", "Check", "Report", "Posted"}
Live(w) == pc[w] \notin Ended
InFlight == build \in {"Running", "AwaitingInstallDecision", "Installing"}

CoreTypes ==
    /\ build \in {"Idle", "Running", "Failed", "AwaitingInstallDecision", "Installing"}
    /\ window \in BOOLEAN
    /\ question \in BOOLEAN
    /\ variant \in Variants
TokenTypes ==
    /\ epoch \in Nat
    /\ slot \in 0..MaxOps
    /\ ui \in {"Idle", "Killing"}
PrepareTypes ==
    /\ refreshing \in Nat
    /\ prepared \in Nat
BirthTypes ==
    /\ ops \in 0..MaxOps
    /\ kind \in [Ops -> {"build", "install"}]
    /\ born \in [Ops -> Nat]
    /\ dir \in [Ops -> Variants]
ThreadTypes ==
    /\ pc \in [Ops -> Working \cup Ended]
    /\ ok \subseteq Ops
    /\ source \in [Ops -> 0..MaxOps]
ProcTypes ==
    /\ helper \in [Ops -> {"none", "alive", "exited", "killed"}]
    /\ job \in [Ops -> {"none", "running", "succeeded", "failed"}]
DiskTypes ==
    /\ marker \subseteq Variants
    /\ pkgbuild \in [Variants -> 0..MaxOps]

(* Type invariant: what the Rust types of the state allow, with the        *)
(* counters never below zero.                                              *)
TypeOK ==
    /\ CoreTypes
    /\ TokenTypes
    /\ PrepareTypes
    /\ BirthTypes
    /\ ThreadTypes
    /\ ProcTypes
    /\ cancelled \subseteq Ops
    /\ DiskTypes

Init ==
    /\ build = "Idle"
    /\ window = FALSE
    /\ question = FALSE
    /\ variant = DefaultVariant
    /\ epoch = 0
    /\ slot = 0
    /\ ui = "Idle"
    /\ refreshing = 0
    /\ prepared = 0
    /\ ops = 0
    /\ kind = [w \in Ops |-> "build"]
    /\ pc = [w \in Ops |-> "Unborn"]
    /\ born = [w \in Ops |-> 0]
    /\ dir = [w \in Ops |-> DefaultVariant]
    /\ ok = {}
    /\ helper = [w \in Ops |-> "none"]
    /\ job = [w \in Ops |-> "none"]
    /\ source = [w \in Ops |-> 0]
    /\ cancelled = {}
    /\ marker = {}
    /\ pkgbuild = [v \in Variants |-> 0]
-------------------------------------------------------------------------------
(* What several steps share.                                               *)

(* A thread is spawned for operation ops+1; it captures the generation g   *)
(* and the variant selected now.                                           *)
Dispatch(k, g, at) ==
    LET w == ops + 1 IN
    /\ ops < MaxOps
    /\ ops' = w
    /\ kind' = [kind EXCEPT ![w] = k]
    /\ born' = [born EXCEPT ![w] = g]
    /\ dir' = [dir EXCEPT ![w] = variant]
    /\ pc' = [pc EXCEPT ![w] = at]

(* A thread moves on.                                                      *)
Goto(w, from, to) ==
    /\ pc[w] = from
    /\ pc' = [pc EXCEPT ![w] = to]

-------------------------------------------------------------------------------
(* Plausible mistakes in the steps below.  They are not part of the        *)
(* specification: putting one in the place of the step it is named after   *)
(* must break the property that is there to exclude it.                    *)

BuildRequestedUnguarded ==
    /\ ui = "Idle" /\ window
    /\ build' = "Running"
    /\ epoch' = epoch + 1
    /\ Dispatch("build", epoch + 1, "Refresh")
    /\ UNCHANGED <<window, question, variant, slot, ui, prepares, ok, source,
                   procs, cancelled, disk>>

ConfigurePreparedTwice ==
    /\ ui = "Idle"
    /\ prepared' = prepared - 1
    /\ window' \in {TRUE, window}
    /\ UNCHANGED <<build, question, variant, token, refreshing, birth, thread,
                   procs, cancelled, disk>>

CancelBumpIfStored ==
    /\ ui = "Idle" /\ window /\ InFlight /\ epoch < MaxEpoch
    /\ epoch' = IF slot = 0 THEN epoch ELSE epoch + 1
    /\ cancelled' = cancelled \cup {w \in Ops : Live(w)}
    /\ ui' = "Killing"
    /\ UNCHANGED <<core, slot, prepares, birth, thread, procs, disk>>

CancelTakeWithoutKill ==
    /\ ui = "Killing"
    /\ ui' = "Idle"
    /\ slot' = 0
    /\ window' = FALSE
    /\ UNCHANGED <<build, question, variant, epoch, prepares, birth, thread,
                   procs, cancelled, disk>>

CancelTakeEndsBuild ==
    /\ ui = "Killing"
    /\ ui' = "Idle"
    /\ helper' = [w \in Ops |-> IF w = slot THEN "killed" ELSE helper[w]]
    /\ slot' = 0
    /\ window' = FALSE
    /\ build' = "Idle"
    /\ UNCHANGED <<question, variant, epoch, prepares, birth, thread, job,
                   cancelled, disk>>

InstallAcceptedQuestionStays ==
    /\ ui = "Idle" /\ question
    /\ build' = "Installing"
    /\ Dispatch("install", epoch, "PreCheck")
    /\ UNCHANGED <<window, question, variant, token, prepares, ok, source,
                   procs, cancelled, disk>>

PostCheckSilent(w) ==
    /\ \/ /\ born[w] = epoch
          /\ Goto(w, "PostCheck", "Store")
          /\ UNCHANGED helper
       \/ /\ born[w] # epoch
          /\ Goto(w, "PostCheck", "Done")
          /\ helper' = [helper EXCEPT ![w] = "killed"]
    /\ UNCHANGED <<core, token, prepares, birth, ok, source, job, cancelled,
                   disk>>

WaitEndsOnExitOnly(w) ==
    /\ slot # 0 /\ helper[slot] # "alive"
    /\ Goto(w, "Wait", "Clear")
    /\ UNCHANGED <<core, token, prepares, birth, ok, source, procs, cancelled,
                   disk>>

CheckMarkerKeeps(w) ==
    /\ Goto(w, "Check", "Report")
    /\ ok' = IF dir[w] \in marker THEN ok \cup {w} ELSE ok
    /\ UNCHANGED <<core, token, prepares, birth, source, procs, cancelled, disk>>
-------------------------------------------------------------------------------
(* The UI thread: user events.                                             *)

BuildRequested ==
    /\ ui = "Idle"
    /\ window
    /\ ~InFlight
    /\ build' = "Running"
    /\ epoch' = epoch + 1
    /\ Dispatch("build", epoch + 1, "Refresh")
    /\ UNCHANGED <<window, question, variant, slot, ui, prepares, ok, source,
                   procs, cancelled, disk>>

(* Configure shows the window and the progress dialog; the dialog takes    *)
(* the one dialog slot, whatever it held.                                  *)
ConfigureRequested ==
    /\ ui = "Idle"
    /\ refreshing + prepared < MaxPrepares
    /\ window' = TRUE
    /\ question' = FALSE
    /\ refreshing' = refreshing + 1
    /\ UNCHANGED <<build, variant, token, prepared, birth, thread, procs,
                   cancelled, disk>>

(* A fresh ConfigurePrepared moves to Editing, which shows the window even *)
(* if it was closed meanwhile; a stale one is dropped.                     *)
ConfigurePrepared ==
    /\ ui = "Idle"
    /\ prepared > 0
    /\ prepared' = prepared - 1
    /\ window' \in {TRUE, window}
    /\ UNCHANGED <<build, question, variant, token, refreshing, birth, thread,
                   procs, cancelled, disk>>

VariantPicked(v) ==
    /\ ui = "Idle"
    /\ window
    /\ v # variant
    /\ variant' = v
    /\ UNCHANGED <<build, window, question, token, prepares, birth, thread,
                   procs, cancelled, disk>>

(* Cancel or close of the Configure window with an operation in flight:    *)
(* the generation is bumped first ...                                      *)
CancelBump ==
    /\ ui = "Idle"
    /\ window
    /\ InFlight
    /\ epoch < MaxEpoch
    /\ epoch' = epoch + 1
    /\ cancelled' = cancelled \cup {w \in Ops : Live(w)}
    /\ ui' = "Killing"
    /\ UNCHANGED <<core, slot, prepares, birth, thread, procs, disk>>

(* ... then the child is taken out of the slot, killed and reaped, all     *)
(* while the slot is locked; the event goes on to close the window.        *)
CancelTake ==
    /\ ui = "Killing"
    /\ ui' = "Idle"
    /\ helper' = [w \in Ops |-> IF w = slot /\ helper[w] = "alive"
                                  THEN "killed" ELSE helper[w]]
    /\ slot' = 0
    /\ window' = FALSE
    /\ UNCHANGED <<build, question, variant, epoch, prepares, birth, thread,
                   job, cancelled, disk>>

CloseIdle ==
    /\ ui = "Idle"
    /\ window
    /\ ~InFlight
    /\ window' = FALSE
    /\ UNCHANGED <<build, question, variant, token, prepares, birth, thread,
                   procs, cancelled, disk>>

(* The answer to the install question.  The install carries the CURRENT    *)
(* generation and the CURRENT variant.                                     *)
InstallAccepted ==
    /\ ui = "Idle"
    /\ question
    /\ question' = FALSE
    /\ build' = "Installing"
    /\ Dispatch("install", epoch, "PreCheck")
    /\ UNCHANGED <<window, variant, token, prepares, ok, source, procs,
                   cancelled, disk>>

InstallDeclined ==
    /\ ui = "Idle"
    /\ question
    /\ question' = FALSE
    /\ build' = "Idle"
    /\ UNCHANGED <<window, variant, token, prepares, birth, thread, procs,
                   cancelled, disk>>

(* Another flow (a transaction, the sched-ext window, a config file) shows *)
(* its error or progress dialog in the one dialog slot.                    *)
DialogOverwritten ==
    /\ ui = "Idle"
    /\ question
    /\ question' = FALSE
    /\ UNCHANGED <<build, window, variant, token, prepares, birth, thread,
                   procs, cancelled, disk>>

(* The main window closes and the program is started again: threads and    *)
(* memory are gone, processes and files are not.                           *)
Restart ==
    /\ build' = "Idle"
    /\ window' = FALSE
    /\ question' = FALSE
    /\ variant' = DefaultVariant
    /\ epoch' = 0
    /\ slot' = 0
    /\ ui' = "Idle"
    /\ refreshing' = 0
    /\ prepared' = 0
    /\ pc' = [w \in Ops |-> IF Live(w) THEN "Gone" ELSE pc[w]]
    /\ UNCHANGED <<birth, ok, source, procs, cancelled, disk>>
-------------------------------------------------------------------------------
(* The UI thread: messages of the operation threads.                       *)

BuildFinished(w) ==
    /\ ui = "Idle"
    /\ kind[w] = "build"
    /\ pc[w] = "Posted"
    /\ pc' = [pc EXCEPT ![w] = "Done"]
    /\ build' = IF w \in ok THEN "AwaitingInstallDecision" ELSE "Failed"
    /\ question' = (question \/ w \in ok)
    /\ UNCHANGED <<window, variant, token, prepares, birth, ok, source, procs,
                   cancelled, disk>>

ArtifactsInstalled(w) ==
    /\ ui = "Idle"
    /\ kind[w] = "install"
    /\ pc[w] = "Posted"
    /\ pc' = [pc EXCEPT ![w] = "Done"]
    /\ build' = "Idle"
    /\ UNCHANGED <<window, question, variant, token, prepares, birth, ok,
                   source, procs, cancelled, disk>>
-------------------------------------------------------------------------------
(* The operation threads.                                                  *)

(* execute_git_cache_plan: the refresh fails early, or resets the tracked  *)
(* files (`checkout --force`), or also removes the untracked ones          *)
(* (`clean -fd`, or a new clone), `.done-status` among them.  Another      *)
(* thread may write a PKGBUILD after the reset and before the removal.     *)
(* GitCache has the plan command by command.                               *)
GitRefresh ==
    /\ pkgbuild' \in {pkgbuild, [v \in Variants |-> 0]}
    /\ marker' \in {marker, {}}

PrepareRefresh ==
    /\ refreshing > 0
    /\ refreshing' = refreshing - 1
    /\ prepared' = prepared + 1
    /\ GitRefresh
    /\ UNCHANGED <<core, token, birth, thread, procs, cancelled>>

BuildRefresh(w) ==
    /\ Goto(w, "Refresh", "Mutate")
    /\ GitRefresh
    /\ UNCHANGED <<core, token, prepares, birth, ok, source, procs, cancelled>>

(* The patch array and the custom name are written into the PKGBUILD; a    *)
(* rejected name or a failed write ends the build.                         *)
Mutate(w) ==
    /\ \/ /\ Goto(w, "Mutate", "PreCheck")
          /\ pkgbuild' = [pkgbuild EXCEPT ![dir[w]] = w]
       \/ /\ Goto(w, "Mutate", "Posted")
          /\ pkgbuild' \in {pkgbuild, [pkgbuild EXCEPT ![dir[w]] = w]}
    /\ UNCHANGED <<core, token, prepares, birth, ok, source, procs, cancelled,
                   marker>>

(* The generation check before the spawn (for an install, before the       *)
(* probe).                                                                 *)
PreCheck(w) ==
    /\ \/ /\ born[w] = epoch
          /\ Goto(w, "PreCheck", IF kind[w] = "build" THEN "Spawn" ELSE "Globs")
       \/ /\ born[w] # epoch
          /\ Goto(w, "PreCheck", "Posted")
    /\ UNCHANGED <<core, token, prepares, birth, ok, source, procs, cancelled,
                   disk>>

(* The install probes the PKGBUILD of its variant for the package names.   *)
Globs(w) ==
    /\ \/ Goto(w, "Globs", "Spawn")
       \/ Goto(w, "Globs", "Posted")
    /\ source' = [source EXCEPT ![w] = pkgbuild[dir[w]]]
    /\ UNCHANGED <<core, token, prepares, birth, ok, procs, cancelled, disk>>

Spawn(w) ==
    /\ Goto(w, "Spawn", IF kind[w] = "build" THEN "PostCheck" ELSE "Store")
    /\ helper' = [helper EXCEPT ![w] = "alive"]
    /\ job' = [job EXCEPT ![w] = "running"]
    /\ UNCHANGED <<core, token, prepares, birth, ok, source, cancelled, disk>>

SpawnFails(w) ==
    /\ Goto(w, "Spawn", "Posted")
    /\ UNCHANGED <<core, token, prepares, birth, ok, source, procs, cancelled,
                   disk>>

(* The generation check after the spawn, builds only: the thread kills the *)
(* helper it has just started.                                             *)
PostCheck(w) ==
    /\ \/ /\ born[w] = epoch
          /\ Goto(w, "PostCheck", "Store")
          /\ UNCHANGED helper
       \/ /\ born[w] # epoch
          /\ Goto(w, "PostCheck", "Posted")
          /\ helper' = [helper EXCEPT ![w] = "killed"]
    /\ UNCHANGED <<core, token, prepares, birth, ok, source, job, cancelled,
                   disk>>

Store(w) ==
    /\ Goto(w, "Store", "Wait")
    /\ slot' = w
    /\ UNCHANGED <<core, epoch, ui, prepares, birth, ok, source, procs,
                   cancelled, disk>>

(* One poll that ends the wait: the slot is empty, or the child in it has  *)
(* exited.                                                                 *)
WaitEnds(w) ==
    /\ \/ slot = 0
       \/ slot # 0 /\ helper[slot] # "alive"
    /\ Goto(w, "Wait", "Clear")
    /\ UNCHANGED <<core, token, prepares, birth, ok, source, procs, cancelled,
                   disk>>

ClearSlot(w) ==
    /\ Goto(w, "Clear", IF kind[w] = "build" THEN "Check" ELSE "Posted")
    /\ slot' = 0
    /\ UNCHANGED <<core, epoch, ui, prepares, birth, ok, source, procs,
                   cancelled, disk>>

(* `.done-status` decides, and is removed.                                 *)
CheckMarker(w) ==
    /\ Goto(w, "Check", "Report")
    /\ ok' = IF dir[w] \in marker THEN ok \cup {w} ELSE ok
    /\ marker' = marker \ {dir[w]}
    /\ UNCHANGED <<core, token, prepares, birth, source, procs, cancelled,
                   pkgbuild>>

Report(w) ==
    /\ Goto(w, "Report", "Posted")
    /\ ok' = IF born[w] = epoch THEN ok ELSE ok \ {w}
    /\ UNCHANGED <<core, token, prepares, birth, source, procs, cancelled, disk>>

OpStep(w) ==
    \/ BuildRefresh(w)
    \/ Mutate(w)
    \/ PreCheck(w)
    \/ Globs(w)
    \/ Spawn(w)
    \/ SpawnFails(w)
    \/ PostCheck(w)
    \/ Store(w)
    \/ WaitEnds(w)
    \/ ClearSlot(w)
    \/ CheckMarker(w)
    \/ Report(w)
-------------------------------------------------------------------------------
(* The operating system.                                                   *)

(* makepkg ends well and the shell touches .done-status in the directory   *)
(* the helper was started in; pacman ends well.  A job does not depend on  *)
(* its helper: killing the helper leaves the terminal running.             *)
JobSucceeds(w) ==
    /\ job[w] = "running"
    /\ job' = [job EXCEPT ![w] = "succeeded"]
    /\ marker' = IF kind[w] = "build" THEN marker \cup {dir[w]} ELSE marker
    /\ UNCHANGED <<core, token, prepares, birth, thread, helper, cancelled,
                   pkgbuild>>

JobFails(w) ==
    /\ job[w] = "running"
    /\ job' = [job EXCEPT ![w] = "failed"]
    /\ UNCHANGED <<core, token, prepares, birth, thread, helper, cancelled, disk>>

(* The helper waits for the terminal it started, and the terminal, once    *)
(* the job has ended, for the user (`read -p 'Press enter to exit'`).      *)
HelperExits(w) ==
    /\ helper[w] = "alive"
    /\ job[w] # "running"
    /\ helper' = [helper EXCEPT ![w] = "exited"]
    /\ UNCHANGED <<core, token, prepares, birth, thread, job, cancelled, disk>>
-------------------------------------------------------------------------------
Next ==
    \/ BuildRequested
    \/ ConfigureRequested
    \/ ConfigurePrepared
    \/ \E v \in Variants : VariantPicked(v)
    \/ CancelBump
    \/ CancelTake
    \/ CloseIdle
    \/ InstallAccepted
    \/ InstallDeclined
    \/ DialogOverwritten
    \/ Restart
    \/ PrepareRefresh
    \/ \E w \in Ops :
         \/ BuildFinished(w)
         \/ ArtifactsInstalled(w)
         \/ OpStep(w)
         \/ JobSucceeds(w)
         \/ JobFails(w)
         \/ HelperExits(w)

(* Threads are scheduled, and the event loop delivers what was posted and  *)
(* finishes the handler it is in.  Nothing is assumed of the user, of      *)
(* makepkg or of the terminal.                                             *)
Fairness ==
    /\ WF_vars(CancelTake)
    /\ \A w \in Ops :
         /\ WF_vars(OpStep(w))
         /\ WF_vars(BuildFinished(w))
         /\ WF_vars(ArtifactsInstalled(w))

Spec == Init /\ [][Next]_vars /\ Fairness
-------------------------------------------------------------------------------
(* Properties.                                                             *)

(* One operation at a time, and never none when the core says one runs:    *)
(* every live thread is the one the core's state names, and a Running or   *)
(* Installing build has a thread that will still report.  The handlers of  *)
(* BuildFinished, ArtifactsInstalled and of the two answers have no guard; *)
(* a late report of a cancelled build must still never land on another     *)
(* operation's state.                                                      *)
OneOperation ==
    /\ \A v, w \in Ops : Live(v) /\ Live(w) => v = w
    /\ \A w \in Ops : Live(w) =>
          build = IF kind[w] = "build" THEN "Running" ELSE "Installing"
    /\ build \in {"Running", "Installing"} => \E w \in Ops : Live(w)

(* The install question is up only for a finished build whose answer is    *)
(* still awaited, with no thread left: a Yes starts pacman on a quiet tree *)
(* and can never answer for another build.                                 *)
QuestionMatchesBuild ==
    question => /\ build = "AwaitingInstallDecision"
                /\ \A w \in Ops : ~Live(w)

(* No helper is left behind while the program runs: a helper that is alive *)
(* is in the hands of its own thread or in the slot, where a cancel finds  *)
(* it.  Threads, cancels and the slot's overwriting stores interleave.     *)
HelperOwned ==
    \A w \in Ops : helper[w] = "alive" =>
        \/ pc[w] \in {"PostCheck", "Store", "Gone"}
        \/ pc[w] = "Wait" /\ slot = w

(* The generation token says exactly what it is for: a live operation's    *)
(* generation is stale if and only if a cancel reached the UI thread while *)
(* it was live - no cancel is forgotten, none hits a later operation.      *)
TokenIsExact ==
    \A w \in Ops : Live(w) => (w \in cancelled <=> born[w] # epoch)

(* A success is never reported twice for one makepkg: the builds that      *)
(* reported success and the markers still on disk are paid for by as many  *)
(* jobs that really succeeded, across cancels, restarts and jobs that      *)
(* outlive their helper.                                                   *)
NoDoubleSpend ==
    Cardinality(ok) + Cardinality(marker)
        <= Cardinality({w \in Ops : kind[w] = "build" /\ job[w] = "succeeded"})

(* What the user is promised: BuildContract.                               *)
Contract == INSTANCE BuildContract WITH generation <- epoch
ImplementsContract == Contract!Spec

(* If every terminal is closed in the end, every operation ends: whatever  *)
(* is cancelled, lost or interleaved, the Build button comes back to life  *)
(* or the install question was put.                                        *)
EveryTerminalCloses ==
    \A w \in Ops : (helper[w] = "alive") ~> (helper[w] # "alive")
OperationsEnd ==
    EveryTerminalCloses => (build \in {"Running", "Installing"}
                              ~> build \notin {"Running", "Installing"})

(* A cancel that finds the child in the slot ends the operation whatever   *)
(* its job or its terminal does.                                           *)
CancelOfStoredEnds ==
    \A w \in Ops : (ui = "Killing" /\ slot = w) ~> ~Live(w)
-------------------------------------------------------------------------------
(* What comments and documents say, and the code does not do.              *)

(* "a cancel that lands in either window aborts the build" (app.rs,        *)
(* build_epoch): once the UI thread has finished a cancel, no thread of a  *)
(* cancelled operation waits on a child that is still running.             *)
CancelNeverMissed ==
    \A w \in Ops :
        ~(ui = "Idle" /\ w \in cancelled /\ pc[w] = "Wait" /\ helper[w] = "alive")

(* "a stale marker must never misclassify a later failed build" (app.rs,   *)
(* build_task): a build reported as a success is one whose own makepkg     *)
(* succeeded.                                                              *)
SuccessIsItsOwn ==
    \A w \in Ops :
        kind[w] = "build" /\ pc[w] = "Posted" /\ w \in ok => job[w] = "succeeded"

(* "The globs come from the courted pkgfuncs probe on the built PKGBUILD"  *)
(* (app.rs, artifacts_task): the install probes the PKGBUILD the build it  *)
(* was asked about was made from.                                          *)
InstallsWhatWasBuilt ==
    \A w \in Ops : kind[w] = "install" /\ pc[w] = "Spawn" => source[w] = w - 1

(* "closing Configure mid-build aborts the build (and the artifact         *)
(* install)" (KNOWN_DIVERGENCES.md, D-008): when the thread of a cancelled *)
(* operation has ended, so has its job.                                    *)
CancelStopsJob ==
    \A w \in Ops : w \in cancelled /\ pc[w] = "Done" => job[w] # "running"
===============================================================================
