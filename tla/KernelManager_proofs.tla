------------------------- MODULE KernelManager_proofs -------------------------
(***************************************************************************)
(* KernelManager, for any number of threads in flight and any strictness   *)
(* of the dialogs: type correctness, the match of the core's states with   *)
(* the threads at work, the owner of the progress dialog, and the catalog  *)
(* a transaction starts from.                                              *)
(***************************************************************************)
EXTENDS KernelManager, TLAPS

(* Nothing can be selected before the first discovery has reported.        *)
NothingToSelect == catalog = "Unloaded" => selection = "empty"

(* While a transaction is at work, nothing replaces the catalog.           *)
CommitsOnLoaded == InProgress => catalog = "Loaded"

(* The install question in the dialog slot is that of the present build.   *)
QuestionIsOfBuild == dialog = "Confirm" => build = "AwaitingInstallDecision"

(* The inductive invariant.  The handlers of the threads' reports have no  *)
(* guard on the core's state, so that a report finds the state it belongs  *)
(* to has to come from these conjuncts together: a discovery that reports  *)
(* can meet no transaction at work, since one only starts from a dirty     *)
(* selection, which only a discovery that has ended can give.              *)
IInv ==
    /\ TypeOK
    /\ WorkersMatchCore
    /\ ProgressHasOwner
    /\ NothingToSelect
    /\ CommitsOnLoaded
    /\ QuestionIsOfBuild

LEMMA InvInit == Init => IInv
<1>1. Init => FlowTypes /\ WindowTypes
  <2>1. Init => scx \in BOOLEAN
    BY DEF Init
  <2>2. Init => /\ configuration = "Closed"
                /\ build = "Idle"
                /\ dialog = "Progress"
                /\ path = "none"
                /\ selection = "empty"
    BY DEF Init
  <2>3. Init => FlowTypes
    BY DEF Init, FlowTypes
  <2> QED
    BY <2>1, <2>2, <2>3 DEF WindowTypes
<1>2. Init => ThreadTypes
  <2>1. Init => current \in BOOLEAN
    BY DEF Init
  <2>2. Init => /\ worker = "none"
                /\ builder = "none"
                /\ discoveries = 1
                /\ stale = 0
                /\ probes = 0
                /\ loads = 0
                /\ saves = 0
    BY DEF Init
  <2> QED
    BY <2>1, <2>2 DEF ThreadTypes
<1>3. Init => /\ WorkersMatchCore
              /\ ProgressHasOwner
              /\ NothingToSelect
              /\ CommitsOnLoaded
              /\ QuestionIsOfBuild
  BY DEF Init, WorkersMatchCore, ProgressHasOwner, NothingToSelect, CommitsOnLoaded,
     InProgress, QuestionIsOfBuild
<1> QED
  BY <1>1, <1>2, <1>3 DEF IInv, TypeOK
-------------------------------------------------------------------------------
(* Types, by group of variables.                                           *)

LEMMA FlowTypesStep == TypeOK /\ [Next]_vars => FlowTypes'
<1> SUFFICES ASSUME TypeOK, [Next]_vars
             PROVE  FlowTypes'
  OBVIOUS
<1> USE DEF TypeOK, FlowTypes, flows
<1>1. CASE User
  BY <1>1 DEF User, KernelToggled, ExecuteRequested, ConfigureRequested,
     ScxShowRequested, CloseRequested, BuildRequested, ConfigurationClosed, PatchOp,
     PatchSourcesPicked, PathDialogOpened, PathDialogDismissed, PathDialogSubmitted,
     ScxWindowClosed, ScxApply, DialogDismissed, InstallQuestion, Dismiss
<1>2. CASE Message
  BY <1>2 DEF Message, CatalogLoaded, DiscoveryFailed, DiscoveryFinished,
     TransactionStarted, TransactionChanged, TransactionUnchanged, TransactionFailed,
     ConfigurePrepared, ConfigurePreparedStale, ConfigureFailed, BuildFinished,
     ArtifactsInstalled, ProbeEnds, ConfigLoaded, ConfigError, ConfigSaved, Dismiss
<1>3. CASE UNCHANGED vars
  BY <1>3 DEF vars
<1> QED
  BY <1>1, <1>2, <1>3 DEF Next

LEMMA WindowTypesStep == TypeOK /\ [Next]_vars => WindowTypes'
<1> SUFFICES ASSUME TypeOK, [Next]_vars
             PROVE  WindowTypes'
  OBVIOUS
<1> USE DEF TypeOK, WindowTypes, windows, overlay
<1>1. CASE User
  BY <1>1 DEF User, KernelToggled, ExecuteRequested, ConfigureRequested,
     ScxShowRequested, CloseRequested, BuildRequested, ConfigurationClosed, PatchOp,
     PatchSourcesPicked, PathDialogOpened, PathDialogDismissed, PathDialogSubmitted,
     ScxWindowClosed, ScxApply, DialogDismissed, InstallQuestion, Dismiss,
     HideProgress
<1>2. CASE Message
  BY <1>2 DEF Message, CatalogLoaded, DiscoveryFailed, DiscoveryFinished,
     TransactionStarted, TransactionChanged, TransactionUnchanged, TransactionFailed,
     ConfigurePrepared, ConfigurePreparedStale, ConfigureFailed, BuildFinished,
     ArtifactsInstalled, ProbeEnds, ConfigLoaded, ConfigError, ConfigSaved, Dismiss,
     HideProgress
<1>3. CASE UNCHANGED vars
  BY <1>3 DEF vars
<1> QED
  BY <1>1, <1>2, <1>3 DEF Next

(* The threads in flight: those of discoveries and transactions, ...       *)
LEMMA ExecutionTypesStep ==
    TypeOK /\ [Next]_vars => /\ discoveries' \in Nat
                             /\ worker' \in {"none", "starting", "working"}
                             /\ builder' \in {"none", "build", "install"}
<1> SUFFICES ASSUME TypeOK, [Next]_vars
             PROVE  /\ discoveries' \in Nat
                    /\ worker' \in {"none", "starting", "working"}
                    /\ builder' \in {"none", "build", "install"}
  OBVIOUS
<1> USE DEF TypeOK, ThreadTypes, execution
<1>1. CASE User
  BY <1>1 DEF User, KernelToggled, ExecuteRequested, ConfigureRequested,
     ScxShowRequested, CloseRequested, BuildRequested, ConfigurationClosed, PatchOp,
     PatchSourcesPicked, PathDialogOpened, PathDialogDismissed, PathDialogSubmitted,
     ScxWindowClosed, ScxApply, DialogDismissed, InstallQuestion
<1>2. CASE Message
  BY <1>2 DEF Message, CatalogLoaded, DiscoveryFailed, DiscoveryFinished,
     TransactionStarted, TransactionChanged, TransactionUnchanged, TransactionFailed,
     ConfigurePrepared, ConfigurePreparedStale, ConfigureFailed, BuildFinished,
     ArtifactsInstalled, ProbeEnds, ConfigLoaded, ConfigError, ConfigSaved
<1>3. CASE UNCHANGED vars
  BY <1>3 DEF vars
<1> QED
  BY <1>1, <1>2, <1>3 DEF Next

(* ... of prepares, ...                                                    *)
LEMMA BumpTypes ==
    ASSUME TypeOK, BumpPatchEpoch
    PROVE  current' \in BOOLEAN /\ stale' \in Nat
<1>1. current' = FALSE /\ (stale' = stale \/ stale' = stale + 1)
  BY DEF BumpPatchEpoch
<1>2. stale \in Nat
  BY DEF TypeOK, ThreadTypes
<1>3. stale' \in Nat
  BY <1>1, <1>2
<1> QED
  BY <1>1, <1>3

LEMMA PrepareTypesStep ==
    TypeOK /\ [Next]_vars => current' \in BOOLEAN /\ stale' \in Nat
<1> SUFFICES ASSUME TypeOK, [Next]_vars
             PROVE  current' \in BOOLEAN /\ stale' \in Nat
  OBVIOUS
<1>1. CASE ConfigureRequested
  <2>1. CASE current
    BY <1>1, <2>1 DEF ConfigureRequested, TypeOK, ThreadTypes
  <2>2. CASE ~current
    BY <1>1, <2>2 DEF ConfigureRequested, TypeOK, ThreadTypes
  <2> QED
    BY <2>1, <2>2
<1>2. CASE PatchOp \/ PatchSourcesPicked \/ ConfigLoaded
  BY <1>2, BumpTypes DEF PatchOp, PatchSourcesPicked, ConfigLoaded
<1>3. CASE PathDialogSubmitted
  <2>1. BumpPatchEpoch \/ UNCHANGED preparing
    BY <1>3 DEF PathDialogSubmitted
  <2> QED
    BY <2>1, BumpTypes DEF preparing, TypeOK, ThreadTypes
<1>4. CASE ConfigurePrepared
  BY <1>4 DEF ConfigurePrepared, TypeOK, ThreadTypes
<1>5. CASE ConfigurePreparedStale
  BY <1>5 DEF ConfigurePreparedStale, TypeOK, ThreadTypes
<1>6. CASE ConfigureFailed
  <2>1. CASE current' = FALSE /\ UNCHANGED stale
    BY <2>1 DEF TypeOK, ThreadTypes
  <2>2. CASE stale > 0 /\ stale' = stale - 1 /\ UNCHANGED current
    BY <2>2 DEF TypeOK, ThreadTypes
  <2> QED
    BY <1>6, <2>1, <2>2 DEF ConfigureFailed
<1>7. CASE UNCHANGED preparing
  BY <1>7 DEF preparing, TypeOK, ThreadTypes
<1>8. ConfigureRequested \/ PatchOp \/ PatchSourcesPicked \/ ConfigLoaded
      \/ PathDialogSubmitted \/ ConfigurePrepared \/ ConfigurePreparedStale
      \/ ConfigureFailed \/ UNCHANGED preparing
  BY DEF Next, vars, User, KernelToggled, ExecuteRequested, ScxShowRequested,
     CloseRequested, BuildRequested, ConfigurationClosed, PathDialogOpened,
     PathDialogDismissed, ScxWindowClosed, ScxApply, DialogDismissed,
     InstallQuestion, Message, CatalogLoaded, DiscoveryFailed, DiscoveryFinished,
     TransactionStarted, TransactionChanged, TransactionUnchanged, TransactionFailed,
     BuildFinished, ArtifactsInstalled, ProbeEnds, ConfigError, ConfigSaved
<1> QED
  BY <1>1, <1>2, <1>3, <1>4, <1>5, <1>6, <1>7, <1>8

(* ... and of the other tasks.                                             *)
LEMMA TaskTypesStep ==
    TypeOK /\ [Next]_vars => probes' \in Nat /\ loads' \in Nat /\ saves' \in Nat
<1> SUFFICES ASSUME TypeOK, [Next]_vars
             PROVE  probes' \in Nat /\ loads' \in Nat /\ saves' \in Nat
  OBVIOUS
<1> USE DEF TypeOK, ThreadTypes, tasks, StartProbe
<1>1. CASE User
  BY <1>1 DEF User, KernelToggled, ExecuteRequested, ConfigureRequested,
     ScxShowRequested, CloseRequested, BuildRequested, ConfigurationClosed, PatchOp,
     PatchSourcesPicked, PathDialogOpened, PathDialogDismissed, PathDialogSubmitted,
     ScxWindowClosed, ScxApply, DialogDismissed, InstallQuestion
<1>2. CASE Message
  BY <1>2 DEF Message, CatalogLoaded, DiscoveryFailed, DiscoveryFinished,
     TransactionStarted, TransactionChanged, TransactionUnchanged, TransactionFailed,
     ConfigurePrepared, ConfigurePreparedStale, ConfigureFailed, BuildFinished,
     ArtifactsInstalled, ProbeEnds, ConfigLoaded, ConfigError, ConfigSaved
<1>3. CASE UNCHANGED vars
  BY <1>3 DEF vars
<1> QED
  BY <1>1, <1>2, <1>3 DEF Next

LEMMA TypeStep == TypeOK /\ [Next]_vars => TypeOK'
BY FlowTypesStep, WindowTypesStep, ExecutionTypesStep, PrepareTypesStep, TaskTypesStep
DEF TypeOK, ThreadTypes
-------------------------------------------------------------------------------
(* The core's states and the threads.                                      *)

(* What the steps that touch neither the package flow nor the build leave  *)
(* alone.                                                                  *)
Aside == UNCHANGED <<catalog, transaction, build, discoveries, worker, builder>>

LEMMA WorkersStep == IInv /\ [Next]_vars => WorkersMatchCore'
<1> SUFFICES ASSUME IInv, [Next]_vars
             PROVE  WorkersMatchCore'
  OBVIOUS
<1> USE DEF IInv, WorkersMatchCore
<1>1. CASE Aside
  BY <1>1 DEF Aside
<1>2. CASE ExecuteRequested
  BY <1>2 DEF ExecuteRequested, ExecuteEnabled, windows
<1>3. CASE BuildRequested
  BY <1>3 DEF BuildRequested, InFlight, flows, execution
<1>4. CASE DialogDismissed \/ ConfigSaved
  BY <1>4 DEF DialogDismissed, ConfigSaved, Dismiss, windows, execution
<1>5. CASE InstallQuestion
  BY <1>5 DEF InstallQuestion, QuestionIsOfBuild, flows, execution, TypeOK, ThreadTypes
<1>6. CASE CatalogLoaded \/ DiscoveryFailed
  BY <1>6 DEF CatalogLoaded, DiscoveryFailed, DiscoveryFinished, windows, TypeOK,
     ThreadTypes, FlowTypes
<1>7. CASE TransactionStarted
  BY <1>7 DEF TransactionStarted, windows
<1>8. CASE TransactionChanged
  BY <1>8 DEF TransactionChanged, CommitsOnLoaded, InProgress, windows, TypeOK,
     ThreadTypes
<1>9. CASE TransactionUnchanged \/ TransactionFailed
  BY <1>9 DEF TransactionUnchanged, TransactionFailed, CommitsOnLoaded, InProgress,
     windows
<1>10. CASE BuildFinished \/ ArtifactsInstalled
  BY <1>10 DEF BuildFinished, ArtifactsInstalled, flows, execution
<1>11. Aside \/ ExecuteRequested \/ BuildRequested \/ DialogDismissed \/ ConfigSaved
       \/ InstallQuestion \/ CatalogLoaded \/ DiscoveryFailed \/ TransactionStarted
       \/ TransactionChanged \/ TransactionUnchanged \/ TransactionFailed
       \/ BuildFinished \/ ArtifactsInstalled
  BY DEF Next, vars, Aside, flows, windows, execution, User, Message, KernelToggled,
     ConfigureRequested, ScxShowRequested, CloseRequested, ConfigurationClosed,
     PatchOp, PatchSourcesPicked, PathDialogOpened, PathDialogDismissed,
     PathDialogSubmitted, ScxWindowClosed, ScxApply, ConfigurePrepared,
     ConfigurePreparedStale, ConfigureFailed, ProbeEnds, ConfigLoaded, ConfigError
<1> QED
  BY <1>1, <1>2, <1>3, <1>4, <1>5, <1>6, <1>7, <1>8, <1>9, <1>10, <1>11
-------------------------------------------------------------------------------
(* The dialog slot.                                                        *)

LEMMA ProgressStep == IInv /\ [Next]_vars => ProgressHasOwner'
<1> SUFFICES ASSUME IInv, [Next]_vars
             PROVE  ProgressHasOwner'
  OBVIOUS
<1> USE DEF IInv, ProgressHasOwner
<1>1. CASE UNCHANGED <<dialog, discoveries, configuration>>
  BY <1>1
<1>2. CASE dialog' # "Progress"
  BY <1>2
<1>3. CASE configuration' = "Preparing"
  BY <1>3
<1>4. CASE TransactionChanged
  BY <1>4 DEF TransactionChanged, TypeOK, ThreadTypes
<1>5. UNCHANGED <<dialog, discoveries, configuration>> \/ dialog' # "Progress"
      \/ configuration' = "Preparing" \/ TransactionChanged
  BY DEF Next, vars, flows, windows, overlay, execution, User, Message, KernelToggled,
     ExecuteRequested, ConfigureRequested, ScxShowRequested, CloseRequested,
     BuildRequested, ConfigurationClosed, PatchOp, PatchSourcesPicked,
     PathDialogOpened, PathDialogDismissed, PathDialogSubmitted, ScxWindowClosed,
     ScxApply, DialogDismissed, InstallQuestion, CatalogLoaded, DiscoveryFailed,
     DiscoveryFinished, TransactionStarted, TransactionUnchanged, TransactionFailed,
     ConfigurePrepared, ConfigurePreparedStale, ConfigureFailed, BuildFinished,
     ArtifactsInstalled, ProbeEnds, ConfigLoaded, ConfigError, ConfigSaved, Dismiss,
     HideProgress
<1> QED
  BY <1>1, <1>2, <1>3, <1>4, <1>5

LEMMA QuestionStep == IInv /\ [Next]_vars => QuestionIsOfBuild'
<1> SUFFICES ASSUME IInv, [Next]_vars
             PROVE  QuestionIsOfBuild'
  OBVIOUS
<1> USE DEF IInv, QuestionIsOfBuild
<1>1. CASE dialog' \in {dialog, "None", "Progress", "Error"} /\ UNCHANGED build
  BY <1>1
<1>2. CASE BuildRequested
  BY <1>2 DEF BuildRequested, InFlight, overlay
<1>3. CASE InstallQuestion
  BY <1>3 DEF InstallQuestion
<1>4. CASE BuildFinished
  BY <1>4 DEF BuildFinished, WorkersMatchCore
<1>5. CASE ArtifactsInstalled
  BY <1>5 DEF ArtifactsInstalled, WorkersMatchCore, overlay
<1>6. (dialog' \in {dialog, "None", "Progress", "Error"} /\ UNCHANGED build)
      \/ BuildRequested \/ InstallQuestion \/ BuildFinished \/ ArtifactsInstalled
  BY DEF Next, vars, windows, overlay, User, Message, KernelToggled,
     ExecuteRequested, ConfigureRequested, ScxShowRequested, CloseRequested,
     ConfigurationClosed, PatchOp, PatchSourcesPicked, PathDialogOpened,
     PathDialogDismissed, PathDialogSubmitted, ScxWindowClosed, ScxApply,
     DialogDismissed, CatalogLoaded, DiscoveryFailed, DiscoveryFinished,
     TransactionStarted, TransactionChanged, TransactionUnchanged, TransactionFailed,
     ConfigurePrepared, ConfigurePreparedStale, ConfigureFailed, ProbeEnds,
     ConfigLoaded, ConfigError, ConfigSaved, Dismiss, HideProgress
<1> QED
  BY <1>1, <1>2, <1>3, <1>4, <1>5, <1>6
-------------------------------------------------------------------------------
(* The catalog under a transaction.                                        *)

LEMMA CatalogStep == IInv /\ [Next]_vars => NothingToSelect' /\ CommitsOnLoaded'
<1> SUFFICES ASSUME IInv, [Next]_vars
             PROVE  NothingToSelect' /\ CommitsOnLoaded'
  OBVIOUS
<1> USE DEF IInv, NothingToSelect, CommitsOnLoaded, InProgress
<1>1. CASE UNCHANGED <<catalog, transaction, selection>>
  BY <1>1
<1>2. CASE KernelToggled
  BY <1>2 DEF KernelToggled, flows
<1>3. CASE ExecuteRequested
  BY <1>3 DEF ExecuteRequested, ExecuteEnabled, TypeOK, FlowTypes
<1>4. CASE DialogDismissed \/ ConfigSaved
  BY <1>4 DEF DialogDismissed, ConfigSaved, Dismiss
<1>5. CASE CatalogLoaded \/ DiscoveryFailed
  BY <1>5 DEF CatalogLoaded, DiscoveryFailed, DiscoveryFinished
<1>6. CASE TransactionStarted
  BY <1>6 DEF TransactionStarted, WorkersMatchCore
<1>7. CASE TransactionChanged \/ TransactionUnchanged \/ TransactionFailed
  BY <1>7 DEF TransactionChanged, TransactionUnchanged, TransactionFailed
<1>8. UNCHANGED <<catalog, transaction, selection>> \/ KernelToggled
      \/ ExecuteRequested \/ DialogDismissed \/ ConfigSaved \/ CatalogLoaded
      \/ DiscoveryFailed \/ TransactionStarted \/ TransactionChanged
      \/ TransactionUnchanged \/ TransactionFailed
  BY DEF Next, vars, flows, User, Message, ConfigureRequested, ScxShowRequested,
     CloseRequested, BuildRequested, ConfigurationClosed, PatchOp,
     PatchSourcesPicked, PathDialogOpened, PathDialogDismissed, PathDialogSubmitted,
     ScxWindowClosed, ScxApply, InstallQuestion, ConfigurePrepared,
     ConfigurePreparedStale, ConfigureFailed, BuildFinished, ArtifactsInstalled,
     ProbeEnds, ConfigLoaded, ConfigError
<1> QED
  BY <1>1, <1>2, <1>3, <1>4, <1>5, <1>6, <1>7, <1>8

(* A step that starts a transaction thread is the Execute button.          *)
LEMMA ExecuteStep ==
    IInv /\ [Next]_vars =>
       (worker = "none" /\ worker' # "none"
          => discoveries = 0 /\ catalog = "Loaded" /\ ~InProgress)
<1> SUFFICES ASSUME IInv, [Next]_vars, worker = "none", worker' # "none"
             PROVE  discoveries = 0 /\ catalog = "Loaded" /\ ~InProgress
  OBVIOUS
<1>1. ExecuteRequested
  BY DEF Next, vars, execution, User, Message, KernelToggled, ConfigureRequested,
     ScxShowRequested, CloseRequested, BuildRequested, ConfigurationClosed, PatchOp,
     PatchSourcesPicked, PathDialogOpened, PathDialogDismissed, PathDialogSubmitted,
     ScxWindowClosed, ScxApply, DialogDismissed, InstallQuestion, CatalogLoaded,
     DiscoveryFailed, DiscoveryFinished, TransactionStarted, TransactionChanged,
     TransactionUnchanged, TransactionFailed, ConfigurePrepared,
     ConfigurePreparedStale, ConfigureFailed, BuildFinished, ArtifactsInstalled,
     ProbeEnds, ConfigLoaded, ConfigError, ConfigSaved
<1>2. catalog = "Loaded" /\ ~InProgress
  BY <1>1 DEF ExecuteRequested, ExecuteEnabled, IInv, NothingToSelect, TypeOK,
     FlowTypes
<1> QED
  BY <1>2 DEF IInv, WorkersMatchCore
-------------------------------------------------------------------------------
LEMMA InvStep == IInv /\ [Next]_vars => IInv'
<1> SUFFICES ASSUME IInv, [Next]_vars
             PROVE  IInv'
  OBVIOUS
<1>1. TypeOK'
  BY TypeStep DEF IInv
<1> QED
  BY <1>1, WorkersStep, ProgressStep, QuestionStep, CatalogStep DEF IInv

(* Every reachable state is well typed.                                    *)
THEOREM TypeCorrect == Spec => []TypeOK
<1>1. Init => TypeOK
  BY InvInit DEF IInv
<1> QED
  BY <1>1, TypeStep, PTL DEF Spec

(* The inductive invariant holds in every reachable state.                 *)
THEOREM Invariance == Spec => []IInv
BY InvInit, InvStep, PTL DEF Spec

(* The core never loses a thread and never waits for one that is not there.*)
THEOREM WorkersHold == Spec => []WorkersMatchCore
<1>1. IInv => WorkersMatchCore
  BY DEF IInv
<1> QED
  BY <1>1, Invariance, PTL

(* A progress dialog always has someone to take it down.                   *)
THEOREM ProgressHolds == Spec => []ProgressHasOwner
<1>1. IInv => ProgressHasOwner
  BY DEF IInv
<1> QED
  BY <1>1, Invariance, PTL

(* A transaction only ever starts from a loaded catalog, no discovery in   *)
(* flight and no other transaction at work.                                *)
THEOREM ExecuteHolds == Spec => ExecuteOnFreshCatalog
<1>1. IInv /\ [Next]_vars =>
        [worker = "none" /\ worker' # "none"
           => discoveries = 0 /\ catalog = "Loaded" /\ ~InProgress]_vars
  BY ExecuteStep
<1> QED
  BY <1>1, Invariance, PTL DEF Spec, ExecuteOnFreshCatalog
===============================================================================
