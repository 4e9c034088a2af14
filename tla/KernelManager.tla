----------------------------- MODULE KernelManager -----------------------------
(***************************************************************************)
(* The application: the core's AppState and its transition function, the   *)
(* UI's `update` around it, and every background thread they start, down   *)
(* to what the thread posts back.                                          *)
(*                                                                         *)
(* Four flows share one state and ONE dialog slot: discovery, the package  *)
(* transaction, the Configure window with its build, and the sched-ext     *)
(* window.  The UI thread handles one event or message at a time; a thread *)
(* only posts messages, so it is modelled by what is still in flight.  The *)
(* inside of a build or install is BuildLifecycle's: here it is a thread   *)
(* that reports some outcome.                                              *)
(*                                                                         *)
(* Modal says how strictly an overlay (a dialog) is taken to block the     *)
(* windows under it.  FALSE: not at all, since its TouchArea stops the     *)
(* pointer but not the keyboard.  TRUE: completely, except for the window  *)
(* manager's close buttons.                                                *)
(*                                                                         *)
(* Bounds of the model, which the code does not have: MaxPrepares prepare  *)
(* threads and MaxTasks other background tasks in flight.                  *)
(***************************************************************************)
EXTENDS Naturals

CONSTANTS Modal, MaxPrepares, MaxTasks

ASSUME ModalAssumption == Modal \in BOOLEAN
ASSUME BoundsAssumption == MaxPrepares \in Nat /\ MaxTasks \in Nat

VARIABLES
    lifecycle,      \* AppState.lifecycle
    catalog,        \* AppState.catalog
    transaction,    \* AppState.transaction (Complete: always changed)
    configuration,  \* AppState.configuration
    build,          \* AppState.build
    scx,            \* AppState.scx = Visible
    dialog,         \* AppState.dialogs, without its text
    path,           \* App.path_dialog: what it is for, or "none"
    selection,      \* no rows, an empty change list, or changes to execute
    discoveries,    \* discovery threads in flight
    worker,         \* the transaction thread: none, not yet announced, at work
    current,        \* the prepare thread of the latest patch_epoch is in flight
    stale,          \* prepare threads in flight with an older generation
    builder,        \* the build or install thread
    probes, loads, saves  \* other tasks: patch probes and sched-ext calls,
                          \* config files being read, config files being written

flows == <<lifecycle, catalog, transaction>>
windows == <<configuration, build, scx>>
overlay == <<dialog, path>>
execution == <<discoveries, worker>>
preparing == <<current, stale>>
tasks == <<probes, loads, saves>>
vars == <<flows, windows, overlay, selection, execution, preparing, builder, tasks>>
-------------------------------------------------------------------------------
InProgress == transaction \in {"Planning", "Running"}
InFlight == build \in {"Running", "AwaitingInstallDecision", "Installing"}
ConfigureShown == configuration \in {"Preparing", "Editing"}

(* The event loop runs; it ends with CloseRequested.                       *)
Open == lifecycle # "Shutdown"

(* What a click needs beside its window.                                   *)
Clickable == Open /\ (Modal => dialog = "None" /\ path = "none")

(* A plausible mistake in ExecuteEnabled; not part of the specification.   *)
ExecuteEnabledByListAlone == selection = "dirty"

(* AppState::execute_enabled, which the Execute button shows.              *)
ExecuteEnabled ==
    /\ transaction = "Idle"
    /\ selection = "dirty"
    /\ catalog # "RefreshPending"

(* Type invariant: the enumerations of the core, and at least zero of      *)
(* everything that is counted.                                             *)
FlowTypes ==
    /\ lifecycle \in {"KernelDiscovery", "Ready", "Shutdown"}
    /\ catalog \in {"Unloaded", "Loaded", "RefreshPending"}
    /\ transaction \in {"Idle", "Planning", "Running", "Complete", "Failed"}
WindowTypes ==
    /\ configuration \in {"Closed", "Preparing", "Editing"}
    /\ build \in {"Idle", "Running", "Failed", "AwaitingInstallDecision", "Installing"}
    /\ scx \in BOOLEAN
    /\ dialog \in {"None", "Progress", "Error", "Confirm"}
    /\ path \in {"none", "load", "save", "patch"}
    /\ selection \in {"empty", "clean", "dirty"}
ThreadTypes ==
    /\ discoveries \in Nat
    /\ worker \in {"none", "starting", "working"}
    /\ builder \in {"none", "build", "install"}
    /\ current \in BOOLEAN
    /\ stale \in Nat
    /\ probes \in Nat
    /\ loads \in Nat
    /\ saves \in Nat
TypeOK ==
    /\ FlowTypes
    /\ WindowTypes
    /\ ThreadTypes

(* App::new has run the Started event.                                     *)
Init ==
    /\ lifecycle = "KernelDiscovery"
    /\ catalog = "Unloaded"
    /\ transaction = "Idle"
    /\ configuration = "Closed"
    /\ build = "Idle"
    /\ scx = FALSE
    /\ dialog = "Progress"
    /\ path = "none"
    /\ selection = "empty"
    /\ discoveries = 1
    /\ worker = "none"
    /\ current = FALSE
    /\ stale = 0
    /\ builder = "none"
    /\ probes = 0
    /\ loads = 0
    /\ saves = 0
-------------------------------------------------------------------------------
(* What several handlers share.                                            *)

(* HideProgress closes a progress dialog, whoever opened it.               *)
HideProgress == dialog' = IF dialog = "Progress" THEN "None" ELSE dialog

(* A new patch generation: the prepare in flight, if any, becomes stale.   *)
BumpPatchEpoch ==
    /\ stale' = IF current THEN stale + 1 ELSE stale
    /\ current' = FALSE

RoomForTask == probes + loads + saves < MaxTasks
StartProbe == RoomForTask /\ probes' = probes + 1 /\ UNCHANGED <<loads, saves>>

(* DialogDismissed: whatever dialog is up goes, and a failed transaction   *)
(* counts as acknowledged.                                                 *)
Dismiss ==
    /\ dialog' = "None"
    /\ transaction' = IF transaction = "Failed" THEN "Idle" ELSE transaction

(* A plausible mistake in DiscoveryFinished; not part of the specification.*)
DiscoveryFinishedKeepsTransaction ==
    /\ Open
    /\ discoveries > 0
    /\ discoveries' = discoveries - 1
    /\ lifecycle' = "Ready"
    /\ catalog' = "Loaded"
    /\ UNCHANGED <<transaction, windows, path, worker, preparing, builder, tasks>>

(* AppEvent::DiscoveryFinished, but for its dialog.                        *)
DiscoveryFinished ==
    /\ Open
    /\ discoveries > 0
    /\ discoveries' = discoveries - 1
    /\ lifecycle' = "Ready"
    /\ catalog' = "Loaded"
    /\ transaction' = IF catalog = "RefreshPending" THEN "Idle" ELSE transaction
    /\ UNCHANGED <<windows, path, worker, preparing, builder, tasks>>
-------------------------------------------------------------------------------
(* Plausible mistakes in the steps below; not part of the specification.   *)

TransactionChangedNoRefresh ==
    /\ Open
    /\ worker = "working"
    /\ worker' = "none"
    /\ transaction' = "Complete"
    /\ catalog' = "RefreshPending"
    /\ dialog' = "Progress"
    /\ UNCHANGED <<lifecycle, windows, path, selection, discoveries, preparing,
                   builder, tasks>>

ConfigurationClosedKeepsProgress ==
    /\ Open
    /\ ConfigureShown
    /\ configuration' = "Closed"
    /\ UNCHANGED <<flows, build, scx, overlay, selection, execution, preparing,
                   builder, tasks>>

ConfigurePreparedStaleTwice ==
    /\ Open
    /\ stale' = stale - 1
    /\ UNCHANGED <<flows, windows, overlay, selection, execution, current,
                   builder, tasks>>
-------------------------------------------------------------------------------
(* The main window.                                                        *)

(* A row that cannot be toggled (immutable) leaves the list as it is.      *)
KernelToggled ==
    /\ Clickable
    /\ selection # "empty"
    /\ selection' \in {"clean", "dirty"}
    /\ UNCHANGED <<flows, windows, overlay, execution, preparing, builder, tasks>>

ExecuteRequested ==
    /\ Clickable
    /\ ExecuteEnabled
    /\ ~InProgress
    /\ transaction' = "Planning"
    /\ worker' = "starting"
    /\ UNCHANGED <<lifecycle, catalog, windows, overlay, selection, discoveries,
                   preparing, builder, tasks>>

ConfigureRequested ==
    /\ Clickable
    /\ stale + (IF current THEN 1 ELSE 0) < MaxPrepares
    /\ configuration' = "Preparing"
    /\ dialog' = "Progress"
    /\ stale' = IF current THEN stale + 1 ELSE stale
    /\ current' = TRUE
    /\ UNCHANGED <<flows, build, scx, path, selection, execution, builder, tasks>>

ScxShowRequested ==
    /\ Clickable
    /\ StartProbe
    /\ scx' = TRUE
    /\ UNCHANGED <<flows, configuration, build, overlay, selection, execution,
                   preparing, builder>>

CloseRequested ==
    /\ Clickable
    /\ lifecycle' = "Shutdown"
    /\ UNCHANGED <<catalog, transaction, windows, overlay, selection, execution,
                   preparing, builder, tasks>>
-------------------------------------------------------------------------------
(* The Configure window.                                                   *)

BuildRequested ==
    /\ Clickable
    /\ ConfigureShown
    /\ ~InFlight
    /\ build' = "Running"
    /\ builder' = "build"
    /\ UNCHANGED <<flows, configuration, scx, overlay, selection, execution,
                   preparing, tasks>>

(* Cancel, or the window manager's close button, which no dialog blocks.   *)
ConfigurationClosed ==
    /\ Open
    /\ ConfigureShown
    /\ configuration' = "Closed"
    /\ HideProgress
    /\ UNCHANGED <<flows, build, scx, path, selection, execution, preparing,
                   builder, tasks>>

(* A patch is moved or removed.                                            *)
PatchOp ==
    /\ Clickable
    /\ ConfigureShown
    /\ BumpPatchEpoch
    /\ UNCHANGED <<flows, windows, overlay, selection, execution, builder, tasks>>

(* The variant, the LTO mode or the NVIDIA module changes.                 *)
PatchSourcesPicked ==
    /\ Clickable
    /\ ConfigureShown
    /\ BumpPatchEpoch
    /\ StartProbe
    /\ UNCHANGED <<flows, windows, overlay, selection, execution, builder>>

PathDialogOpened(for) ==
    /\ Clickable
    /\ ConfigureShown
    /\ path' = for
    /\ UNCHANGED <<flows, windows, dialog, selection, execution, preparing,
                   builder, tasks>>

PathDialogDismissed ==
    /\ Open
    /\ path # "none"
    /\ path' = "none"
    /\ UNCHANGED <<flows, windows, dialog, selection, execution, preparing,
                   builder, tasks>>

PathDialogSubmitted ==
    /\ Open
    /\ path # "none"
    /\ path' = "none"
    /\ \/ path = "load" /\ RoomForTask /\ loads' = loads + 1
          /\ UNCHANGED <<preparing, probes, saves>>
       \/ path = "save" /\ RoomForTask /\ saves' = saves + 1
          /\ UNCHANGED <<preparing, probes, loads>>
       \/ path = "patch" /\ BumpPatchEpoch /\ UNCHANGED tasks
    /\ UNCHANGED <<flows, windows, dialog, selection, execution, builder>>
-------------------------------------------------------------------------------
(* The sched-ext window and the dialogs.                                   *)

ScxWindowClosed ==
    /\ Open
    /\ scx
    /\ scx' = FALSE
    /\ UNCHANGED <<flows, configuration, build, overlay, selection, execution,
                   preparing, builder, tasks>>

(* Apply and Disable; Apply refuses an unknown scheduler at once.          *)
ScxApply ==
    /\ Clickable
    /\ scx
    /\ \/ dialog' = "Error" /\ UNCHANGED tasks
       \/ StartProbe /\ UNCHANGED dialog
    /\ UNCHANGED <<flows, windows, path, selection, execution, preparing, builder>>

DialogDismissed ==
    /\ Open
    /\ dialog = "Error"
    /\ Dismiss
    /\ UNCHANGED <<lifecycle, catalog, windows, path, selection, execution,
                   preparing, builder, tasks>>

InstallQuestion ==
    /\ Open
    /\ dialog = "Confirm"
    /\ dialog' = "None"
    /\ \/ build' = "Installing" /\ builder' = "install"
       \/ build' = "Idle" /\ UNCHANGED builder
    /\ UNCHANGED <<flows, configuration, scx, path, selection, execution,
                   preparing, tasks>>
-------------------------------------------------------------------------------
(* Messages of the threads.                                                *)

(* A catalog without rows is an error of its own.                          *)
CatalogLoaded ==
    /\ DiscoveryFinished
    /\ \/ selection' = "clean" /\ HideProgress
       \/ selection' = "empty" /\ dialog' = "Error"

DiscoveryFailed ==
    /\ DiscoveryFinished
    /\ selection' = "empty"
    /\ dialog' = "Error"

TransactionStarted ==
    /\ Open
    /\ worker = "starting"
    /\ worker' = "working"
    /\ transaction' = "Running"
    /\ UNCHANGED <<lifecycle, catalog, windows, overlay, selection, discoveries,
                   preparing, builder, tasks>>

TransactionChanged ==
    /\ Open
    /\ worker = "working"
    /\ worker' = "none"
    /\ transaction' = "Complete"
    /\ catalog' = "RefreshPending"
    /\ discoveries' = discoveries + 1
    /\ dialog' = "Progress"
    /\ UNCHANGED <<lifecycle, windows, path, selection, preparing, builder, tasks>>

TransactionUnchanged ==
    /\ Open
    /\ worker = "working"
    /\ worker' = "none"
    /\ transaction' = "Idle"
    /\ catalog' = "Loaded"
    /\ HideProgress
    /\ UNCHANGED <<lifecycle, windows, path, selection, discoveries, preparing,
                   builder, tasks>>

TransactionFailed ==
    /\ Open
    /\ worker = "working"
    /\ worker' = "none"
    /\ transaction' = "Failed"
    /\ dialog' = "Error"
    /\ UNCHANGED <<lifecycle, catalog, windows, path, selection, discoveries,
                   preparing, builder, tasks>>

ConfigurePrepared ==
    /\ Open
    /\ current
    /\ current' = FALSE
    /\ configuration' = "Editing"
    /\ HideProgress
    /\ UNCHANGED <<flows, build, scx, path, selection, execution, stale, builder,
                   tasks>>

(* The result of an outdated prepare is dropped.                           *)
ConfigurePreparedStale ==
    /\ Open
    /\ stale > 0
    /\ stale' = stale - 1
    /\ UNCHANGED <<flows, windows, overlay, selection, execution, current,
                   builder, tasks>>

(* A prepare panicked; its generation is not looked at.                    *)
ConfigureFailed ==
    /\ Open
    /\ \/ current /\ current' = FALSE /\ UNCHANGED stale
       \/ stale > 0 /\ stale' = stale - 1 /\ UNCHANGED current
    /\ configuration' = "Closed"
    /\ dialog' = "Error"
    /\ UNCHANGED <<flows, build, scx, path, selection, execution, builder, tasks>>

BuildFinished ==
    /\ Open
    /\ builder = "build"
    /\ builder' = "none"
    /\ \/ build' = "AwaitingInstallDecision" /\ dialog' = "Confirm"
       \/ build' = "Failed" /\ UNCHANGED dialog
    /\ UNCHANGED <<flows, configuration, scx, path, selection, execution,
                   preparing, tasks>>

ArtifactsInstalled ==
    /\ Open
    /\ builder = "install"
    /\ builder' = "none"
    /\ build' = "Idle"
    /\ UNCHANGED <<flows, configuration, scx, overlay, selection, execution,
                   preparing, tasks>>

(* PatchesRefreshed, ScxInit, ScxApplied, ScxDisabled: an error dialog, or *)
(* nothing of the state kept here.                                         *)
ProbeEnds ==
    /\ Open
    /\ probes > 0
    /\ probes' = probes - 1
    /\ dialog' \in {dialog, "Error"}
    /\ UNCHANGED <<flows, windows, path, selection, execution, preparing, builder,
                   loads, saves>>

(* A configuration was read: perhaps an outdated one; its settings start a *)
(* new patch probe.                                                        *)
ConfigLoaded ==
    /\ Open
    /\ loads > 0
    /\ loads' = loads - 1
    /\ probes' = probes + 1
    /\ BumpPatchEpoch
    /\ dialog' \in {dialog, "Error"}
    /\ UNCHANGED <<flows, windows, path, selection, execution, builder, saves>>

ConfigError ==
    /\ Open
    /\ \/ loads > 0 /\ loads' = loads - 1 /\ UNCHANGED saves
       \/ saves > 0 /\ saves' = saves - 1 /\ UNCHANGED loads
    /\ dialog' = "Error"
    /\ UNCHANGED <<flows, windows, path, selection, execution, preparing, builder,
                   probes>>

(* A configuration was written: the task posts DialogDismissed.            *)
ConfigSaved ==
    /\ Open
    /\ saves > 0
    /\ saves' = saves - 1
    /\ Dismiss
    /\ UNCHANGED <<lifecycle, catalog, windows, path, selection, execution,
                   preparing, builder, probes, loads>>
-------------------------------------------------------------------------------
User ==
    \/ KernelToggled
    \/ ExecuteRequested
    \/ ConfigureRequested
    \/ ScxShowRequested
    \/ CloseRequested
    \/ BuildRequested
    \/ ConfigurationClosed
    \/ PatchOp
    \/ PatchSourcesPicked
    \/ \E for \in {"load", "save", "patch"} : PathDialogOpened(for)
    \/ PathDialogDismissed
    \/ PathDialogSubmitted
    \/ ScxWindowClosed
    \/ ScxApply
    \/ DialogDismissed
    \/ InstallQuestion

Message ==
    \/ CatalogLoaded
    \/ DiscoveryFailed
    \/ TransactionStarted
    \/ TransactionChanged
    \/ TransactionUnchanged
    \/ TransactionFailed
    \/ ConfigurePrepared
    \/ ConfigurePreparedStale
    \/ ConfigureFailed
    \/ BuildFinished
    \/ ArtifactsInstalled
    \/ ProbeEnds
    \/ ConfigLoaded
    \/ ConfigError
    \/ ConfigSaved

Next == User \/ Message

(* A discovery thread reads local files and databases only: it reports in  *)
(* the end, and the event loop delivers what it posted.                    *)
Fairness == WF_vars(CatalogLoaded \/ DiscoveryFailed)

Spec == Init /\ [][Next]_vars /\ Fairness
-------------------------------------------------------------------------------
(* Properties.                                                             *)

(* The core never loses a thread and never waits for one that is not       *)
(* there: each in-progress state of the four flows has exactly its thread, *)
(* and at most one discovery is ever in flight, with no transaction beside *)
(* it.  None of the message handlers checks the state it finds.            *)
WorkersMatchCore ==
    /\ transaction = "Planning" <=> worker = "starting"
    /\ transaction = "Running" <=> worker = "working"
    /\ transaction = "Complete" <=> catalog = "RefreshPending"
    /\ catalog # "Loaded" <=> discoveries = 1
    /\ catalog = "Loaded" <=> discoveries = 0
    /\ build = "Running" <=> builder = "build"
    /\ build = "Installing" <=> builder = "install"

(* The "Please wait" dialog has no button, so it must always have someone  *)
(* to take it down: a discovery in flight, or a Configure window whose     *)
(* closing hides it.  The slot is shared, overwritten and cleared by flows *)
(* that know nothing of each other.                                        *)
ProgressHasOwner ==
    dialog = "Progress" => discoveries > 0 \/ configuration = "Preparing"

(* A transaction starts only from a catalog that is loaded and that no     *)
(* running discovery is about to replace, and never beside another one.    *)
ExecuteOnFreshCatalog ==
    [][worker = "none" /\ worker' # "none"
         => discoveries = 0 /\ catalog = "Loaded" /\ ~InProgress]_vars

(* After startup and after every transaction that changed something, the   *)
(* catalog comes back and the transaction is over, whatever the user and   *)
(* the other flows do meanwhile (km: "the OK button stays disabled until   *)
(* the refresh completes").                                                *)
RefreshEnds ==
    catalog # "Loaded" ~> \/ catalog = "Loaded" /\ transaction # "Complete"
                          \/ lifecycle = "Shutdown"
-------------------------------------------------------------------------------
(* What comments say, and the code does not do.                            *)

(* "the transaction used to park in Failed forever, soft-locking Execute"  *)
(* (app.rs, DialogDismissed): a failed transaction has its error dialog    *)
(* up, whose dismissal gives the Execute button back.                      *)
FailedIsAcknowledged == transaction = "Failed" => dialog = "Error"

(* "`.done-status` present AND the 'install build packages?' question is   *)
(* up" (state.rs, AwaitingInstallDecision).                                *)
AwaitingMeansQuestionUp ==
    build = "AwaitingInstallDecision" => dialog = "Confirm"

(* "`on_configure`: QtConcurrent git refresh + progress dialog" (state.rs, *)
(* ConfigurationState::Preparing): while the window is Preparing, the      *)
(* prepare that will open it for editing is in flight.                     *)
PreparingIsPrepared == configuration = "Preparing" => current
===============================================================================
