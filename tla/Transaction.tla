------------------------------ MODULE Transaction ------------------------------
(***************************************************************************)
(* The package transaction, end to end: the kernel list and its boxes, the *)
(* Execute button, the worker thread of `transaction_task` step by step,   *)
(* pacman under it, the kernels-change check, the refresh, the machine's   *)
(* own life beside it (packages that others install and remove), and an    *)
(* exit of the program in the middle.                                      *)
(*                                                                         *)
(* The UI thread handles an event or a message at a time.  The worker's    *)
(* first act is to post TransactionStarted, its last to post the outcome;  *)
(* messages arrive in order.                                               *)
(*                                                                         *)
(* Bound of the model: MaxOutside changes by others.                       *)
(***************************************************************************)
EXTENDS Planning

CONSTANTS
    Start,        \* the local databases that the program may find, and others leave
    MaxOutside

ASSUME StartAssumption == Start \subseteq Local
ASSUME OutsideAssumption == MaxOutside \in Nat

VARIABLES
    local,        \* the machine's local database
    lifecycle, catalog, transaction,   \* of AppState
    dialog,       \* AppState.dialogs, without its text
    rows,         \* the rows shown (all, or none after a failed discovery)
    snapshot,     \* the local database they were made from
    checked,      \* the rows whose box is checked
    discovery,    \* the discovery thread: none, reading, or what it posted
    found,        \* the local database it has read
    pc,           \* the transaction worker
    chosen,       \* the boxes it was started with
    families,     \* the module families it has probed
    plan, todo,   \* its plan, and the commands not yet run
    verdict,      \* what it will post
    outside,      \* history: changes by others so far
    foundAt, seen,  \* history: those before `found`, before `snapshot`
    did,          \* history: this transaction has changed the database
    clean,        \* history: all its commands have succeeded so far
    lapsed        \* history: one that failed had changed it, and no discovery since

flows == <<lifecycle, catalog, transaction, dialog>>
list == <<rows, snapshot, checked, seen>>
reading == <<discovery, found, foundAt>>
work == <<pc, chosen, families, plan, todo, verdict, did, clean>>
machine == <<local, outside>>
vars == <<machine, flows, list, reading, work, lapsed>>
-------------------------------------------------------------------------------
Families == [nvidia : BOOLEAN, open : BOOLEAN]

(* Type invariant: the enumerations of the core, and records of the shape  *)
(* that the planner's types have.                                          *)
MachineTypes == local \in Local /\ outside \in Nat
FlowTypes ==
    /\ lifecycle \in {"KernelDiscovery", "Ready"}
    /\ catalog \in {"Unloaded", "Loaded", "RefreshPending"}
    /\ transaction \in {"Idle", "Planning", "Running", "Complete", "Failed"}
    /\ dialog \in {"None", "Progress", "Error"}
ListTypes ==
    /\ rows \in {{}, Catalog}
    /\ snapshot \in Local
    /\ checked \subseteq Catalog
    /\ seen \in Nat
ReadingTypes ==
    /\ discovery \in {"none", "reading", "found", "failed"}
    /\ found \in Local
    /\ foundAt \in Nat
WorkTypes ==
    /\ pc \in {"none", "probe", "plan", "run", "report"}
    /\ chosen \subseteq Catalog
    /\ families \in Families
    /\ plan \in Plans
    /\ todo \subseteq {"install", "remove"}
    /\ verdict \in {"none", "changed", "unchanged", "failed"}
    /\ did \in BOOLEAN
    /\ clean \in BOOLEAN
TypeOK ==
    /\ MachineTypes
    /\ FlowTypes
    /\ ListTypes
    /\ ReadingTypes
    /\ WorkTypes
    /\ lapsed \in BOOLEAN

(* What the worker plans with, if it reads the packages from db.           *)
Facts(db) == [modules |-> db.modules, dkms |-> db.dkms,
              nvidiaFamily |-> families.nvidia, openFamily |-> families.open]

NoFamilies == [nvidia |-> FALSE, open |-> FALSE]
IdleWorker ==
    /\ pc' = "none"
    /\ chosen' = {}
    /\ families' = NoFamilies
    /\ plan' = NothingPlanned
    /\ todo' = {}
    /\ verdict' = "none"
    /\ did' = FALSE
    /\ clean' = FALSE

Init ==
    /\ local \in Start
    /\ outside = 0
    /\ lifecycle = "KernelDiscovery"
    /\ catalog = "Unloaded"
    /\ transaction = "Idle"
    /\ dialog = "Progress"
    /\ rows = {}
    /\ snapshot = local
    /\ checked = {}
    /\ seen = 0
    /\ discovery = "reading"
    /\ found = local
    /\ foundAt = 0
    /\ pc = "none"
    /\ chosen = {}
    /\ families = NoFamilies
    /\ plan = NothingPlanned
    /\ todo = {}
    /\ verdict = "none"
    /\ did = FALSE
    /\ clean = FALSE
    /\ lapsed = FALSE
-------------------------------------------------------------------------------
(* Plausible mistakes in the steps below; not part of the specification.   *)

ExecuteRequestedAfterFailure ==
    /\ transaction \in {"Idle", "Failed"}
    /\ ChangeList(rows, snapshot, checked) # {}
    /\ catalog # "RefreshPending"
    /\ transaction' = "Planning"
    /\ pc' = "probe"
    /\ chosen' = checked
    /\ clean' = TRUE
    /\ UNCHANGED <<machine, lifecycle, catalog, dialog, list, reading, families,
                   plan, todo, verdict, did, lapsed>>

TransactionChangedKeepsCatalog ==
    /\ pc = "report" /\ verdict = "changed"
    /\ transaction = "Running"
    /\ transaction' = "Idle"
    /\ dialog' = IF dialog = "Progress" THEN "None" ELSE dialog
    /\ IdleWorker
    /\ UNCHANGED <<machine, lifecycle, catalog, list, reading, lapsed>>

PlanFromLiveBoxes ==
    /\ pc = "plan"
    /\ pc' = "run"
    /\ \E db \in {local, snapshot} :
         plan' = FromSelection(rows, snapshot, checked, Facts(db))
    /\ todo' = Commands(plan')
    /\ families' = NoFamilies
    /\ UNCHANGED <<machine, flows, list, reading, chosen, verdict, did, clean, lapsed>>
-------------------------------------------------------------------------------
(* The UI thread.                                                          *)

KernelToggled(r) ==
    /\ r \in rows
    /\ checked' = IF r \in checked THEN checked \ {r} ELSE checked \cup {r}
    /\ UNCHANGED <<machine, flows, rows, snapshot, seen, reading, work, lapsed>>

ExecuteRequested ==
    /\ transaction = "Idle"
    /\ ChangeList(rows, snapshot, checked) # {}
    /\ catalog # "RefreshPending"
    /\ transaction' = "Planning"
    /\ pc' = "probe"
    /\ chosen' = checked
    /\ clean' = TRUE
    /\ UNCHANGED <<machine, lifecycle, catalog, dialog, list, reading, families,
                   plan, todo, verdict, did, lapsed>>

TransactionStarted ==
    /\ pc # "none"
    /\ transaction = "Planning"
    /\ transaction' = "Running"
    /\ UNCHANGED <<machine, lifecycle, catalog, dialog, list, reading, work, lapsed>>

Outcome(v) ==
    /\ pc = "report" /\ verdict = v
    /\ transaction = "Running"

TransactionChanged ==
    /\ Outcome("changed")
    /\ transaction' = "Complete"
    /\ catalog' = "RefreshPending"
    /\ discovery' = "reading"
    /\ dialog' = "Progress"
    /\ IdleWorker
    /\ UNCHANGED <<machine, lifecycle, list, found, foundAt, lapsed>>

TransactionUnchanged ==
    /\ Outcome("unchanged")
    /\ transaction' = "Idle"
    /\ catalog' = "Loaded"
    /\ dialog' = IF dialog = "Progress" THEN "None" ELSE dialog
    /\ IdleWorker
    /\ UNCHANGED <<machine, lifecycle, list, reading, lapsed>>

TransactionFailed ==
    /\ Outcome("failed")
    /\ transaction' = "Failed"
    /\ dialog' = "Error"
    /\ lapsed' = (lapsed \/ did)
    /\ IdleWorker
    /\ UNCHANGED <<machine, lifecycle, catalog, list, reading>>

DialogDismissed ==
    /\ dialog = "Error"
    /\ dialog' = "None"
    /\ transaction' = IF transaction = "Failed" THEN "Idle" ELSE transaction
    /\ UNCHANGED <<machine, lifecycle, catalog, list, reading, work, lapsed>>

(* AppEvent::DiscoveryFinished, but for its dialog.                        *)
DiscoveryFinished ==
    /\ discovery' = "none"
    /\ lifecycle' = "Ready"
    /\ catalog' = "Loaded"
    /\ transaction' = IF catalog = "RefreshPending" THEN "Idle" ELSE transaction
    /\ UNCHANGED <<machine, found, foundAt, work>>

CatalogLoaded ==
    /\ discovery = "found"
    /\ DiscoveryFinished
    /\ rows' = Catalog
    /\ snapshot' = found
    /\ checked' = DefaultChecks(found)
    /\ seen' = foundAt
    /\ lapsed' = FALSE
    /\ dialog' = IF dialog = "Progress" THEN "None" ELSE dialog

DiscoveryFailed ==
    /\ discovery = "failed"
    /\ DiscoveryFinished
    /\ rows' = {}
    /\ checked' = {}
    /\ dialog' = "Error"
    /\ UNCHANGED <<snapshot, seen, lapsed>>
-------------------------------------------------------------------------------
(* The discovery thread: it opens the databases and posts the rows, or the *)
(* error.                                                                  *)
Discover ==
    /\ discovery = "reading"
    /\ \/ discovery' = "found" /\ found' = local /\ foundAt' = outside
       \/ discovery' = "failed" /\ UNCHANGED <<found, foundAt>>
    /\ UNCHANGED <<machine, flows, list, work, lapsed>>
-------------------------------------------------------------------------------
(* The transaction worker.                                                 *)

(* The two `pacman -Qqs` probes; one that fails or times out finds nothing.*)
Probe ==
    /\ pc = "probe"
    /\ pc' = "plan"
    /\ \E a \in {FALSE, FamilyInstalled(local, "nvidia")},
          b \in {FALSE, FamilyInstalled(local, "open")} :
         families' = [nvidia |-> a, open |-> b]
    /\ UNCHANGED <<machine, flows, list, reading, chosen, plan, todo, verdict,
                   did, clean, lapsed>>

(* The local database is read again, or, if it cannot be opened, what the  *)
(* discovery found is used; the rows are those of the discovery anyway.    *)
PlanCommands ==
    /\ pc = "plan"
    /\ pc' = "run"
    /\ \E db \in {local, snapshot} :
         plan' = FromSelection(rows, snapshot, chosen, Facts(db))
    /\ todo' = Commands(plan')
    /\ families' = NoFamilies
    /\ UNCHANGED <<machine, flows, list, reading, chosen, verdict, did, clean, lapsed>>

(* A command has run, with its effect or without: its exit code is only    *)
(* logged.                                                                 *)
Ran(command, effect, possible) ==
    /\ pc = "run"
    /\ todo' = todo \ {command}
    /\ \/ possible /\ local' = effect /\ did' = (did \/ local' # local)
          /\ UNCHANGED clean
       \/ clean' = FALSE /\ UNCHANGED <<local, did>>
    /\ UNCHANGED <<outside, flows, list, reading, pc, chosen, families, plan,
                   verdict, lapsed>>

RunInstall ==
    /\ "install" \in todo
    /\ Ran("install", InstallEffect(local, plan.install), TRUE)

RunRemove ==
    /\ todo = {"remove"}
    /\ Ran("remove", RemoveEffect(local, plan.remove),
           RemovePossible(local, plan.remove))

(* Whatever the worker was about, only its verdict is left.                *)
Report(v) ==
    /\ pc' = "report"
    /\ verdict' = v
    /\ plan' = NothingPlanned
    /\ todo' = {}
    /\ families' = NoFamilies
    /\ UNCHANGED <<machine, flows, list, reading, chosen, did, clean, lapsed>>

(* The check cannot be made if the database cannot be opened.              *)
CheckChange ==
    /\ pc = "run" /\ todo = {}
    /\ \/ Report(IF Changed(local, plan) THEN "changed" ELSE "unchanged")
       \/ Report("failed")

(* A panic anywhere in the worker is caught, and is a failure.             *)
WorkerPanics ==
    /\ pc \in {"probe", "plan", "run"}
    /\ Report("failed")
-------------------------------------------------------------------------------
(* The machine.                                                            *)

(* Others (a terminal, another package manager, the kernel that this       *)
(* program has built) install, upgrade and remove packages.                *)
Outside ==
    /\ outside < MaxOutside
    /\ outside' = outside + 1
    /\ local' \in Start \ {local}
    /\ UNCHANGED <<flows, list, reading, work, lapsed>>

(* The program is closed: its process ends, with its worker wherever it   *)
(* was, and is started again.  A command that outlives the program is one  *)
(* of the changes by others.                                               *)
CloseRequested ==
    /\ lifecycle' = "KernelDiscovery"
    /\ catalog' = "Unloaded"
    /\ transaction' = "Idle"
    /\ dialog' = "Progress"
    /\ rows' = {}
    /\ snapshot' = local
    /\ checked' = {}
    /\ seen' = outside
    /\ discovery' = "reading"
    /\ found' = local
    /\ foundAt' = outside
    /\ lapsed' = FALSE
    /\ IdleWorker
    /\ UNCHANGED machine
-------------------------------------------------------------------------------
Next ==
    \/ \E r \in Catalog : KernelToggled(r)
    \/ ExecuteRequested
    \/ TransactionStarted
    \/ TransactionChanged
    \/ TransactionUnchanged
    \/ TransactionFailed
    \/ DialogDismissed
    \/ CatalogLoaded
    \/ DiscoveryFailed
    \/ Discover
    \/ Probe
    \/ PlanCommands
    \/ RunInstall
    \/ RunRemove
    \/ CheckChange
    \/ WorkerPanics
    \/ Outside
    \/ CloseRequested

Spec == Init /\ [][Next]_vars
-------------------------------------------------------------------------------
(* Properties.                                                             *)

(* What the worker was asked to change.                                    *)
Requested == ChangeList(rows, snapshot, chosen)

(* Nobody else has changed the machine since the rows were read, and no    *)
(* transaction that failed has either.                                     *)
Undisturbed == outside = seen /\ ~lapsed

(* The rows show the machine: between transactions, whenever the list can  *)
(* be acted on, what it was made from is what is installed, unless others  *)
(* or a failed transaction have interfered.  The outcome of every command, *)
(* the change check and the refresh stand between the two.                 *)
RowsAreMachine ==
    Undisturbed /\ rows # {} /\ catalog = "Loaded" /\ ~did => snapshot = local

(* A transaction that has changed something never reports that nothing     *)
(* changed, though exit codes are ignored, either command may fail and the *)
(* check is an any() over both lists.                                      *)
NoMissedChange ==
    Undisturbed /\ verdict = "unchanged" => ~did

(* What the user asked for is what happens if every command succeeds: a    *)
(* kernel that was left alone stays as it was, one that was not installed  *)
(* is there with its headers, one whose own row was unchecked is gone.     *)
(* (For the rows of a kernel installed from another repository, see        *)
(* OtherRepoLeftAlone.)                                                    *)
SuccessIsIntent ==
    Undisturbed /\ clean /\ pc = "report" /\ verdict # "failed" =>
        \A k \in Kernels :
            LET touched == {r \in Requested : r[2] = k}
                own == \A r \in touched : ~Installed(snapshot, r) \/ Immutable(snapshot, r)
            IN  own =>
                  IF touched = {}
                  THEN /\ local.version[k] = snapshot.version[k]
                       /\ \A m \in Modules : <<k, m>> \in local.modules
                                              <=> <<k, m>> \in snapshot.modules
                  ELSE IF Present(snapshot, k) THEN ~Present(local, k)
                  ELSE Present(local, k) /\ <<k, "headers">> \in local.modules

(* pacman never refuses a removal because a target is not there: what is   *)
(* to be removed was read at two different times, and the install may have *)
(* run or failed in between.                                               *)
RemovalFindsTargets ==
    Undisturbed /\ pc = "run" /\ todo = {"remove"} =>
        RemovePossible(local, plan.remove)

(* In a step of the program, what changes was asked for.                   *)
Elsewhere ==
    outside' = outside =>
        \A k \in Kernels :
            \/ \E r \in Requested : r[2] = k
            \/ /\ local'.version[k] = local.version[k]
               /\ \A m \in Modules : <<k, m>> \in local'.modules
                                      <=> <<k, m>> \in local.modules

(* The program changes only kernels (and their companions) whose row was   *)
(* changed when Execute was pressed, whatever is clicked while the worker  *)
(* runs, whatever others do, and even if it is closed in the middle.       *)
OnlyWhatWasSelected == [][Elsewhere]_vars

(* The worker is what KernelManager takes it for: the step by step         *)
(* transaction implements the coarse one; the program may end at any time. *)
Manager == INSTANCE KernelManager WITH
    Modal <- FALSE, MaxPrepares <- 0, MaxTasks <- 0,
    selection <- IF rows = {} THEN "empty"
                 ELSE IF ChangeList(rows, snapshot, checked) = {} THEN "clean"
                 ELSE "dirty",
    discoveries <- IF discovery = "none" THEN 0 ELSE 1,
    worker <- IF pc = "none" THEN "none"
              ELSE IF transaction = "Planning" THEN "starting" ELSE "working",
    configuration <- "Closed", build <- "Idle", scx <- FALSE, path <- "none",
    current <- FALSE, stale <- 0, builder <- "none",
    probes <- 0, loads <- 0, saves <- 0
ImplementsManager ==
    Manager!Init /\ [][Manager!Next \/ CloseRequested]_(Manager!vars)
-------------------------------------------------------------------------------
(* What a test's comment says, and the code does not do.                   *)

(* "but checking it and executing leaves it alone" (selection.rs, of a row *)
(* installed from another repository without an update): a checked box     *)
(* never has a kernel removed.                                             *)
OtherRepoLeftAlone ==
    \A k \in plan.remove.kernels :
        \E r \in Requested : r[2] = k /\ (r \in chosen => UpdateAvailable(snapshot, r))
===============================================================================
