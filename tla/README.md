# A formal model of CachyOS Kernel Manager (Rust)

TLA+ specifications of the program in `src/`, configurations that check them
with TLC on small instances, and theorems about them proved with TLAPS for
every instance. The specifications are translated from the Rust code; file and
line of every definition are in `PROJECT.json` under `map`.

## The system

The program is a desktop application with four windows (main, Configure,
sched-ext, dialogs). One thread runs the Slint event loop. Every user callback
and every message of a background thread is handled on it, one at a time, under
one mutex (`App`, `cachyos-kernel-manager-ui/src/app.rs`). A handler
(`update`) mutates UI models, runs the pure transition function of the core
(`AppState::transition`, `core/src/state.rs`) and executes the effects it
returns; an effect may start a thread (`dispatch`, `blocking`) that later posts
messages back (`deliver`). Threads share with the UI thread only a few atomics
and one slot: `patch_epoch`, `build_epoch`, `build_proc`.

| Component | State | Operations | Talks to | Must be right |
|---|---|---|---|---|
| Core state machine (`core/src/state.rs`, `update`/`run_effect`/`dispatch` in `app.rs`) | lifecycle, catalog, transaction, configuration, build, scx, one dialog slot | one per event / message | starts threads, receives their messages | core states and threads agree; a progress dialog is always taken down; Execute only on a fresh catalog |
| Build flow (`build_task`, `artifacts_task`, `cancel_build_process`) | `BuildState`, `build_epoch`, `build_proc`, marker `.done-status`, PKGBUILD | build, install, cancel, restart | terminal-helper, makepkg, pacman, git tree | one operation at a time; no cancel lost or misdirected; no success invented |
| Selection (`core/src/selection.rs`) | rows, checked flags | toggle, change list, install / removal sets | plan | a row is planned for what the user changed |
| Transaction plan and commit (`cachyos-kernel-manager-plan/src/lib.rs`, `transaction_task`) | command list, installed packages | expand, run, re-check | terminal-helper, pacman, alpm | what runs is what was selected; the catalog is refreshed if anything changed |
| Discovery (`core/src/discovery.rs`, `kernel.rs`, `alpm`) | rows | run | alpm databases | each kernel with its headers and companions |
| Configure window (`ui/src/configure_window.rs`) | options, patch list, `patch_epoch` | prepare, probe, add / move / remove a patch, load / save a config | git cache, PKGBUILD probe | the patch list belongs to the sources it was probed from |
| Build options (`core/src/options.rs`, widgets in `configure_window.rs`) | the controls, `build_options` | pick, toggle, switch the variant, render the environment | build flow, configuration file | a build gets what is shown; what is offered is the variant's |
| Git cache (`git_cache_plan` in the build crate, `execute_git_cache_plan`) | a directory tree | look, plan, remove, clone, checkout, clean, pull | git; a prepare and a build at the same time; a makepkg that outlives its build | a plan carried out with nothing beside it leaves a clean checkout; a checkout is not lost |
| sched-ext (`scx/src/*`) | window, services, loader, configuration file | init, edit, apply, disable | systemd, D-Bus, pkexec | a success is the loader's; what was applied by mode survives a reboot |
| Configuration file (`config/src/lib.rs`) | a file | load, save | file system | round trip; never half written |
| Single instance (`platform/src/single_instance.rs`) | a shared memory segment | start | other instances | decides as the original does |
| Courts (`casefile`, `xtask`) | case directories, ledger, evidence, releases | run, kill, run again, verify, release | virtual machines, oracle references | a recorded pass is of what was run |
| Oracle references (`tools/*-oracle-ref`) | - | one computation per corpus | courts | agree with the crates on every corpus |
| libalpm bindings, discovery, AUR, translations, paths, entry point, FRF | - | - | - | see below |

What is hard in it: threads and the UI thread race on the generation token and
on the process slot; killing `terminal-helper` does not stop what it started; a
marker file and a git tree outlive the program; four flows share one dialog
slot; message handlers overwrite states without looking at them; results arrive
after their window has closed. `PROJECT.json` lists each hazard with its line
and the property that covers it.

## Modules

`BuildContract` - the abstract specification of the Build button: what the user
of the Configure window may rely on. Three variables (`build`, `question`,
`generation`); a build is requested, ends once, asks one question, is answered
at most once. `Cancel` only bumps the generation: in the code, too, the
operation ends when its thread says so.

`BuildLifecycle` - the same button in detail. Per operation it has a thread
with a program counter (`pc`) over the steps of `build_task` and
`artifacts_task`, the helper process, and the job in the helper's terminal.
Global are `build_epoch` (`epoch`), `build_proc` (`slot`), the marker
`.done-status` per variant, and which build wrote each PKGBUILD (`pkgbuild`).
A cancel is two actions, `CancelBump` and `CancelTake`, because threads may run
between the bump of the token and the locking of the slot; every other handler
of the UI thread is one action. Steps of threads are split wherever the code
reads or writes something another actor writes: check before the spawn, spawn,
check after it, store, poll, clear, marker, last check, post. `GitRefresh` is
the git plan by its effect on the tree. `Restart` keeps processes and files and
forgets everything else. `cancelled` is a history variable.

`KernelManager` - the whole application: `AppState`, `update` and every thread
it starts, down to what the thread posts. A thread is represented by what is in
flight (`discoveries`, `worker`, `current`/`stale` prepares, `builder`,
`probes`, `loads`, `saves`). The build here is a thread with a result;
`BuildLifecycle`'s `OneOperation` is what justifies one `builder`. `Modal` says
how strictly an overlay blocks the windows below: its `TouchArea` stops the
pointer and not the keyboard, so the positive results are checked with
`Modal = FALSE` (everything stays clickable), the findings with
`Modal = TRUE` (a finding needs no keyboard trick).

`Planning` - from check boxes to pacman, as operators: the flags of a row, the
change list, the install and the removal set, the expansion of each row into the
kernel, its headers and its companions (`expand_install`, `expand_remove`), the
commands, and the change check. What pacman does with a command is modelled from
its use: a bare target comes from the first repository that has it, `--needed`
skips a target of the same version, `-Rsn` removes everything or, if a target is
missing, nothing.

`Transaction` - the package transaction end to end, on top of `Planning`: the
list (`rows`, and the database `snapshot` it was made from), the boxes
(`checked`), the Execute button, the worker of `transaction_task` with a program
counter (`probe`, `plan`, `run`, `report`), the machine's local database, the
discovery thread, and others who change packages at any time. Every command may
fail, any probe may find nothing, the database may fail to open at each of the
three places that open it, the worker may panic, and the program may be closed
anywhere (`CloseRequested`: its process ends and is started again; a command
that outlives it counts as a change by others, as does a kernel that the build
flow installs). `did`, `clean`, `lapsed`, `outside`, `seen`, `foundAt` are
history. What `KernelManager` abstracts to an outcome is here done step by step,
and the property `ImplementsManager` shows that it fits: `Transaction`
implements `KernelManager` under the mapping at its end (`selection` is empty,
clean or dirty by the change list; `worker` by the program counter), where
closing the program may happen at any time.

`GitCache` - the checkout of the PKGBUILDs, for any number of threads: each
looks at the directory (`Exists`, `IsGit`), plans (`git_cache_plan`) and carries
the plan out command by command; a removal or a clone that fails, a `cd` that
finds nothing, a checkout, clean or pull that fails, and a restart in the middle
of a clone are all steps. A build then writes its PKGBUILD into whatever
directory there is (one that could not be removed, one that another thread is
still cloning, ...) and starts a job there, its makepkg. The job writes a version
into the PKGBUILD and leaves the marker (`JobWrites`) until it ends by itself:
the thread that started it may be gone long before (`BuildEnds`), and so may the
program (`Restart`). `BuildLifecycle.GitRefresh` is what this looks like from
the build flow.

`VariantOptions` - operators: the widgets of the Configure window, what each
variant offers, the switch by adding and removing items
(`VariantSwitchState::switch_to`), `build_options` as the widgets give them, the
environment, and a configuration with the check of every value it is loaded with.
`Configure`, on top of it - the window's life: prepares and refreshes as threads
that read the source array under the options they were started with
(`probe[p].gen` is the `patch_epoch` of that moment), every control, the edits
of the patch list, the path dialog, loads, saves (name of the temporary file,
open, write, rename, each on its own) and a build that takes options and patches
and writes them.

`ScxDecisions` - operators: the decisions of the sched-ext window, the flags of
a mode, the two plans. `SchedExt`, on top of it - the window, the threads that
open it, and the threads of Apply and Disable, one step per call: the query of
the fighting service, its stop or disable, the loader's call, the loader's
service, the file in `/tmp`, its copy. `settled` is history: the last request
that was carried out alone and with every step done. `Boots` is what the loader
starts from the file when the machine is booted: a scheduler and a mode with the
file's flags for it, since nothing else is kept.

`Observations` - operators: from an accessibility tree to the rows, dialogs and
texts a court compares. `Comparators` - every comparator of `vm_court.rs`, as
the set of residuals it finds in the two directories. `Evidence` - the evidence
record, its verification, receipts, releases and theirs. `Courts`, on top of the
three - the runner: a side gets a fresh overlay and an emptied share, the machine
of an earlier command is stopped, its own is started, runs its script, reboots if
the court says so, and has its files copied into the case directory; the
comparison writes ledger and evidence; a release gathers them. It can be killed
between any two writes and in the middle of one; the machine that is up then goes
on (`stale`), and writes what it has yet to write until the next run stops it,
which is after that run has emptied the share. A file that cannot be removed
stays there without notice (`EmptiesOut`). Where the court is of that kind a
witness of corpus files runs instead of the machines; it writes file after file,
the oracle's first, and can be killed in between. `wrote` (what each side's own
machine has written) and `mixed` (the sides that were ever started beside a
surviving machine or on files that were left) are history.

`ScxCorpus`, `OptionsCorpus`, `AurCorpus`, `FlowCorpora` - what the corpora of
the courts hold: each rule twice, as the crates compute it (`...Model`) and as
the reference tool does (`...Reference`), translated independently from the two
sources. `MCCourts` makes cases of them, so that a court is run on each.

`MCBuildLifecycle`, `MCKernelManager`, `MCTransaction`, `MCSchedExt`,
`MCConfigure`, `MCCourts` - the instances that TLC checks. `BuildLifecycle_proofs`,
`KernelManager_proofs`, `Transaction_proofs` (with those about `Planning`),
`GitCache_proofs`, `Configure_proofs`, `SchedExt_proofs`, `Courts_proofs` -
theorems. `ListFolds` - theorems about the community modules' operators on lists,
for any operation; `Courts_proofs` takes an instance of it for each of the folds
of the normalisation.

The *plausible mistakes* in the specifications (a dropped guard, a missing
reset, a swapped order) are not part of them: each one, put in the place of the
definition it is named after, breaks the property that is there to exclude it
(`mutants` in `PROJECT.json`).

Abstractions worth knowing. A cancel with `Idle` or `Failed` build is
`CloseIdle`. `DialogOverwritten` in `BuildLifecycle` stands for every other flow
that takes the dialog slot; `KernelManager` says which those are. Contents of
texts, options and patches are left out; in `KernelManager` `selection` is no
rows, no change, or some change. `Transaction` leaves out AUR kernels, which no
discovery of the program lists, and keeps the catalog (what the repositories
offer) constant. A message handled between the request to close the
main window and the end of the loop is not modelled. Sorting and translations do
not touch `AppState` and are left out. In `Configure` a patch is a name; that the
text of a PKGBUILD carries it is `BuiltWith`. In `SchedExt` a flag is a word. A
hash, in `Evidence`, is the content itself.

## Runs

| Run | Shows |
|---|---|
| `build_safety` | safety of the build flow, `BuildLifecycle` implements `BuildContract` |
| `build_progress` | operations end if terminals close; a cancel that finds the child needs no terminal to close |
| `manager_safety` | states and threads agree, progress dialogs have an owner, Execute starts only on a fresh catalog; refreshes end |
| `transaction_safety` | the list shows the machine; no change is missed; what was selected happens, and nothing else; removals find their targets; `Transaction` implements `KernelManager` |
| `sched_ext` | a success is the loader's; a request carried out alone is there after a reboot, with its flags exactly if they are its mode's |
| `configure` | no patch of another variant gets into the list or a build; no older probe undoes an edit |
| `config_file` | options follow the widgets, what is offered is the variant's, saved and loaded is the same, the file is whole |
| `git_cache` | a plan carried out with no thread and no job beside it leaves a clean checkout; a checkout is lost only to a plan made when there was none |
| `courts` | a recorded pass is of this run's machines; evidence and releases that verify speak of what is there; every corpus agrees |
| `cancel_never_missed`, `success_is_its_own` | comments about the build flow that the code contradicts |
| `cancellation_court_passes` | a claim of a court that its two sides contradict |

Bounds. `build_safety` has two operations, which is what every property about
interference needs (an earlier operation that is late, or whose job survives,
against a later one); two variants, so that a build and its install can
disagree; three as the bound of the token, which allows a cancel of each
operation and one of the pending question; one prepare, which races with both.
Restarts are not bounded. `build_progress` drops the second variant: no
liveness property distinguishes variants. `manager_safety` has two prepares in
flight (a current and a stale one, or two stale ones) and two other tasks (one
can end while another is pending). `transaction_safety` has two kernels,
so that there is one the user has not selected, and two repositories that both
offer the first, in different versions and with different companions, so that
every combination of installed, immutable and outdated occurs; the two machines
it starts from are an outdated kernel with all its companions and one that was
installed from the other repository; others change the machine once, between any
two steps.

`sched_ext` has two calls, so that one can overlap the other or come after it,
and one late initialisation; the window is opened twice and two buttons are
pressed; one scheduler the file knows flags of and one that is picked; a file
that is missing, broken, or right. `configure` has two probes (the later can end
first), one load, one build, two patches and three moves of the epoch, and three
variants with different patches; `config_file` drops the patches and has instead
more controls, a file that is missing or holds values that not all variants
offer, and a save that can fail or be cut at each of its steps; one save at a
time, since with two `FileIsWhole` does not hold (see the known departures). `git_cache` has
two prepares, one build, and two jobs at work at most, so that one can be left
from an earlier build; the proofs have any number of each. `courts` runs one
case at a time, of each kind of court and each corpus. The modes that share their
steps share the budgets: most run twice with a kill between or in them, or once
with a kill and a release (`gui_drive` and `mutate` with two); the larger ones,
those of the windows and of the later boot courts, run twice undisturbed, and
`scx` twice with a release. The accessibility trees are at most as deep as
`TreeDepth`, and the oracle's window has three layers below its frame; either
window shows one of three lists, and the candidate's may be wrong about the
companions; copying the files of a side is shown cut short after each file with
all or none of the others copied. A machine
whose command ended has one file left to write, or one file stays where removing
them fails (`Strays`); a removal that fails counts as a kill. A corpus witness
writes two files a side, the traces of one input and those of all others
(`CorpusFiles`), since nothing else tells inputs apart. The inputs of a corpus are those in `MCCourts`: every
variant against every other, every scheduler and mode, files with and without
flags of their own. They are larger than the frozen ones of the repository
(`courts/`), and smaller than all inputs; where the sides are known to differ
outside them is listed below.

Deadlock is checked in the build runs and in `git_cache`. It is not in the runs
of `KernelManager`, `Configure` and `SchedExt`, whose users may close the
program or have no more presses, nor in `Courts`, which ends when its budget does.
In `Transaction` it is checked, but means little, since the program can always
be closed.

## Fairness

`BuildLifecycle`: weak fairness of `CancelTake` (the event loop finishes the
handler it is in), of every thread's step (the operating system schedules
threads) and of the delivery of its report (`slint::invoke_from_event_loop`
queues it and the loop is never blocked for ever by another handler). Nothing
is assumed of the user, of makepkg, pacman, or a terminal: terminal-helper waits
for a terminal that waits for Enter. `OperationsEnd` therefore has the
assumption that terminals close as its hypothesis; `CancelOfStoredEnds` does
not.

`KernelManager`: weak fairness of the discovery's report. It reads local
databases and waits for nobody.

## Proofs

`BuildLifecycle_proofs`, for any sets of variants and any bounds:
`TypeCorrect`, `OneOperationHolds`, `QuestionHolds`, `HelperHolds`,
`TokenHolds`, and `Implements` (`BuildLifecycle` implements `BuildContract`).
`OneOperation` is not inductive alone: that no second thread lives follows from
`BuildRequested`'s guard only if a live thread is always the LAST operation
(`LatestLive`), if a busy state always has one (`BusyIsLive`), if operations not
yet dispatched have no process (`Unborn`), if the question is up only when
nobody lives (`QuestionAwaits`), and if the slot only ever holds the child of
the one live thread (`SlotHeld`). `IInv` is their conjunction with the type
invariant; every action preserves it (one step per action). `TokenHolds` adds
`TokenIsExact` on top, whose hard step is that a cancel moves the token for all
that live and a dispatch gives its operation the new value. `NoDoubleSpendHolds` is
about cardinalities: what is reported and what lies on disk is never more than
what was paid, where a payment is a build whose job has succeeded (`Paid`); no
step takes a payment back, since no job has succeeded before it was started
(`JobsBegin`).

`KernelManager_proofs`, for both values of `Modal` and any bounds:
`TypeCorrect`, `WorkersHold`, `ProgressHolds`, `ExecuteHolds`.
`IInv` adds to the properties that an unloaded catalog leaves nothing to select
(`NothingToSelect`: it is what excludes a transaction before the first
discovery), that a worker runs only on a loaded catalog (`CommitsOnLoaded`), and
that the question belongs to a finished build (`QuestionIsOfBuild`).

`Transaction_proofs`, first about the planner (`Planning`), for every catalog,
machine and set of boxes: the list as it is filled asks for nothing (`DefaultsChangeNothing`); the install and the removal
share exactly the changed rows that have an update (`SharedAreUpgraded`: such a
kernel is upgraded and then removed); one NVIDIA driver at most (`OneDriver`);
a plan concerns only kernels with a changed row (`PlanConcernsChanged`), and
removes only what was found (`RemovalWasFound`). Its lemmas say what pacman's
effects keep; that a name has a first repository (`SourceOffers`) is where the
well-foundedness of the natural numbers enters.

Then about the transactions: `TypeCorrect`, `RowsAlwaysMachine`, `NoChangeIsMissed`,
`RemovalAlwaysPossible`, `OnlySelectedChanges`, `SuccessMeansIntent` and
`ImplementsTheManager` (the worker, step by step, is the one `KernelManager`
takes it for). The invariant is circular on
purpose: the list shows the machine only because the change check misses no
change (an unchanged verdict skips the refresh), and the check sees every change
only because the plan was made from a list that showed the machine. `IInv` adds
what connects the two: no discovery is in flight while a worker is (`Order`), a
reading that nobody has disturbed is the machine (`Readings`), and, while the
commands run, the plan concerns only what was requested (`Concerned`), the
removal still finds its targets (`Removable`), and whatever was changed is there
to see (`Visible`). For `SuccessMeansIntent`, `Clean` says where a worker has come
whose commands have all succeeded (before the install, between the two, after
both), and `PlanIsIntent`, about the planner and pacman alone, that both together
are what the boxes asked for.

`GitCache_proofs`, for any number of prepares, builds and jobs: `TypeCorrect`
(with it that nothing is written where there is no directory),
`CompletePlansLeaveACleanCheckout`, `CheckoutIsLostOnlyToAStalePlan`. That a plan
leaves a clean checkout is not inductive: it needs to know what each suffix of
each plan stands for. The plans are three literal tuples; `PlanSteps` says which
suffix follows which, and with it `IInv` ties the last three suffixes to what the
tree holds by then (`UnspoiltDone`), a thread with the removal ahead to having
seen no `.git` (`RemovalsSawPlain`), and a thread that nothing has failed for to
being alone: no other thread (`UnspoiltAlone`), and no makepkg, neither of a
cancelled build nor of an earlier session (`NoJobBeside`). That is what makes
every other step irrelevant to it (`BusyThreadMoves`), and it cannot be dropped:
beside a surviving makepkg a plan leaves a tree that is not clean (see the known
departures).

`Configure_proofs`, for any number of probes, loads, saves, patches and variants
of a build: `ABuildGetsWhatIsShown`, `TheOfferIsTheVariants`, `ASaveCanBeLoaded`,
`OlderProbesKeepTheList`, `OneSaveKeepsTheFileWhole`. The switch of variants
removes and adds items by counting them, so it is right only if the count of what
the box holds is the count of the variant it was filled for; `Good` says that
together with what a load checks. A probe is of an epoch no later than now, and of
an earlier one if an edit has overtaken it (`ProbesInv`). The last theorem has the
hypothesis that saves do not overlap, as the run has: with two of them it is
false. `NoProbeBringsForeignPatches` needs more than the list: a probe of the
latest generation was started for the variant the window still shows, a build
carries patches of its own variant, and what a build put in a PKGBUILD is of the
variant it was put there for (`ListInv`); the last of these matters because the
next probe reads that file. That filtering a list only removes from it is an
induction over its length (`KeptIsAList`), made with the least number for which it
would fail (`NatSetInduction`), since the library's induction theorems cannot be
instantiated (`EntriesAssumption`: the sources are sequences). `TypeCorrect` has
the picks, the boxes and the checks of a whole file among the named values
(`ValuesAssumption`; the program writes no others). `TheReferencesAgree` carries the
invariant over to the reference tools of the options courts (`OptionsCorpus`): in
every reachable state of the window a switch to any variant has the outcome the
reference gives it, and the options a build gets have the reference's assignments,
in its order.

`SchedExt_proofs`, for any number of windows and threads, any flags, files and
services to start with: `SuccessIsNoClaim`, `ARebootKeepsModes`. `SInv` follows each
thread: what its plan still holds and, for one with nobody beside it (`Loners`),
what the machine and the two files have become so far (`Alone`). That the call by
mode runs the same flags as the call by arguments is `PlanAsks`; that the new
configuration still gives the mode those flags is `SameFlags`. So what was applied
by mode is what the next boot runs; what was applied by arguments comes back with
its scheduler and mode and never with its flags. `TypeCorrect` has
the offered profiles and the files to start with among the named ones
(`LabelsAssumption`, `StartsAssumption`). `ReferenceAgrees` is about `ScxCorpus`:
the reference tool and the crate give the same answers on all eight surfaces of the
sched-ext courts for any files, flags and offered schedulers, where a run of
`MCCourts` compares a few. Its hypothesis `SectionsAreKnown`, that the files have
sections for the known schedulers only, and the filter `ReadsAlike` of the inputs
are where the two read a file differently.

`Courts_proofs`, for any cases, corpora, kernel lists, layouts and budgets:

- `DirectoriesAreTheirOwn`: the share belongs to the machine that runs only from
  the moment it has been emptied until it is copied (`OwnShare`), which is why a
  run that failed and left its files there does no harm to the next. It holds of
  the sides that were never started beside a machine that outlived its command,
  nor on files that could not be removed (`mixed`): of the others it is false.
- `VouchedPassesAgree`: evidence of a pass stands for SOME contents of the two
  directories that agreed (`PassWasFound`); it verifies and leaves no file out only
  if these are the contents that are there (`VerifiedIsSame`). Until it has
  recorded them, the runner carries the residuals of what is there
  (`RunnerCarries`).
- `ReleasesSpeakTrue`: among the hashes of a receipt is that of the evidence record
  it was made from, and the receipt says what that record says (`ReleaseInv`), so
  that one which verifies against another record is impossible; neither cutting a
  file of the release short nor writing the record again breaks that.
- `CorpusCourtsTell`, `CorporaAgree`: the court of a corpus tells exactly whether the
  crate and the reference compute the same of it, whatever was killed, run again or
  left over (`CorpusInv`: nothing but the witness writes the directories of such a
  case, and each file in them is what its side computes, or cut short), once the
  witness has left all its files whole (`Witnessed`): the court looks at the files
  that there are. So where they do compute the same, which is the
  hypothesis of `CorporaAgree` and a statement about pure operators, the court always
  passes (`EveryCorpusAgrees`). `ReferenceAgrees` and `TheReferencesAgree` prove that
  they do for sched-ext and for the options, beyond the values of the corpora.
- `PassesSeeTheirRun`: in every court that drives the machines, a run about to record
  a pass has seen both sides agree in this run. `PassInv` follows the files
  of a side from the script and each reboot into the share, from there into the
  directory, and, for one of them, to its other name (`LeftBy`): other files, those
  of earlier runs among them, may be there, but under none of the names that the
  script of the mode writes. That a comparison which then finds nothing has seen
  both sides agree is one lemma for each mode (`ClosePass` ... `BootPass`,
  `ObservationsPass`). The hardest are the failed boot, where nothing but the noted
  attempt says whether the file of the check is of this run, and the court without a
  mode of its own, which compares what the two windows show.
- `TreeSays`, `WindowsAgree`: the normaliser finds the rows of a window again, for
  any list of kernels and in every layout of the tree (a flat table with headers or
  with a count of columns, rows that are nodes), so that two windows which compare
  equal show the same list. A tree is read by folds: the nodes in the order of the
  document, the children of a role, the cells of a table four by four, the texts of a
  row into its columns. Each is followed element by element with an instance of
  `ListFolds`, whose theorems are inductions over the length of a list, made with
  the least number for which they would fail, and with the function that the
  library's definition chooses shown to exist.
- `CourtsAreTyped`: the hard part of `TypeOK` is that whatever lies in the two
  directories, in files that may be cut off or of an earlier run, every comparator
  finds finitely many residuals, each of a kind and at a place there is
  (`ComparisonsTyped`). It needs to know what a file of a name can hold (`TypeInv`),
  and of the windows, again, what they are read as (`WindowResiduals`).

The assumptions are the named ones on the constants. In `Courts`: a case has one mode
(`ModesAssumption`, true of every `comparator.toml` of the repository); the words in the
model for what a scenario prints are not names of temporary files
(`TmpPathsAssumption`); a kernel list is a list of rows that show something
(`RowListsAssumption`), the words of the original's window mean what
`normalize.rs` takes them for (`WordsAssumption`), a tree is read at least one level
deep (`TreeDepthAssumption`), and a wrong answer about companions differs from the
right one (`CompanionsAssumption`); a corpus has a file at least, and none with the
name of a window's state (`CorpusFilesAssumption`); `Strays` and the budgets are numbers
(`StraysAssumption`, `BudgetsAssumption`). Where rows are nodes of their own, the list must be
one whose columns can be told apart by what they look like (`ToldApart`): the flat
tables, which the tests have from the original, need no such thing, and the
departures below say where it fails.

Only model-checked are the three runs that find a violation and the liveness
properties (`OperationsEnd`, `CancelOfStoredEnds`, `RefreshEnds`), which are out of
the prover's reach; every invariant and every action property that a run checks is
stated by a theorem. That the references and the crates compute the same on the
corpora of AUR and of the build flow is checked on the values of the corpora.

## Findings

`PROJECT.json` quotes the texts. In short: a cancel between the check after the
spawn and the store of the child kills nothing; a marker of an earlier job
counts as the success of a later build; the court of the cancellation claims
that two traces agree, of which one was corrected and the other was not.

### Known departures

Found while modelling, and not among the runs. Those with a definition in a
module are found violated when its name is put into the configuration of that
module's run as an `INVARIANT` (`AlwaysOwnWitness` in that of `courts`; for `KernelManager` with `Modal = TRUE`, which
asks for no keyboard trick; `DisableKeepsMode` as a `PROPERTY`, without the
symmetry).

Build flow and windows:

- An install is built from whatever variant is selected when the question is
  answered, or from a PKGBUILD that a prepare has reset (`app.rs:2439`;
  `InstallsWhatWasBuilt` in `BuildLifecycle`).
- A cancel ends the helper and not its makepkg (`app.rs:3209`, against
  `KNOWN_DIVERGENCES.md:66-71`; `CancelStopsJob`).
- The install question replaces the error of a failed transaction, which then
  stays `Failed` and keeps Execute disabled (`app.rs:2764`, against 2801-2805;
  `FailedIsAcknowledged` in `KernelManager`); and any error replaces the install
  question, after which the build awaits an answer to a question that is gone
  (`app.rs:2774`; `AwaitingMeansQuestionUp`).
- A patch edit drops the prepare in flight and starts none: the window stays
  *Preparing* (`app.rs:2730`; `PreparingIsPrepared`).
- Checking the box of a kernel that is installed from another repository plans
  its removal (`selection.rs:91`, against the comment of its test, 176-177;
  `OtherRepoLeftAlone` in `Transaction`).
- A build that starts before the probe of its variant has ended has none of the
  variant's patches (`BuildHasItsPatches` in `Configure`).
- A loaded configuration can check zfs for the rt variant, which the switch to rt
  unchecks (`RtHasNoZfs` in `Configure`).
- Two saves at once may pick the same temporary name: it is looked for and not
  reserved (`config/src/lib.rs:97`, "ensure uniqueness even within the same
  process"). The one then renames what the other has opened and not yet written,
  and the configuration is cut short until it has been (`FileIsWhole` with two
  threads in `Saves` and `MaxSaves = 2`).

sched-ext:

- A scheduler of the file that the loader does not support is what Apply acts on,
  while the box shows the first entry (`DisplayedIsSelected` in `SchedExt`).
- A Disable after an Apply writes back the configuration read when the window was
  opened, so the mode just applied is lost (`DisableKeepsMode`).
- Flags typed by hand are passed to the loader and kept nowhere: Apply writes the
  scheduler and the mode (`apply.rs:159-168`), so that the next boot runs the mode's
  flags (`FlagsSurviveReboot`).
- Two threads share `/tmp/scx_loader.toml`; the label of what runs is never
  refreshed.

Git cache: a clone that was cut off leaves a `.git` without a tree, and no later
plan clones again (checkout and clean fail, and the build goes on to a PKGBUILD
it cannot read). A plan whose removal or clone has failed, or that another thread
interferes with, is followed by the build all the same, which writes its PKGBUILD
into whatever directory there is (`app.rs:2333-2346`); and the makepkg of a
cancelled build or of an earlier session (`app.rs:3203-3212`) writes into the tree
after the clean, so that the next build starts with its marker or its version
(`CompleteIsClean` without its condition `spoilt`).

Courts, comparators, evidence:

- A machine that outlived its command is stopped only after the share was emptied,
  and that the share could not be emptied is not looked at (`main.rs:804-811`;
  `vm-ctl.sh:73-77` knows such machines): its files, or those that were left, are
  copied into the side's directory (`AlwaysOwnWitness` in `Courts`). They make no
  pass, since the scripts write every file that is compared again.
- Both directories of a case missing compare equal: PASS (`casefile/src/lib.rs:242`).
- A plain run that fails writes its residuals and leaves the evidence of an earlier
  pass, which a release then records; `run --all` overwrites the ledger of
  machine cases.
- `verify_release` promises the receipts' hashes and checks artifacts and the root
  hash; a release cut while it is written keeps an old `COURTS.json` under a new
  manifest; collecting does not verify the evidence.
- The directories of a case are never cleared; files only the candidate has are
  not noticed by the comparisons of boot and packaging, and two residuals without
  a list of packages compare equal.
- The close-transaction court compares the state captured before the program
  is started (`src/vm/in-vm/candidate-close-transaction.sh:48`), not the one
  after it (line 105), against the comment at `vm_court.rs:357-365`.
- A row of the accessibility tree that cannot be parsed is guessed, not reported
  (`normalize.rs:113-116` says the opposite). In rows that are nodes of their own the
  columns are guessed, too: a kernel of a repository such as `cachyos-v3` has a digit
  and a dash in its name, which makes it look like a version and change places with
  it (`normalize.rs:418-428`).

Where crates and references differ outside the corpora: a file without
`default_mode`; an unknown or empty scheduler with a section of bpfland in the
file; `PowerSave` and `LowLatency` where a label is expected; AUR selections with
the feature off; unknown variants in the switch and in the build flow.

## Not modelled

- libalpm's bindings and the parser of `pacman.conf`: a foreign-function layer and
  a text format; their results are inputs of the models.
- How discovery pairs a kernel with its headers and companions: string matching
  over the catalog; `Companions` is an input of `Planning`.
- The text of a PKGBUILD and of the TOML files, of arguments, and of the
  translations: formats without state.
- The reference tools that render texts and tables (config, windows, strings,
  i18n, artifact names), the FRF wrapper and the entry point.
- In `GitCache`: that removing by path (`RemoveNonGitRepo`) may race with a clone
  file by file; a removal that does not succeed leaves a directory without `.git`.
- In the courts: the guest scripts by what they leave, not by their commands, and
  the `fixture` directory of an evidence record, which both sides share.

What is left for later: the pairing of kernels with their packages as a module of
its own, and a proof that the corpora of AUR and of the build flow agree beyond the
values in `MCCourts`.
