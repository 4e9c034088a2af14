-------------------------------- MODULE SchedExt --------------------------------
(***************************************************************************)
(* The sched-ext window: opening it, editing it, and the threads that      *)
(* apply or disable a scheduler, step by step.                             *)
(*                                                                         *)
(* Each Show starts a thread that reads the configuration file and asks    *)
(* the loader, and posts the window's new contents when it is done.  Apply *)
(* and Disable start a thread on what the window holds at that moment;     *)
(* nothing keeps a second one from starting while the first is at work.    *)
(* Such a thread deals with the service that stands in the way, calls the  *)
(* loader, enables its service, writes the configuration to one file in    *)
(* /tmp and has it copied to its place.  Every one of these may fail; only *)
(* the loader's answer decides what is reported.                           *)
(*                                                                         *)
(* External, by how it is used here: systemd's two services, the loader    *)
(* and pkexec.  Bounds of the model, which the code does not have: Inits   *)
(* and Calls, the threads at work at the same time; Shows and Presses, how *)
(* often the window is opened and a button of it is pressed; Texts, the    *)
(* flags the user may type; Picks and Labels, what is chosen in the two    *)
(* boxes.                                                                  *)
(***************************************************************************)
EXTENDS ScxDecisions, FiniteSets

CONSTANTS Inits, Calls, Shows, Presses,
          Supported, Picks, Labels, Texts, Starts, Modal

ASSUME PicksAssumption == Picks \subseteq SupportedSched
ASSUME LabelsAssumption == Labels \subseteq ProfileItems
ASSUME ModalAssumption == Modal \in BOOLEAN
ASSUME StartsAssumption ==
    \A start \in Starts :
        LET m == start.machine
            f == start.file
        IN  /\ m = [scxEnabled |-> m.scxEnabled, scxActive |-> m.scxActive,
                    loaderEnabled |-> m.loaderEnabled, running |-> m.running]
            /\ m.scxEnabled \in BOOLEAN /\ m.scxActive \in BOOLEAN
            /\ m.loaderEnabled \in BOOLEAN
            /\ f.kind = "config" =>
                /\ f = File(f.config)
                /\ f.config = [default_sched |-> f.config.default_sched,
                               default_mode |-> f.config.default_mode,
                               scheds |-> f.config.scheds]
                /\ f.config.default_mode \in SchedMode \cup {None}
ASSUME BoundsAssumption == {Shows, Presses} \subseteq Nat

VARIABLES
    open,       \* AppState.scx = Visible
    window,     \* App.scx: the window's contents, or Closed
    dialog,     \* "error" if this window put one up
    init,       \* the threads of Show: idle, or what they have read
    call,       \* the threads of Apply and Disable
    machine,    \* the two services and the scheduler the loader runs
    file,       \* the configuration file
    tmp,        \* /tmp/scx_loader.toml
    settled,    \* the request last carried out in full, with nothing between
    left        \* how often the user may still show and press

ui == <<open, window, dialog>>
disk == <<file, tmp>>
vars == <<ui, init, call, machine, disk, settled, left>>

Closed == Empty(DefaultConfig)
Nothing == [op |-> None]
Stopped == [kind |-> None]
IdleInit == [pc |-> "idle"]
NoPlan == [service |-> None, call |-> Stopped, enableLoader |-> FALSE]
IdleCall == [pc |-> "idle", request |-> Nothing, plan |-> NoPlan,
             ok |-> FALSE, alone |-> FALSE, smooth |-> FALSE]
Idle == {c \in Calls : call[c].pc = "idle"}

(* A thread's place, its request, what is left of its plan and what has    *)
(* become of it; it is alone if no other has run beside it, and smooth if  *)
(* besides no step has failed.                                             *)
Started(request) ==
    [pc |-> "probe", request |-> request, plan |-> NoPlan, ok |-> FALSE,
     alone |-> Idle = Calls, smooth |-> Idle = Calls]

(* What may be done in the window: it is shown, its widgets are enabled,   *)
(* and, if dialogs block what is under them, none is up.                   *)
Usable == open /\ window.enabled /\ (Modal => dialog = None)

Init ==
    /\ open = FALSE
    /\ window = Closed
    /\ dialog = None
    /\ init = [i \in Inits |-> IdleInit]
    /\ call = [c \in Calls |-> IdleCall]
    /\ \E start \in Starts : machine = start.machine /\ file = start.file
    /\ tmp = Absent
    /\ settled = Nothing
    /\ left = [shows |-> Shows, presses |-> Presses]
-------------------------------------------------------------------------------
(* The window.                                                             *)

(* The button shows the window, always, and starts reading.                *)
Show(i) ==
    /\ Modal => dialog = None
    /\ init[i].pc = "idle"
    /\ open' = TRUE
    /\ init' = [init EXCEPT ![i] = [pc |-> "reading"]]
    /\ left.shows > 0
    /\ left' = [left EXCEPT !.shows = @ - 1]
    /\ UNCHANGED <<window, dialog, call, machine, disk, settled>>

Close ==
    /\ open
    /\ open' = FALSE
    /\ UNCHANGED <<window, dialog, init, call, machine, disk, settled, left>>

DialogDismissed ==
    /\ dialog # None
    /\ dialog' = None
    /\ UNCHANGED <<open, window, init, call, machine, disk, settled, left>>

SchedulerPicked ==
    /\ Usable
    /\ \E s \in Picks \cap ToSet(window.schedulers) : window' = OnSchedChanged(window, s)
    /\ UNCHANGED <<open, dialog, init, call, machine, disk, settled, left>>

ProfilePicked ==
    /\ Usable
    /\ window.profileVisible
    /\ \E l \in Labels : window' = OnProfileChanged(window, l)
    /\ UNCHANGED <<open, dialog, init, call, machine, disk, settled, left>>

FlagsChanged ==
    /\ Usable
    /\ \E t \in Texts : window' = [window EXCEPT !.flags = t]
    /\ UNCHANGED <<open, dialog, init, call, machine, disk, settled, left>>

(* A new thread; the others are no longer alone.                           *)
Start(c, request) ==
    /\ call' = [d \in Calls |->
                    IF d = c THEN Started(request)
                    ELSE IF call[d].pc = "idle" THEN call[d]
                    ELSE [call[d] EXCEPT !.alone = FALSE, !.smooth = FALSE]]
    /\ settled' = Nothing
    /\ left.presses > 0
    /\ left' = [left EXCEPT !.presses = @ - 1]
    /\ UNCHANGED <<ui, init, machine, disk>>

(* Apply and Disable take the configuration read when the window opened.   *)
ApplyRequest ==
    [op |-> "apply", sched |-> window.scheduler, mode |-> ModeFromLabel(window.profile),
     flags |-> Trim(window.flags), config |-> window.config]
DisableRequest == [op |-> "disable", config |-> window.config]

ApplyPressed(c) ==
    /\ Usable
    /\ call[c].pc = "idle"
    /\ Parses(window.scheduler)
    /\ Start(c, ApplyRequest)

(* A scheduler nobody knows is refused before anything is started.         *)
ApplyRefused ==
    /\ Usable
    /\ ~Parses(window.scheduler)
    /\ dialog' = "error"
    /\ UNCHANGED <<open, window, init, call, machine, disk, settled, left>>

DisablePressed(c) ==
    /\ Usable
    /\ call[c].pc = "idle"
    /\ Start(c, DisableRequest)
-------------------------------------------------------------------------------
(* The thread of Show reads the file and, unless it is broken, asks the    *)
(* loader for its schedulers.                                              *)
InitTask(i) ==
    /\ init[i].pc = "reading"
    /\ \E failed \in BOOLEAN :
        /\ InitFails(file) => failed
        /\ init' = [init EXCEPT ![i] =
                [pc |-> "done",
                 window |-> WindowInit(file, [failed |-> failed, names |-> Supported])]]
    /\ UNCHANGED <<ui, call, machine, disk, settled, left>>

(* ScxInit: whatever the window held is replaced.                          *)
ScxInit(i) ==
    /\ init[i].pc = "done"
    /\ window' = [init[i].window EXCEPT !.critical = None]
    /\ dialog' = IF init[i].window.critical = None THEN dialog ELSE "error"
    /\ init' = [init EXCEPT ![i] = IdleInit]
    /\ UNCHANGED <<open, call, machine, disk, settled, left>>

InitPanics(i) ==
    /\ init[i].pc = "reading"
    /\ dialog' = "error"
    /\ init' = [init EXCEPT ![i] = IdleInit]
    /\ UNCHANGED <<open, window, call, machine, disk, settled, left>>
-------------------------------------------------------------------------------
(* The thread of Apply and Disable.                                        *)

(* What is left of a plan on the way to a step.                            *)
Remaining(plan, to) ==
    IF to = "report" THEN NoPlan
    ELSE [plan EXCEPT !.service = None,
                      !.call = IF to = "switch" THEN @ ELSE Stopped,
                      !.enableLoader = @ /\ to # "write"]

(* A step of thread c; the thread is smooth until one does not come off.   *)
Moved(thread, to, failed) ==
    [thread EXCEPT !.pc = to, !.smooth = @ /\ ~failed, !.plan = Remaining(@, to)]
Step(c, to, failed) == call' = [call EXCEPT ![c] = Moved(@, to, failed)]

(* The services are asked, for an Apply, and the plan is made.             *)
PlanOf(r) ==
    IF r.op = "disable" THEN DisablePlan(r.config)
    ELSE ApplyPlan([sched |-> r.sched, mode |-> r.mode, flags |-> r.flags,
                    config |-> r.config, scxEnabled |-> machine.scxEnabled,
                    scxActive |-> machine.scxActive,
                    loaderEnabled |-> machine.loaderEnabled])
Plan(c) ==
    /\ call[c].pc = "probe"
    /\ call' = [call EXCEPT ![c].pc = "service", ![c].plan = PlanOf(call[c].request)]
    /\ UNCHANGED <<ui, init, machine, disk, settled, left>>

(* A plausible mistake in CallFails; not part of the specification.        *)
CallFailsClaimingSuccess(c) ==
    /\ call[c].pc = "probe"
    /\ call' = [call EXCEPT ![c].pc = "report", ![c].smooth = FALSE, ![c].ok = TRUE]
    /\ UNCHANGED <<ui, init, machine, disk, settled, left>>

(* Without the system bus nothing of the plan is done; a thread that       *)
(* panics before that is reported as failed as well.                       *)
CallFails(c) ==
    /\ call[c].pc = "probe"
    /\ Step(c, "report", TRUE)
    /\ UNCHANGED <<ui, init, machine, disk, settled, left>>

(* pkexec systemctl: disable --now also stops the service.                 *)
RunServiceOp(op) ==
    machine' = CASE op = "disable scx" ->
                        [machine EXCEPT !.scxEnabled = FALSE, !.scxActive = FALSE]
                 [] op = "stop scx" -> [machine EXCEPT !.scxActive = FALSE]
                 [] op = "enable loader" -> [machine EXCEPT !.loaderEnabled = TRUE]

(* A service operation of the plan, if it has one; its exit is not looked  *)
(* at.                                                                     *)
ServiceStep(c, wanted, op, to) ==
    \/ ~wanted /\ Step(c, to, FALSE) /\ UNCHANGED machine
    \/ wanted /\ Step(c, to, FALSE) /\ RunServiceOp(op)
    \/ wanted /\ Step(c, to, TRUE) /\ UNCHANGED machine

ResolveConflict(c) ==
    /\ call[c].pc = "service"
    /\ ServiceStep(c, call[c].plan.service # None, call[c].plan.service, "switch")
    /\ UNCHANGED <<ui, init, disk, settled, left>>

(* The D-Bus call.  Its answer is what the thread will report.             *)
Running(dbCall) == IF dbCall.kind = "stop" THEN Stopped ELSE dbCall
CallLoader(c) ==
    /\ call[c].pc = "switch"
    /\ \E failed \in BOOLEAN :
        /\ machine' = IF failed THEN machine
                      ELSE [machine EXCEPT !.running = Running(call[c].plan.call)]
        /\ call' = [call EXCEPT ![c] = [Moved(@, "loader", failed) EXCEPT !.ok = ~failed]]
    /\ UNCHANGED <<ui, init, disk, settled, left>>

EnableLoader(c) ==
    /\ call[c].pc = "loader"
    /\ ServiceStep(c, call[c].plan.enableLoader, "enable loader", "write")
    /\ UNCHANGED <<ui, init, disk, settled, left>>

(* The new configuration, into one file in /tmp for all threads.           *)
WriteTmp(c) ==
    /\ call[c].pc = "write"
    /\ \E failed \in BOOLEAN :
        /\ tmp' = IF failed THEN tmp ELSE File(call[c].plan.config)
        /\ Step(c, IF failed THEN "report" ELSE "copy", failed)
    /\ UNCHANGED <<ui, init, machine, file, settled, left>>

(* A thread copies what is in that file now; what stays there is not       *)
(* looked at again without being written first.                            *)
CopyTmp(c) ==
    /\ call[c].pc = "copy"
    /\ \E failed \in BOOLEAN :
        /\ file' = IF failed THEN file ELSE tmp
        /\ Step(c, "report", failed)
    /\ tmp' = IF \E d \in Calls \ {c} : call[d].pc = "copy" THEN tmp ELSE Absent
    /\ UNCHANGED <<ui, init, machine, settled, left>>

(* ScxApplied, ScxDisabled: a failure is put up if there is a window.      *)
Reported(c) ==
    /\ call[c].pc = "report"
    /\ dialog' = IF call[c].ok THEN dialog ELSE "error"
    /\ call' = [call EXCEPT ![c] = IdleCall]
    /\ settled' = IF call[c].ok /\ call[c].alone /\ call[c].smooth
                  THEN [call[c].request EXCEPT !.config = Nothing] ELSE settled
    /\ UNCHANGED <<open, window, init, machine, disk, left>>
-------------------------------------------------------------------------------
(* The program ends at any moment, its threads with it, and is started     *)
(* again.                                                                  *)
Restart ==
    /\ open' = FALSE
    /\ window' = Closed
    /\ dialog' = None
    /\ init' = [i \in Inits |-> IdleInit]
    /\ call' = [c \in Calls |-> IdleCall]
    /\ UNCHANGED <<machine, disk, settled, left>>

Next ==
    \/ Close \/ DialogDismissed \/ SchedulerPicked \/ ProfilePicked \/ FlagsChanged
    \/ ApplyRefused \/ Restart
    \/ \E i \in Inits : Show(i) \/ InitTask(i) \/ ScxInit(i) \/ InitPanics(i)
    \/ \E c \in Calls :
        \/ ApplyPressed(c) \/ DisablePressed(c) \/ Plan(c) \/ CallFails(c)
        \/ ResolveConflict(c) \/ CallLoader(c) \/ EnableLoader(c) \/ WriteTmp(c)
        \/ CopyTmp(c) \/ Reported(c)

Spec == Init /\ [][Next]_vars
-------------------------------------------------------------------------------
(* The loader runs what the request is for: by mode, it takes the mode's   *)
(* flags from the configuration's table.                                   *)
Args(run, config) ==
    IF run.kind = "mode" THEN FlagsForMode(config, run.sched, run.mode) ELSE run.args
Runs(request, config) ==
    IF request.op = "disable" THEN machine.running = Stopped
    ELSE /\ machine.running # Stopped
         /\ machine.running.sched = request.sched
         /\ Args(machine.running, config) = SchedArgs(request.flags)

(* Type invariant.                                                         *)
TypeOK ==
    /\ open \in BOOLEAN
    /\ window.enabled \in BOOLEAN
    /\ window.profile \in ProfileItems
    /\ dialog \in {None, "error"}
    /\ \A i \in Inits : init[i].pc \in {"idle", "reading", "done"}
    /\ \A c \in Calls :
        /\ call[c].pc \in {"idle", "probe", "service", "switch", "loader",
                           "write", "copy", "report"}
        /\ call[c].request.op \in {None, "apply", "disable"}
        /\ {call[c].ok, call[c].alone, call[c].smooth} \subseteq BOOLEAN
    /\ {machine.scxEnabled, machine.scxActive, machine.loaderEnabled} \subseteq BOOLEAN
    /\ settled.op \in {None, "apply", "disable"}

(* A thread that is about to report success has made the loader run what   *)
(* the window asked for, with the flags that stood in it (or nothing, for  *)
(* a Disable), unless another thread interfered: "fail-CLOSED" of a panic, *)
(* and the choice between the two switch calls, which must not change what *)
(* runs.                                                                   *)
SuccessIsTheLoaders ==
    \A c \in Calls : call[c].ok /\ call[c].alone => Runs(call[c].request, call[c].request.config)

(* What the loader starts at boot: it has the file and nothing else, so    *)
(* the flags are those the file has for the mode.                          *)
Boots(config) ==
    [sched |-> config.default_sched,
     args |-> FlagsForMode(config, config.default_sched, config.default_mode)]

(* Once a request has been carried out with every step done and no other   *)
(* thread beside it, a reboot brings the scheduler back that runs now: the *)
(* file names it and its mode, its service is enabled, and the service     *)
(* that would fight it is gone.  It comes back with the flags it runs with *)
(* if the call was by mode, and only then: flags typed by hand are passed  *)
(* to the loader and kept nowhere, so the boot runs those of the mode.     *)
(* After a Disable, the file names no scheduler.                           *)
RebootKeepsModes ==
    settled.op # None =>
        /\ file.kind = "config"
        /\ Runs(settled, file.config)
        /\ settled.op = "disable" => file.config.default_sched = None
        /\ settled.op = "apply" =>
            /\ machine.loaderEnabled /\ ~machine.scxEnabled /\ ~machine.scxActive
            /\ Boots(file.config).sched = settled.sched
            /\ file.config.default_mode = settled.mode
            /\ (Boots(file.config).args = SchedArgs(settled.flags))
                <=> machine.running.kind = "mode"

-------------------------------------------------------------------------------
(* What one would expect, and the code does not do; see the README.        *)

(* The scheduler an enabled window shows as selected is the one Apply acts *)
(* on.                                                                     *)
DisplayedIsSelected ==
    open /\ window.enabled => DisplayedScheduler(window) = window.scheduler

(* A reboot brings back what was applied, with its flags.                  *)
FlagsSurviveReboot ==
    settled.op = "apply" => Boots(file.config).args = SchedArgs(settled.flags)

(* A Disable leaves the default mode of the file as it is.                 *)
DisableKeepsMode ==
    [][\A c \in Calls :
        CopyTmp(c) /\ call[c].request.op = "disable" /\ file.kind = "config" =>
            file'.config.default_mode = file.config.default_mode]_vars
===============================================================================
