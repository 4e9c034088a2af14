---------------------------- MODULE SchedExt_proofs ----------------------------
(***************************************************************************)
(* Proofs about SchedExt, for any number of threads, any configuration and *)
(* any texts: what a success reported to the user stands for, what a       *)
(* reboot brings back of it, and that the reference of the courts agrees.  *)
(***************************************************************************)
EXTENDS SchedExt, TLAPS

(* Records by their fields, so that an EXCEPT finds the one it changes.    *)
ConfigShape(k) ==
    k = [default_sched |-> k.default_sched, default_mode |-> k.default_mode,
         scheds |-> k.scheds]
FileShape(f) == f.kind = "config" => f = File(f.config) /\ ConfigShape(f.config)
MachineShape(m) ==
    /\ m = [scxEnabled |-> m.scxEnabled, scxActive |-> m.scxActive,
            loaderEnabled |-> m.loaderEnabled, running |-> m.running]
    /\ m.scxEnabled \in BOOLEAN /\ m.scxActive \in BOOLEAN /\ m.loaderEnabled \in BOOLEAN
HasConfig(w) == "config" \in DOMAIN w /\ ConfigShape(w.config)
RequestShape(r) ==
    /\ \/ r = [op |-> "apply", sched |-> r.sched, mode |-> r.mode, flags |-> r.flags,
               config |-> r.config]
       \/ r = [op |-> "disable", config |-> r.config]
    /\ ConfigShape(r.config)
PlanShape(p) ==
    p = [service |-> p.service, call |-> p.call, enableLoader |-> p.enableLoader,
         config |-> p.config]
ThreadShape(t) ==
    /\ t = [pc |-> t.pc, request |-> t.request, plan |-> t.plan, ok |-> t.ok,
            alone |-> t.alone, smooth |-> t.smooth]
    /\ t.ok \in BOOLEAN /\ t.alone \in BOOLEAN /\ t.smooth \in BOOLEAN

(* What is in the way of an Apply on machine m, and what a request asks    *)
(* the loader to run and the file to hold.                                 *)
InTheWay(m) ==
    IF m.scxEnabled THEN "disable scx" ELSE IF m.scxActive THEN "stop scx" ELSE None
Asks(request, config, run) ==
    IF request.op = "disable" THEN run = Stopped
    ELSE /\ run # Stopped
         /\ run.sched = request.sched
         /\ Args(run, config) = SchedArgs(request.flags)
         /\ run.kind = "mode" <=>
                SchedArgs(request.flags) = FlagsForMode(config, request.sched, request.mode)
NewConfig(r) ==
    IF r.op = "disable" THEN [r.config EXCEPT !.default_sched = None]
    ELSE [r.config EXCEPT !.default_sched = r.sched, !.default_mode = r.mode]

LEMMA RunsIsAsks ==
    \A request, config : Asks(request, config, machine.running) => Runs(request, config)
  BY DEF Runs, Asks

(* The plan asks for what the window asked for: the call by mode runs the  *)
(* flags it is chosen for.                                                 *)
LEMMA PlanAsks ==
    ASSUME NEW r, RequestShape(r), MachineShape(machine)
    PROVE  /\ PlanShape(PlanOf(r))
           /\ PlanOf(r).enableLoader \in BOOLEAN
           /\ Asks(r, r.config, Running(PlanOf(r).call))
           /\ PlanOf(r).config = NewConfig(r)
           /\ PlanOf(r).service \in {None, "disable scx", "stop scx"}
           /\ r.op # "disable" => /\ PlanOf(r).service = InTheWay(machine)
                                  /\ PlanOf(r).enableLoader = ~machine.loaderEnabled
  <1>1. CASE r.op = "disable"
    <2>1. PlanOf(r) = [service |-> None, call |-> StopScheduler, enableLoader |-> FALSE,
                       config |-> NewConfig(r)]
      BY <1>1 DEF PlanOf, DisablePlan, NewConfig
    <2>2. PlanShape(PlanOf(r))
      BY <2>1 DEF PlanShape
    <2>3. Running(PlanOf(r).call) = Stopped
      BY <2>1 DEF Running, StopScheduler
    <2>4. PlanOf(r).enableLoader \in BOOLEAN
      <3>1. PICK no \in BOOLEAN : no = FALSE
        OBVIOUS
      <3>. QED BY <2>1, <3>1
    <2>. QED BY <1>1, <2>1, <2>2, <2>3, <2>4 DEF Asks
  <1>2. CASE r.op # "disable"
    <2>. DEFINE args == SchedArgs(r.flags)
                flags == FlagsForMode(r.config, r.sched, r.mode)
                run == IF args = flags THEN SwitchByMode(r.sched, r.mode)
                       ELSE SwitchByArgs(r.sched, args)
                enable == ~machine.loaderEnabled
    <2>1. PlanOf(r) = [service |-> InTheWay(machine), call |-> run,
                       enableLoader |-> enable, config |-> NewConfig(r)]
      BY <1>2 DEF PlanOf, ApplyPlan, NewConfig, InTheWay
    <2>2. Running(run) = run /\ run # Stopped /\ run.sched = r.sched
      BY DEF Running, Stopped, SwitchByMode, SwitchByArgs, None
    <2>3. Args(run, r.config) = args
      <3>1. CASE args = flags
        <4>1. run.kind = "mode" /\ run.sched = r.sched /\ run.mode = r.mode
          BY <3>1 DEF SwitchByMode
        <4>. HIDE DEF run
        <4>. QED BY <3>1, <4>1 DEF Args
      <3>2. CASE args # flags
        <4>1. run.kind = "args" /\ run.args = args
          BY <3>2 DEF SwitchByArgs
        <4>. HIDE DEF run, args
        <4>. QED BY <4>1 DEF Args
      <3>. QED BY <3>1, <3>2
    <2>10. run.kind = "mode" <=> args = flags
      <3>1. CASE args = flags
        <4>1. run.kind = "mode"
          BY <3>1 DEF SwitchByMode
        <4>. QED BY <3>1, <4>1
      <3>2. CASE args # flags
        <4>1. run.kind # "mode"
          BY <3>2 DEF SwitchByArgs
        <4>. QED BY <3>2, <4>1
      <3>. QED BY <3>1, <3>2
    <2>. HIDE DEF run, enable
    <2>4. PlanShape(PlanOf(r))
      BY <2>1 DEF PlanShape
    <2>5. Asks(r, r.config, Running(PlanOf(r).call))
      BY <1>2, <2>1, <2>2, <2>3, <2>10 DEF Asks
    <2>6. InTheWay(machine) \in {None, "disable scx", "stop scx"}
      BY DEF InTheWay
    <2>7. /\ PlanOf(r).service = InTheWay(machine) /\ PlanOf(r).config = NewConfig(r)
          /\ PlanOf(r).enableLoader = enable
      BY <2>1
    <2>8. PlanOf(r).enableLoader = ~machine.loaderEnabled
      BY <2>7 DEF enable
    <2>9. enable \in BOOLEAN
      BY DEF enable, MachineShape
    <2>. QED BY <2>4, <2>5, <2>6, <2>7, <2>8, <2>9
  <1>. QED BY <1>1, <1>2

(* The new configuration has the flags of the old one.                     *)
LEMMA NewConfigIs ==
    ASSUME NEW r, RequestShape(r)
    PROVE  /\ ConfigShape(NewConfig(r))
           /\ NewConfig(r).scheds = r.config.scheds
           /\ r.op = "disable" => NewConfig(r).default_sched = None
           /\ r.op = "apply" => /\ NewConfig(r).default_sched = r.sched
                                /\ NewConfig(r).default_mode = r.mode
  BY DEF RequestShape, NewConfig, ConfigShape

LEMMA SameFlags ==
    ASSUME NEW r, RequestShape(r), NEW run
    PROVE  Asks(r, r.config, run) <=> Asks(r, NewConfig(r), run)
  BY NewConfigIs DEF Asks, Args, FlagsForMode
-------------------------------------------------------------------------------
(* One thread: what it asks for, what its plan still holds, and how far a  *)
(* smooth one, with nobody beside it, has brought machine and files.       *)
Planned == {"service", "switch", "loader", "write", "copy"}
Called == {"loader", "write", "copy", "report"}

Alone(t, m, f, x) ==
    /\ t.ok => Asks(t.request, t.request.config, m.running)
    /\ t.smooth =>
        /\ t.pc \in Called => t.ok
        /\ t.request.op = "apply" =>
            /\ t.pc = "service" => t.plan.service = InTheWay(m)
            /\ t.pc \in {"service", "switch", "loader"} =>
                   t.plan.enableLoader = ~m.loaderEnabled
            /\ t.pc \in {"switch"} \cup Called => ~m.scxEnabled /\ ~m.scxActive
            /\ t.pc \in {"write", "copy", "report"} => m.loaderEnabled
        /\ t.pc = "copy" => x = File(NewConfig(t.request))
        /\ t.pc = "report" => f = File(NewConfig(t.request))
AnyThread(t) ==
    /\ ThreadShape(t)
    /\ t.pc \in {"idle", "probe", "report"} \cup Planned
    /\ t.pc = "idle" => t = IdleCall
    /\ t.pc # "idle" => RequestShape(t.request)
    /\ t.pc \in Planned => /\ PlanShape(t.plan)
                           /\ t.plan.config = NewConfig(t.request)
                           /\ t.plan.enableLoader \in BOOLEAN
                           /\ t.plan.service \in {None, "disable scx", "stop scx"}
    /\ t.pc \in {"probe", "service", "switch"} => ~t.ok
    /\ t.pc \in {"service", "switch"} =>
           Asks(t.request, t.request.config, Running(t.plan.call))
ThreadInv(t, m, f, x) ==
    /\ AnyThread(t)
    /\ t.alone => Alone(t, m, f, x)

(* What was settled is what the machine runs and what a reboot reads.      *)
Settled(r, m, f) ==
    /\ f.kind = "config"
    /\ Asks(r, f.config, m.running)
    /\ r.op = "disable" => f.config.default_sched = None
    /\ r.op = "apply" => /\ f.config.default_sched = r.sched
                         /\ f.config.default_mode = r.mode
                         /\ m.loaderEnabled /\ ~m.scxEnabled /\ ~m.scxActive

Shapes ==
    /\ MachineShape(machine) /\ FileShape(file) /\ FileShape(tmp)
    /\ HasConfig(window)
    /\ \A i \in Inits : init[i].pc = "done" => HasConfig(init[i].window)
    /\ init = [i \in Inits |-> init[i]]
    /\ call = [c \in Calls |-> call[c]]
Threads == \A c \in Calls : ThreadInv(call[c], machine, file, tmp)
Loners == \A c, d \in Calls : c # d /\ call[c].alone => call[d].pc = "idle"
Settles ==
    settled.op # None => /\ \A c \in Calls : call[c].pc = "idle"
                         /\ settled.op \in {"apply", "disable"}
                         /\ Settled(settled, machine, file)
SInv == Shapes /\ Threads /\ Loners /\ Settles

LEMMA IdleHolds == \A m, f, x : ThreadInv(IdleCall, m, f, x) /\ ~IdleCall.alone
  BY DEF ThreadInv, AnyThread, ThreadShape, IdleCall, Planned

(* A thread with others beside it makes no promise about the machine.      *)
LEMMA OthersHold ==
    ASSUME NEW t, AnyThread(t), ~t.alone, NEW m, NEW f, NEW x
    PROVE  ThreadInv(t, m, f, x)
  BY DEF ThreadInv

(* A step of one thread.                                                   *)
LEMMA OneThread ==
    ASSUME SInv, NEW c \in Calls, NEW t, call' = [call EXCEPT ![c] = t],
           call[c].pc # "idle", t.alone => call[c].alone,
           ThreadInv(t, machine', file', tmp'),
           MachineShape(machine'), FileShape(file'), FileShape(tmp'),
           UNCHANGED <<window, init, settled>>
    PROVE  SInv'
  <1>1. call'[c] = t /\ \A d \in Calls : d # c => call'[d] = call[d]
    BY DEF SInv, Shapes
  <1>2. Shapes'
    BY DEF SInv, Shapes
  <1>3. \A d \in Calls : d # c => ~call[d].alone
    BY DEF SInv, Loners
  <1>4. Threads'
    BY <1>1, <1>3, OthersHold DEF SInv, Threads, ThreadInv
  <1>5. Loners'
    BY <1>1, <1>3 DEF SInv, Loners
  <1>6. settled'.op = None
    BY DEF SInv, Settles
  <1>7. Settles'
    BY <1>6 DEF Settles
  <1>. QED BY <1>2, <1>4, <1>5, <1>7 DEF SInv

(* A step of the window.                                                   *)
LEMMA WindowStep ==
    ASSUME SInv, UNCHANGED <<call, machine, disk, settled>>, HasConfig(window'),
           \A i \in Inits : init'[i].pc = "done" => HasConfig(init'[i].window),
           init' = [i \in Inits |-> init'[i]]
    PROVE  SInv'
  <1>1. Shapes'
    BY DEF SInv, Shapes, disk
  <1>2. Threads' /\ Loners' /\ Settles'
    BY DEF SInv, Threads, Loners, Settles, disk
  <1>. QED BY <1>1, <1>2 DEF SInv

(* A thread moves on.                                                      *)
LEMMA MovedIs ==
    ASSUME NEW t, ThreadShape(t), NEW to, NEW failed \in BOOLEAN
    PROVE  /\ ThreadShape(Moved(t, to, failed))
           /\ Moved(t, to, failed).pc = to
           /\ Moved(t, to, failed).request = t.request
           /\ Moved(t, to, failed).plan = Remaining(t.plan, to)
           /\ Moved(t, to, failed).ok = t.ok
           /\ Moved(t, to, failed).alone = t.alone
           /\ Moved(t, to, failed).smooth = (t.smooth /\ ~failed)
  <1>. DEFINE s == t.smooth /\ ~failed
              p == Remaining(t.plan, to)
  <1>1. PICK pc, r, q, o, a, b :
            t = [pc |-> pc, request |-> r, plan |-> q, ok |-> o, alone |-> a, smooth |-> b]
    BY DEF ThreadShape
  <1>2. s \in BOOLEAN
    OBVIOUS
  <1>. DEFINE x1 == [t EXCEPT !.pc = to]
              x2 == [x1 EXCEPT !.smooth = s]
              x3 == [x2 EXCEPT !.plan = p]
  <1>3. x1 = [pc |-> to, request |-> r, plan |-> q, ok |-> o, alone |-> a, smooth |-> b]
    BY <1>1
  <1>4. Moved(t, to, failed) = x3
    BY <1>1 DEF Moved
  <1>. HIDE DEF s, p, x1
  <1>5. x2 = [pc |-> to, request |-> r, plan |-> q, ok |-> o, alone |-> a, smooth |-> s]
    BY <1>3
  <1>. HIDE DEF x2
  <1>6. x3 = [pc |-> to, request |-> r, plan |-> p, ok |-> o, alone |-> a, smooth |-> s]
    BY <1>5
  <1>. HIDE DEF x3
  <1>7. ThreadShape(x3)
    BY <1>1, <1>2, <1>6 DEF ThreadShape
  <1>8. /\ x3.pc = to /\ x3.request = t.request /\ x3.plan = p /\ x3.ok = t.ok
        /\ x3.alone = t.alone /\ x3.smooth = s
    BY <1>1, <1>6
  <1>. QED BY <1>4, <1>7, <1>8 DEF s, p

LEMMA RemainingIs ==
    ASSUME NEW p, PlanShape(p), p.enableLoader \in BOOLEAN,
           NEW to \in {"switch", "loader", "write", "copy"}
    PROVE  LET q == Remaining(p, to) IN
           /\ PlanShape(q) /\ q.service = None /\ q.config = p.config
           /\ q.enableLoader \in BOOLEAN
           /\ to \in {"switch", "loader"} => q.enableLoader = p.enableLoader
           /\ to = "switch" => q.call = p.call
  <1>. DEFINE k == IF to = "switch" THEN p.call ELSE Stopped
              e == p.enableLoader /\ to # "write"
              x1 == [p EXCEPT !.service = None]
              x2 == [x1 EXCEPT !.call = k]
              x3 == [x2 EXCEPT !.enableLoader = e]
  <1>1. PICK s, c, b, f : p = [service |-> s, call |-> c, enableLoader |-> b, config |-> f]
    BY DEF PlanShape
  <1>2. e \in BOOLEAN /\ (to # "write" => e = p.enableLoader)
    OBVIOUS
  <1>3. Remaining(p, to) = x3
    BY <1>1 DEF Remaining
  <1>4. x1 = [service |-> None, call |-> c, enableLoader |-> b, config |-> f]
    BY <1>1
  <1>. HIDE DEF k, e, x1
  <1>5. x2 = [service |-> None, call |-> k, enableLoader |-> b, config |-> f]
    BY <1>4
  <1>. HIDE DEF x2
  <1>6. x3 = [service |-> None, call |-> k, enableLoader |-> e, config |-> f]
    BY <1>5
  <1>. HIDE DEF x3
  <1>7. PlanShape(x3)
    BY <1>6 DEF PlanShape
  <1>8. x3.service = None /\ x3.config = p.config /\ x3.enableLoader = e /\ x3.call = k
    BY <1>1, <1>6
  <1>9. to = "switch" => k = p.call
    BY DEF k
  <1>. QED BY <1>2, <1>3, <1>7, <1>8, <1>9

(* Every step of a thread goes to one that is planned, or to the report.   *)
LEMMA MovedAny ==
    ASSUME NEW t, AnyThread(t), NEW failed \in BOOLEAN,
           NEW to,
           \/ t.pc = "service" /\ to = "switch"
           \/ t.pc = "loader" /\ to = "write"
           \/ t.pc = "write" /\ to = "copy"
           \/ t.pc \in {"probe", "write", "copy"} /\ to = "report"
    PROVE  LET x == Moved(t, to, failed) IN
           /\ AnyThread(x) /\ x.request = t.request /\ x.ok = t.ok /\ x.alone = t.alone
           /\ x.smooth = (t.smooth /\ ~failed) /\ x.pc = to
  <1>. DEFINE x == Moved(t, to, failed)
  <1>1. /\ ThreadShape(x) /\ x.request = t.request /\ x.ok = t.ok /\ x.alone = t.alone
        /\ x.smooth = (t.smooth /\ ~failed) /\ x.pc = to /\ x.plan = Remaining(t.plan, to)
    <2>1. ThreadShape(t)
      BY DEF AnyThread
    <2>. QED BY <2>1, MovedIs
  <1>. HIDE DEF x
  <1>2. CASE to = "report"
    <2>1. t.pc # "idle"
      BY <1>2
    <2>2. AnyThread(x)
      BY <1>1, <1>2, <2>1 DEF AnyThread, Planned
    <2>. QED BY <1>1, <1>2, <2>2 DEF x
  <1>3. CASE to # "report"
    <2>1. /\ t.pc \in Planned /\ t.pc # "idle" /\ to \in {"switch", "write", "copy"}
          /\ to = "switch" => t.pc = "service"
      BY <1>3 DEF Planned
    <2>2. /\ PlanShape(t.plan) /\ t.plan.enableLoader \in BOOLEAN
          /\ t.plan.config = NewConfig(t.request) /\ RequestShape(t.request)
      BY <2>1 DEF AnyThread
    <2>3. /\ PlanShape(x.plan) /\ x.plan.service = None /\ x.plan.config = NewConfig(t.request)
          /\ x.plan.enableLoader \in BOOLEAN
          /\ to = "switch" => /\ x.plan.enableLoader = t.plan.enableLoader
                              /\ x.plan.call = t.plan.call
      BY <1>1, <2>1, <2>2, RemainingIs
    <2>4. to = "switch" => ~t.ok /\ Asks(t.request, t.request.config, Running(t.plan.call))
      BY <2>1 DEF AnyThread
    <2>5. AnyThread(x)
      BY <1>1, <2>1, <2>2, <2>3, <2>4 DEF AnyThread, Planned
    <2>. QED BY <1>1, <2>3, <2>5 DEF x
  <1>. QED BY <1>2, <1>3

LEMMA MovedToSwitch ==
    ASSUME NEW t, AnyThread(t), t.pc = "service", NEW failed \in BOOLEAN
    PROVE  Moved(t, "switch", failed).plan.enableLoader = t.plan.enableLoader
  <1>1. ThreadShape(t) /\ PlanShape(t.plan) /\ t.plan.enableLoader \in BOOLEAN
    BY DEF AnyThread, Planned
  <1>2. Moved(t, "switch", failed).plan = Remaining(t.plan, "switch")
    BY <1>1, MovedIs
  <1>3. Remaining(t.plan, "switch").enableLoader = t.plan.enableLoader
    BY <1>1, RemainingIs
  <1>. QED BY <1>2, <1>3

LEMMA MachineExcept ==
    ASSUME NEW m, MachineShape(m), NEW v
    PROVE  /\ [m EXCEPT !.scxActive = v] =
                  [scxEnabled |-> m.scxEnabled, scxActive |-> v,
                   loaderEnabled |-> m.loaderEnabled, running |-> m.running]
           /\ [m EXCEPT !.loaderEnabled = v] =
                  [scxEnabled |-> m.scxEnabled, scxActive |-> m.scxActive,
                   loaderEnabled |-> v, running |-> m.running]
           /\ [m EXCEPT !.running = v] =
                  [scxEnabled |-> m.scxEnabled, scxActive |-> m.scxActive,
                   loaderEnabled |-> m.loaderEnabled, running |-> v]
           /\ [m EXCEPT !.scxEnabled = v, !.scxActive = v] =
                  [scxEnabled |-> v, scxActive |-> v,
                   loaderEnabled |-> m.loaderEnabled, running |-> m.running]
  <1>1. PICK e, a, l, r :
            /\ m = [scxEnabled |-> e, scxActive |-> a, loaderEnabled |-> l, running |-> r]
            /\ e = m.scxEnabled /\ a = m.scxActive /\ l = m.loaderEnabled /\ r = m.running
    BY DEF MachineShape
  <1>2. [m EXCEPT !.scxActive = v] =
            [scxEnabled |-> e, scxActive |-> v, loaderEnabled |-> l, running |-> r]
    BY ONLY <1>1
  <1>3. [m EXCEPT !.loaderEnabled = v] =
            [scxEnabled |-> e, scxActive |-> a, loaderEnabled |-> v, running |-> r]
    BY ONLY <1>1
  <1>4. [m EXCEPT !.running = v] =
            [scxEnabled |-> e, scxActive |-> a, loaderEnabled |-> l, running |-> v]
    BY ONLY <1>1
  <1>5. [m EXCEPT !.scxEnabled = v, !.scxActive = v] =
            [scxEnabled |-> v, scxActive |-> v, loaderEnabled |-> l, running |-> r]
    <2>. DEFINE x == [m EXCEPT !.scxEnabled = v]
                y == [x EXCEPT !.scxActive = v]
    <2>1. x = [scxEnabled |-> v, scxActive |-> a, loaderEnabled |-> l, running |-> r]
      BY ONLY <1>1
    <2>2. [m EXCEPT !.scxEnabled = v, !.scxActive = v] = y
      OBVIOUS
    <2>. HIDE DEF x
    <2>3. y = [scxEnabled |-> v, scxActive |-> v, loaderEnabled |-> l, running |-> r]
      BY ONLY <2>1
    <2>. QED BY <2>2, <2>3
  <1>. HIDE <1>1
  <1>6. e = m.scxEnabled /\ a = m.scxActive /\ l = m.loaderEnabled /\ r = m.running
    BY <1>1
  <1>. QED BY ONLY <1>2, <1>3, <1>4, <1>5, <1>6, Zenon

LEMMA ServiceHolds ==
    ASSUME NEW m, MachineShape(m), NEW op \in {"disable scx", "stop scx", "enable loader"}
    PROVE  LET n == CASE op = "disable scx" ->
                              [m EXCEPT !.scxEnabled = FALSE, !.scxActive = FALSE]
                      [] op = "stop scx" -> [m EXCEPT !.scxActive = FALSE]
                      [] op = "enable loader" -> [m EXCEPT !.loaderEnabled = TRUE]
           IN  /\ MachineShape(n) /\ n.running = m.running
               /\ op = "enable loader" => /\ n.loaderEnabled
                                          /\ n.scxEnabled = m.scxEnabled
                                          /\ n.scxActive = m.scxActive
               /\ op # "enable loader" => n.loaderEnabled = m.loaderEnabled /\ ~n.scxActive
               /\ op = "disable scx" => ~n.scxEnabled
               /\ op = "stop scx" => n.scxEnabled = m.scxEnabled
  <1>0. PICK yes, no : yes = TRUE /\ no = FALSE
    OBVIOUS
  <1>2. CASE op = "enable loader"
    <2>1. [m EXCEPT !.loaderEnabled = yes] =
              [scxEnabled |-> m.scxEnabled, scxActive |-> m.scxActive, loaderEnabled |-> yes, running |-> m.running]
      BY MachineExcept
    <2>. QED BY <1>0, <1>2, <2>1 DEF MachineShape
  <1>3. CASE op = "stop scx"
    <2>1. [m EXCEPT !.scxActive = no] =
              [scxEnabled |-> m.scxEnabled, scxActive |-> no, loaderEnabled |-> m.loaderEnabled, running |-> m.running]
      BY MachineExcept
    <2>. QED BY <1>0, <1>3, <2>1 DEF MachineShape
  <1>4. CASE op = "disable scx"
    <2>1. [m EXCEPT !.scxEnabled = no, !.scxActive = no] =
              [scxEnabled |-> no, scxActive |-> no, loaderEnabled |-> m.loaderEnabled, running |-> m.running]
      BY MachineExcept
    <2>. QED BY <1>0, <1>4, <2>1 DEF MachineShape
  <1>. QED BY <1>2, <1>3, <1>4

-------------------------------------------------------------------------------
(* The steps of a thread.                                                  *)

LEMMA DisturbedIs ==
    ASSUME NEW t, AnyThread(t), t.pc # "idle"
    PROVE  LET u == [t EXCEPT !.alone = FALSE, !.smooth = FALSE]
           IN  AnyThread(u) /\ ~u.alone /\ u.pc = t.pc
  <1>1. PICK no : no = FALSE
    OBVIOUS
  <1>2. PICK pc, r, q, o, a, b :
            t = [pc |-> pc, request |-> r, plan |-> q, ok |-> o, alone |-> a, smooth |-> b]
    BY DEF AnyThread, ThreadShape
  <1>. DEFINE x == [t EXCEPT !.alone = no]
              u == [x EXCEPT !.smooth = no]
  <1>3. x = [pc |-> pc, request |-> r, plan |-> q, ok |-> o, alone |-> no, smooth |-> b]
    BY ONLY <1>2
  <1>4. [t EXCEPT !.alone = FALSE, !.smooth = FALSE] = u
    BY <1>1
  <1>. HIDE DEF x
  <1>5. u = [pc |-> pc, request |-> r, plan |-> q, ok |-> o, alone |-> no, smooth |-> no]
    BY ONLY <1>3
  <1>. HIDE DEF u
  <1>6. /\ u.pc = t.pc /\ u.request = t.request /\ u.plan = t.plan /\ u.ok = t.ok
        /\ u.alone = no /\ u.smooth = no
    BY ONLY <1>2, <1>5
  <1>7. u = [pc |-> u.pc, request |-> u.request, plan |-> u.plan, ok |-> u.ok,
             alone |-> u.alone, smooth |-> u.smooth]
    BY ONLY <1>5
  <1>8. AnyThread(u) /\ ~u.alone
    BY <1>1, <1>6, <1>7 DEF AnyThread, ThreadShape
  <1>. QED BY <1>4, <1>6, <1>8

LEMMA StartHolds ==
    ASSUME SInv, NEW c \in Calls, call[c].pc = "idle", NEW r, RequestShape(r), Start(c, r)
    PROVE  SInv'
  <1>. DEFINE none == Idle = Calls
              t == [pc |-> "probe", request |-> r, plan |-> NoPlan, ok |-> FALSE,
                    alone |-> none, smooth |-> none]
  <1>0. none \in BOOLEAN /\ (none => \A d \in Calls : call[d].pc = "idle")
    BY DEF Idle
  <1>1. t = Started(r)
    BY DEF Started
  <1>. HIDE DEF none
  <1>2. AnyThread(t) /\ t.alone = none /\ t.pc = "probe" /\ ~t.ok
    BY <1>0 DEF AnyThread, ThreadShape, Planned
  <1>3. \A m, f, x : ThreadInv(t, m, f, x)
    BY <1>2 DEF ThreadInv, Alone, Called
  <1>. HIDE DEF t
  <1>4. /\ call'[c] = t
        /\ \A d \in Calls : d # c =>
               call'[d] = IF call[d].pc = "idle" THEN call[d]
                          ELSE [call[d] EXCEPT !.alone = FALSE, !.smooth = FALSE]
    BY <1>1 DEF Start
  <1>5. \A d \in Calls : d # c =>
            /\ AnyThread(call'[d]) /\ ~call'[d].alone
            /\ call[d].pc = "idle" => call'[d].pc = "idle"
    <2>. SUFFICES ASSUME NEW d \in Calls, d # c
                  PROVE  /\ AnyThread(call'[d]) /\ ~call'[d].alone
                         /\ call[d].pc = "idle" => call'[d].pc = "idle"
      OBVIOUS
    <2>1. AnyThread(call[d])
      BY DEF SInv, Threads, ThreadInv
    <2>2. CASE call[d].pc = "idle"
      <3>1. call'[d] = call[d] /\ call[d] = IdleCall
        BY <1>4, <2>1, <2>2 DEF AnyThread
      <3>. QED BY <2>1, <2>2, <3>1, IdleHolds
    <2>3. CASE call[d].pc # "idle"
      BY <1>4, <2>1, <2>3, DisturbedIs
    <2>. QED BY <2>2, <2>3
  <1>6. Threads'
    BY <1>3, <1>4, <1>5, OthersHold DEF Threads
  <1>7. Loners'
    BY <1>0, <1>2, <1>4, <1>5 DEF Loners
  <1>8. Settles'
    BY DEF Start, Settles, Nothing
  <1>9. Shapes'
    <2>1. call' = [d \in Calls |-> call'[d]]
      BY DEF Start
    <2>. QED BY <2>1 DEF SInv, Shapes, Start, ui, disk
  <1>. QED BY <1>6, <1>7, <1>8, <1>9 DEF SInv

LEMMA PressHolds ==
    ASSUME SInv, NEW c \in Calls, ApplyPressed(c) \/ DisablePressed(c)
    PROVE  SInv'
  <1>0. HasConfig(window)
    BY DEF SInv, Shapes
  <1>1. RequestShape(ApplyRequest)
    BY <1>0 DEF RequestShape, ApplyRequest, HasConfig
  <1>2. RequestShape(DisableRequest)
    BY <1>0 DEF RequestShape, DisableRequest, HasConfig
  <1>. QED BY <1>1, <1>2, StartHolds DEF ApplyPressed, DisablePressed

LEMMA CallFailsHolds ==
    ASSUME SInv, NEW c \in Calls, CallFails(c)
    PROVE  SInv'
  <1>. DEFINE t == Moved(call[c], "report", TRUE)
  <1>1. call' = [call EXCEPT ![c] = t]
    BY DEF CallFails, Step
  <1>2. /\ AnyThread(t) /\ t.ok = call[c].ok /\ t.alone = call[c].alone
        /\ ~t.smooth
    <2>1. AnyThread(call[c]) /\ call[c].pc = "probe"
      BY DEF SInv, Threads, ThreadInv, CallFails
    <2>2. PICK yes \in BOOLEAN : yes = TRUE
      OBVIOUS
    <2>. QED BY <2>1, <2>2, MovedAny
  <1>3. ~call[c].ok
    BY DEF SInv, Threads, ThreadInv, AnyThread, CallFails
  <1>. HIDE DEF t
  <1>4. ThreadInv(t, machine', file', tmp')
    BY <1>2, <1>3 DEF ThreadInv, Alone
  <1>5. /\ MachineShape(machine') /\ FileShape(file') /\ FileShape(tmp')
        /\ UNCHANGED <<window, init, settled>> /\ call[c].pc # "idle"
    BY DEF CallFails, SInv, Shapes, disk, ui
  <1>. QED BY <1>1, <1>2, <1>4, <1>5, OneThread

LEMMA PlanHolds ==
    ASSUME SInv, NEW c \in Calls, Plan(c)
    PROVE  SInv'
  <1>0. /\ AnyThread(call[c]) /\ call[c].pc = "probe" /\ ~call[c].ok
        /\ RequestShape(call[c].request) /\ MachineShape(machine)
        /\ call[c].alone => Alone(call[c], machine, file, tmp)
    BY DEF SInv, Shapes, Threads, ThreadInv, AnyThread, Plan
  <1>1. PICK pc, r, q, o, a, b :
            call[c] = [pc |-> pc, request |-> r, plan |-> q, ok |-> o, alone |-> a, smooth |-> b]
    BY <1>0 DEF AnyThread, ThreadShape
  <1>2. r = call[c].request /\ o = call[c].ok /\ a = call[c].alone /\ b = call[c].smooth
    BY ONLY <1>1
  <1>. DEFINE p == PlanOf(call[c].request)
              t == [pc |-> "service", request |-> r, plan |-> p, ok |-> o,
                    alone |-> a, smooth |-> b]
  <1>3. /\ PlanShape(p) /\ Asks(r, r.config, Running(p.call)) /\ p.config = NewConfig(r)
        /\ p.service \in {None, "disable scx", "stop scx"} /\ p.enableLoader \in BOOLEAN
        /\ r.op # "disable" => /\ p.service = InTheWay(machine)
                               /\ p.enableLoader = ~machine.loaderEnabled
    BY <1>0, <1>2, PlanAsks
  <1>. HIDE DEF p
  <1>4. call' = [call EXCEPT ![c] = t]
    <2>1. call' = [call EXCEPT ![c].pc = "service", ![c].plan = p]
      BY DEF Plan, p
    <2>. DEFINE x == [call EXCEPT ![c].pc = "service"]
                y == [x EXCEPT ![c].plan = p]
                u == [call[c] EXCEPT !.pc = "service"]
                w == [u EXCEPT !.plan = p]
    <2>2. call' = y
      BY <2>1
    <2>3. x = [call EXCEPT ![c] = u]
      OBVIOUS
    <2>4. u = [pc |-> "service", request |-> r, plan |-> q, ok |-> o, alone |-> a, smooth |-> b]
      BY ONLY <1>1
    <2>5. w = t
      <3>. HIDE DEF u
      <3>. QED BY ONLY <2>4
    <2>6. DOMAIN call = Calls
      BY DEF SInv, Shapes
    <2>. HIDE DEF u
    <2>7. x[c] = u
      BY <2>3, <2>6
    <2>8. y = [call EXCEPT ![c] = w]
      <3>1. y = [x EXCEPT ![c] = w]
        <4>. HIDE DEF x
        <4>. QED BY <2>7
      <3>2. [x EXCEPT ![c] = w] = [call EXCEPT ![c] = w]
        <4>. HIDE DEF w
        <4>. QED BY <2>3, <2>6
      <3>. QED BY <3>1, <3>2
    <2>. QED BY <2>2, <2>5, <2>8
  <1>5. AnyThread(t) /\ (t.alone => Alone(t, machine, file, tmp))
    BY <1>0, <1>2, <1>3 DEF AnyThread, ThreadShape, Planned, Alone, Called, RequestShape
  <1>. HIDE DEF t
  <1>6. /\ t.alone => call[c].alone
        /\ ThreadInv(t, machine', file', tmp') /\ call[c].pc # "idle"
        /\ MachineShape(machine') /\ FileShape(file') /\ FileShape(tmp')
        /\ UNCHANGED <<window, init, settled>>
    BY <1>0, <1>2, <1>5 DEF Plan, ThreadInv, SInv, Shapes, disk, ui, t
  <1>. QED BY <1>4, <1>6, OneThread

LEMMA ResolveConflictHolds ==
    ASSUME SInv, NEW c \in Calls, ResolveConflict(c)
    PROVE  SInv'
  <1>. DEFINE s == call[c].plan.service
  <1>0. /\ AnyThread(call[c]) /\ call[c].pc = "service" /\ ~call[c].ok
        /\ MachineShape(machine) /\ s \in {None, "disable scx", "stop scx"}
        /\ call[c].alone => Alone(call[c], machine, file, tmp)
    BY DEF SInv, Shapes, Threads, ThreadInv, AnyThread, Planned, ResolveConflict
  <1>1. PICK failed \in BOOLEAN :
            /\ call' = [call EXCEPT ![c] = Moved(call[c], "switch", failed)]
            /\ \/ (failed \/ s = None) /\ UNCHANGED machine
               \/ s # None /\ RunServiceOp(s)
    BY DEF ResolveConflict, ServiceStep, Step
  <1>. DEFINE t == Moved(call[c], "switch", failed)
  <1>2. /\ AnyThread(t) /\ t.request = call[c].request /\ t.ok = call[c].ok
        /\ t.alone = call[c].alone /\ t.smooth = (call[c].smooth /\ ~failed)
        /\ t.pc = "switch" /\ t.plan.enableLoader = call[c].plan.enableLoader
    <2>1. /\ AnyThread(t) /\ t.request = call[c].request /\ t.ok = call[c].ok
          /\ t.alone = call[c].alone /\ t.smooth = (call[c].smooth /\ ~failed)
          /\ t.pc = "switch"
      <3>1. AnyThread(call[c]) /\ call[c].pc = "service"
        BY <1>0
      <3>. QED BY ONLY <3>1, MovedAny, failed \in BOOLEAN
    <2>2. t.plan.enableLoader = call[c].plan.enableLoader
      BY <1>0, MovedToSwitch
    <2>. QED BY <2>1, <2>2
  <1>. HIDE DEF t
  <1>3. /\ MachineShape(machine')
        /\ ~failed /\ s = InTheWay(machine) =>
               ~machine'.scxEnabled /\ ~machine'.scxActive
        /\ machine'.loaderEnabled = machine.loaderEnabled
    <2>1. CASE s # None /\ RunServiceOp(s)
      BY <1>0, <2>1, ServiceHolds DEF RunServiceOp, InTheWay, MachineShape, None
    <2>2. CASE (failed \/ s = None) /\ UNCHANGED machine
      BY <1>0, <2>2 DEF InTheWay, None
    <2>. QED BY <1>1, <2>1, <2>2
  <1>4. ThreadInv(t, machine', file', tmp')
    BY <1>0, <1>2, <1>3 DEF ThreadInv, Alone, Called
  <1>5. /\ FileShape(file') /\ FileShape(tmp') /\ call[c].pc # "idle"
        /\ UNCHANGED <<window, init, settled>> /\ call' = [call EXCEPT ![c] = t]
    BY <1>0, <1>1 DEF ResolveConflict, SInv, Shapes, disk, ui, t
  <1>. QED BY <1>2, <1>3, <1>4, <1>5, OneThread

LEMMA EnableLoaderHolds ==
    ASSUME SInv, NEW c \in Calls, EnableLoader(c)
    PROVE  SInv'
  <1>. DEFINE e == call[c].plan.enableLoader
  <1>0. /\ AnyThread(call[c]) /\ call[c].pc = "loader" /\ e \in BOOLEAN
        /\ MachineShape(machine)
        /\ call[c].alone => Alone(call[c], machine, file, tmp)
    BY DEF SInv, Shapes, Threads, ThreadInv, AnyThread, Planned, EnableLoader
  <1>1. PICK failed \in BOOLEAN :
            /\ call' = [call EXCEPT ![c] = Moved(call[c], "write", failed)]
            /\ \/ (failed \/ ~e) /\ UNCHANGED machine
               \/ e /\ RunServiceOp("enable loader")
    BY DEF EnableLoader, ServiceStep, Step
  <1>. DEFINE t == Moved(call[c], "write", failed)
  <1>2. /\ AnyThread(t) /\ t.request = call[c].request /\ t.ok = call[c].ok
        /\ t.alone = call[c].alone /\ t.smooth = (call[c].smooth /\ ~failed)
        /\ t.pc = "write"
    BY <1>0, MovedAny
  <1>. HIDE DEF t
  <1>3. /\ MachineShape(machine') /\ machine'.running = machine.running
        /\ machine'.scxEnabled = machine.scxEnabled
        /\ machine'.scxActive = machine.scxActive
        /\ ~failed /\ e = ~machine.loaderEnabled => machine'.loaderEnabled
    <2>1. CASE e /\ RunServiceOp("enable loader")
      <3>. DEFINE op == "enable loader"
      <3>1. op \in {"disable scx", "stop scx", "enable loader"} /\ op = "enable loader"
        OBVIOUS
      <3>. HIDE DEF op
      <3>2. RunServiceOp(op)
        BY <2>1 DEF op
      <3>. QED BY <1>0, <3>1, <3>2, ServiceHolds DEF RunServiceOp
    <2>2. CASE (failed \/ ~e) /\ UNCHANGED machine
      BY <1>0, <2>2 DEF MachineShape
    <2>. QED BY <1>1, <2>1, <2>2
  <1>4. ThreadInv(t, machine', file', tmp')
    BY <1>0, <1>2, <1>3 DEF ThreadInv, Alone, Called
  <1>5. /\ FileShape(file') /\ FileShape(tmp') /\ call[c].pc # "idle"
        /\ UNCHANGED <<window, init, settled>> /\ call' = [call EXCEPT ![c] = t]
    BY <1>0, <1>1 DEF EnableLoader, SInv, Shapes, disk, ui, t
  <1>. QED BY <1>2, <1>3, <1>4, <1>5, OneThread

LEMMA CallLoaderHolds ==
    ASSUME SInv, NEW c \in Calls, CallLoader(c)
    PROVE  SInv'
  <1>0. /\ AnyThread(call[c]) /\ call[c].pc = "switch" /\ MachineShape(machine)
        /\ Asks(call[c].request, call[c].request.config, Running(call[c].plan.call))
        /\ call[c].alone => Alone(call[c], machine, file, tmp)
    BY DEF SInv, Shapes, Threads, ThreadInv, AnyThread, CallLoader
  <1>1. PICK failed \in BOOLEAN :
            /\ machine' = IF failed THEN machine
                          ELSE [machine EXCEPT !.running = Running(call[c].plan.call)]
            /\ call' = [call EXCEPT ![c] =
                            [Moved(call[c], "loader", failed) EXCEPT !.ok = ~failed]]
    BY DEF CallLoader
  <1>. DEFINE x == Moved(call[c], "loader", failed)
              o == ~failed
              t == [x EXCEPT !.ok = o]
              run == Running(call[c].plan.call)
  <1>2. /\ ThreadShape(x) /\ x.pc = "loader" /\ x.request = call[c].request
        /\ x.plan = Remaining(call[c].plan, "loader") /\ x.alone = call[c].alone
        /\ x.smooth = (call[c].smooth /\ ~failed)
    <2>1. ThreadShape(call[c])
      BY <1>0 DEF AnyThread
    <2>. QED BY ONLY <2>1, failed \in BOOLEAN, MovedIs
  <1>3. LET q == Remaining(call[c].plan, "loader") IN
        /\ PlanShape(q) /\ q.service = None /\ q.config = call[c].plan.config
        /\ q.enableLoader \in BOOLEAN /\ q.enableLoader = call[c].plan.enableLoader
    <2>1. PlanShape(call[c].plan) /\ call[c].plan.enableLoader \in BOOLEAN
      BY <1>0 DEF AnyThread, Planned
    <2>. QED BY ONLY <2>1, RemainingIs
  <1>. HIDE DEF x, o
  <1>4. /\ ThreadShape(t) /\ t.pc = "loader" /\ t.request = call[c].request
        /\ t.plan = x.plan /\ t.alone = call[c].alone
        /\ t.smooth = (call[c].smooth /\ ~failed) /\ t.ok = o
    <2>1. PICK pc, r, q, k, a, b :
              x = [pc |-> pc, request |-> r, plan |-> q, ok |-> k, alone |-> a, smooth |-> b]
      BY <1>2 DEF ThreadShape
    <2>2. t = [pc |-> pc, request |-> r, plan |-> q, ok |-> o, alone |-> a, smooth |-> b]
      BY ONLY <2>1
    <2>. HIDE DEF t
    <2>3. o \in BOOLEAN
      BY DEF o
    <2>4. /\ t.pc = x.pc /\ t.request = x.request /\ t.plan = x.plan /\ t.alone = x.alone
          /\ t.smooth = x.smooth /\ t.ok = o
      BY ONLY <2>1, <2>2
    <2>5. t = [pc |-> t.pc, request |-> t.request, plan |-> t.plan, ok |-> t.ok,
               alone |-> t.alone, smooth |-> t.smooth]
      BY ONLY <2>2
    <2>. QED BY <1>2, <2>3, <2>4, <2>5 DEF ThreadShape
  <1>. HIDE DEF t, run
  <1>5. AnyThread(t)
    BY <1>0, <1>2, <1>3, <1>4 DEF AnyThread, Planned
  <1>6. /\ MachineShape(machine') /\ machine'.loaderEnabled = machine.loaderEnabled
        /\ machine'.scxEnabled = machine.scxEnabled
        /\ machine'.scxActive = machine.scxActive
        /\ ~failed => machine'.running = run
    <2>1. CASE failed
      BY <1>0, <1>1, <2>1
    <2>2. CASE ~failed
      <3>1. machine' = [machine EXCEPT !.running = run]
        BY <1>1, <2>2 DEF run
      <3>2. machine' = [scxEnabled |-> machine.scxEnabled, scxActive |-> machine.scxActive,
                        loaderEnabled |-> machine.loaderEnabled, running |-> run]
        BY <1>0, <3>1, MachineExcept
      <3>. QED BY <1>0, <3>2 DEF MachineShape
    <2>. QED BY <2>1, <2>2
  <1>7. /\ t.ok => Asks(t.request, t.request.config, machine'.running)
        /\ t.smooth => t.ok
    BY <1>0, <1>4, <1>6 DEF run, o
  <1>8. ThreadInv(t, machine', file', tmp')
    BY <1>0, <1>2, <1>3, <1>4, <1>5, <1>6, <1>7 DEF ThreadInv, Alone, Called
  <1>9. /\ FileShape(file') /\ FileShape(tmp') /\ call[c].pc # "idle"
        /\ UNCHANGED <<window, init, settled>> /\ call' = [call EXCEPT ![c] = t]
    BY <1>0, <1>1 DEF CallLoader, SInv, Shapes, disk, ui, t, x, o
  <1>. QED BY <1>4, <1>6, <1>8, <1>9, OneThread

LEMMA WriteTmpHolds ==
    ASSUME SInv, NEW c \in Calls, WriteTmp(c)
    PROVE  SInv'
  <1>0. /\ AnyThread(call[c]) /\ call[c].pc = "write"
        /\ RequestShape(call[c].request) /\ call[c].plan.config = NewConfig(call[c].request)
        /\ call[c].alone => Alone(call[c], machine, file, tmp)
        /\ FileShape(tmp) /\ FileShape(file) /\ MachineShape(machine)
    BY DEF SInv, Shapes, Threads, ThreadInv, AnyThread, Planned, WriteTmp
  <1>1. PICK failed \in BOOLEAN :
            /\ tmp' = IF failed THEN tmp ELSE File(call[c].plan.config)
            /\ call' = [call EXCEPT ![c] =
                            Moved(call[c], IF failed THEN "report" ELSE "copy", failed)]
    BY DEF WriteTmp, Step
  <1>2. PICK to : to = IF failed THEN "report" ELSE "copy"
    OBVIOUS
  <1>. DEFINE t == Moved(call[c], to, failed)
  <1>3. /\ AnyThread(t) /\ t.request = call[c].request /\ t.ok = call[c].ok
        /\ t.alone = call[c].alone /\ t.smooth = (call[c].smooth /\ ~failed) /\ t.pc = to
    <2>1. AnyThread(call[c]) /\ call[c].pc = "write" /\ to \in {"report", "copy"}
      BY <1>0, <1>2
    <2>. QED BY ONLY <2>1, failed \in BOOLEAN, MovedAny
  <1>. HIDE DEF t
  <1>4. FileShape(tmp')
    BY <1>0, <1>1, NewConfigIs DEF FileShape, File
  <1>5. ~failed => tmp' = File(NewConfig(call[c].request))
    BY <1>0, <1>1
  <1>6. UNCHANGED <<machine, file>>
    BY DEF WriteTmp
  <1>7. ThreadInv(t, machine', file', tmp')
    BY <1>0, <1>2, <1>3, <1>5, <1>6 DEF ThreadInv, Alone, Called
  <1>8. /\ call[c].pc # "idle" /\ UNCHANGED <<window, init, settled>>
        /\ call' = [call EXCEPT ![c] = t]
    BY <1>0, <1>1, <1>2 DEF WriteTmp, ui, t
  <1>. QED BY <1>0, <1>3, <1>4, <1>6, <1>7, <1>8, OneThread

LEMMA CopyTmpHolds ==
    ASSUME SInv, NEW c \in Calls, CopyTmp(c)
    PROVE  SInv'
  <1>0. /\ AnyThread(call[c]) /\ call[c].pc = "copy"
        /\ call[c].alone => Alone(call[c], machine, file, tmp)
        /\ FileShape(tmp) /\ FileShape(file) /\ MachineShape(machine)
    BY DEF SInv, Shapes, Threads, ThreadInv, CopyTmp
  <1>1. PICK failed \in BOOLEAN :
            /\ file' = IF failed THEN file ELSE tmp
            /\ call' = [call EXCEPT ![c] = Moved(call[c], "report", failed)]
    BY DEF CopyTmp, Step
  <1>. DEFINE t == Moved(call[c], "report", failed)
  <1>3. /\ AnyThread(t) /\ t.request = call[c].request /\ t.ok = call[c].ok
        /\ t.alone = call[c].alone /\ t.smooth = (call[c].smooth /\ ~failed)
        /\ t.pc = "report"
    <2>1. AnyThread(call[c]) /\ call[c].pc = "copy"
      BY <1>0
    <2>. QED BY ONLY <2>1, failed \in BOOLEAN, MovedAny
  <1>. HIDE DEF t
  <1>4. FileShape(file') /\ FileShape(tmp')
    BY <1>0, <1>1 DEF CopyTmp, FileShape, Absent
  <1>5. UNCHANGED machine
    BY DEF CopyTmp
  <1>6. ThreadInv(t, machine', file', tmp')
    BY <1>0, <1>1, <1>3, <1>5 DEF ThreadInv, Alone, Called
  <1>7. /\ call[c].pc # "idle" /\ UNCHANGED <<window, init, settled>>
        /\ call' = [call EXCEPT ![c] = t]
    BY <1>0, <1>1 DEF CopyTmp, ui, t
  <1>. QED BY <1>0, <1>3, <1>4, <1>5, <1>6, <1>7, OneThread

(* A request whose every step was done, reported by the only thread.       *)
LEMMA ReportedHolds ==
    ASSUME SInv, NEW c \in Calls, Reported(c)
    PROVE  SInv'
  <1>0. /\ AnyThread(call[c]) /\ call[c].pc = "report" /\ RequestShape(call[c].request)
        /\ call[c].alone => Alone(call[c], machine, file, tmp)
    BY DEF SInv, Threads, ThreadInv, AnyThread, Reported
  <1>1. call'[c] = IdleCall /\ \A d \in Calls : d # c => call'[d] = call[d]
    BY DEF Reported, SInv, Shapes
  <1>2. Shapes'
    BY DEF Reported, SInv, Shapes, disk
  <1>3. Threads'
    BY <1>1, IdleHolds DEF Reported, SInv, Threads, disk
  <1>4. IdleCall.pc = "idle" /\ ~IdleCall.alone
    BY DEF IdleCall
  <1>5. Loners'
    BY <1>1, <1>4 DEF SInv, Loners
  <1>6. Settles'
    <2>1. CASE call[c].ok /\ call[c].alone /\ call[c].smooth
      <3>. DEFINE r == call[c].request
                  s == [r EXCEPT !.config = Nothing]
      <3>1. /\ Asks(r, r.config, machine.running) /\ file = File(NewConfig(r))
            /\ r.op = "apply" => /\ machine.loaderEnabled
                                 /\ ~machine.scxEnabled /\ ~machine.scxActive
        BY <1>0, <2>1 DEF Alone, Called
      <3>2. RequestShape(r)
        BY <1>0
      <3>3. Asks(r, NewConfig(r), machine.running)
        BY <3>1, <3>2, SameFlags
      <3>4. file.kind = "config" /\ file.config = NewConfig(r)
        BY <3>1 DEF File
      <3>5. settled' = s
        BY <2>1 DEF Reported
      <3>6. \A d \in Calls : call'[d].pc = "idle"
        BY <1>1, <1>4, <2>1 DEF SInv, Loners
      <3>. HIDE DEF r
      <3>7. /\ r.op \in {"apply", "disable"} /\ s.op = r.op
            /\ r.op = "apply" => s.sched = r.sched /\ s.mode = r.mode /\ s.flags = r.flags
        BY <3>2 DEF RequestShape
      <3>. HIDE DEF s
      <3>8. Asks(s, NewConfig(r), machine.running)
        BY <3>3, <3>7 DEF Asks
      <3>9. Settled(s, machine, file)
        BY <3>1, <3>2, <3>4, <3>7, <3>8, NewConfigIs DEF Settled
      <3>. QED BY <3>5, <3>6, <3>7, <3>9 DEF Settles, Reported, disk
    <2>2. CASE ~(call[c].ok /\ call[c].alone /\ call[c].smooth)
      <3>1. settled' = settled
        BY <2>2 DEF Reported
      <3>2. settled.op = None
        BY <1>0 DEF SInv, Settles
      <3>. QED BY <3>1, <3>2 DEF Settles
    <2>. QED BY <2>1, <2>2
  <1>. QED BY <1>2, <1>3, <1>5, <1>6 DEF SInv
-------------------------------------------------------------------------------
(* The window, its threads, and the program's end.                         *)

LEMMA DefaultShape == ConfigShape(DefaultConfig) /\ HasConfig(Closed)
  BY DEF ConfigShape, DefaultConfig, HasConfig, Closed, Empty

LEMMA InitShape ==
    ASSUME NEW f, FileShape(f), NEW supported
    PROVE  HasConfig(WindowInit(f, supported))
  <1>1. ConfigShape(InitConfig(f))
    BY DefaultShape DEF InitConfig, FileShape
  <1>2. PICK k : k = InitConfig(f) /\ ConfigShape(k)
    BY <1>1
  <1>3. \A why : HasConfig([Empty(k) EXCEPT !.critical = why])
    BY <1>2 DEF HasConfig, Empty
  <1>. DEFINE off == supported.failed
  <1>4. CASE InitFails(f)
    BY <1>2, <1>3, <1>4 DEF WindowInit
  <1>5. CASE ~InitFails(f) /\ off
    BY <1>2, <1>3, <1>5 DEF WindowInit
  <1>6. CASE ~InitFails(f) /\ ~off
    BY <1>2, <1>6 DEF WindowInit, HasConfig
  <1>. QED BY <1>4, <1>5, <1>6

LEMMA EditHolds ==
    ASSUME SInv, Close \/ DialogDismissed \/ SchedulerPicked \/ ProfilePicked
                 \/ FlagsChanged \/ ApplyRefused
    PROVE  SInv'
  <1>1. UNCHANGED <<init, call, machine, disk, settled>>
    BY DEF Close, DialogDismissed, SchedulerPicked, ProfilePicked, FlagsChanged, ApplyRefused
  <1>2. HasConfig(window) /\ init = [i \in Inits |-> init[i]]
        /\ \A i \in Inits : init[i].pc = "done" => HasConfig(init[i].window)
    BY DEF SInv, Shapes
  <1>3. \A s : HasConfig(OnSchedChanged(window, s)) /\ HasConfig(OnProfileChanged(window, s))
               /\ HasConfig([window EXCEPT !.flags = s])
    BY <1>2 DEF HasConfig, OnSchedChanged, OnProfileChanged
  <1>4. HasConfig(window')
    BY <1>2, <1>3
       DEF Close, DialogDismissed, SchedulerPicked, ProfilePicked, FlagsChanged, ApplyRefused
  <1>. QED BY <1>1, <1>2, <1>4, WindowStep

LEMMA OpeningHolds ==
    ASSUME SInv, NEW i \in Inits, Show(i) \/ InitTask(i) \/ ScxInit(i) \/ InitPanics(i)
    PROVE  SInv'
  <1>1. UNCHANGED <<call, machine, disk, settled>>
    BY DEF Show, InitTask, ScxInit, InitPanics
  <1>2. HasConfig(window) /\ FileShape(file) /\ init = [j \in Inits |-> init[j]]
        /\ \A j \in Inits : init[j].pc = "done" => HasConfig(init[j].window)
    BY DEF SInv, Shapes
  <1>3. PICK t : /\ init' = [init EXCEPT ![i] = t]
                 /\ t.pc = "done" => HasConfig(t.window)
    <2>1. CASE Show(i)
      <3>1. PICK t : t = [pc |-> "reading"]
        OBVIOUS
      <3>2. t.pc # "done"
        BY <3>1
      <3>. QED BY <2>1, <3>1, <3>2 DEF Show
    <2>2. CASE InitTask(i)
      BY <1>2, <2>2, InitShape DEF InitTask
    <2>3. CASE ScxInit(i) \/ InitPanics(i)
      BY <2>3 DEF ScxInit, InitPanics, IdleInit
    <2>. QED BY <2>1, <2>2, <2>3
  <1>4. /\ init' = [j \in Inits |-> init'[j]]
        /\ \A j \in Inits : init'[j].pc = "done" => HasConfig(init'[j].window)
    BY <1>2, <1>3
  <1>5. HasConfig(window')
    <2>1. CASE ScxInit(i)
      BY <1>2, <2>1 DEF ScxInit, HasConfig
    <2>2. CASE Show(i) \/ InitTask(i) \/ InitPanics(i)
      BY <1>2, <2>2 DEF Show, InitTask, InitPanics, ui
    <2>. QED BY <2>1, <2>2
  <1>. QED BY <1>1, <1>4, <1>5, WindowStep

LEMMA RestartHolds ==
    ASSUME SInv, Restart
    PROVE  SInv'
  <1>1. \A c \in Calls : call'[c] = IdleCall
    BY DEF Restart
  <1>2. IdleCall.pc = "idle" /\ ~IdleCall.alone
    BY DEF IdleCall
  <1>3. Shapes'
    BY DefaultShape DEF Restart, SInv, Shapes, disk, IdleInit
  <1>4. Threads' /\ Loners'
    BY <1>1, <1>2, IdleHolds DEF Threads, Loners
  <1>5. Settles'
    BY <1>1, <1>2 DEF Restart, SInv, Settles, disk
  <1>. QED BY <1>3, <1>4, <1>5 DEF SInv
-------------------------------------------------------------------------------
LEMMA InitHolds == Init => SInv
  <1>. SUFFICES ASSUME Init PROVE SInv
    OBVIOUS
  <1>1. MachineShape(machine) /\ FileShape(file)
    BY StartsAssumption DEF Init, MachineShape, FileShape, ConfigShape
  <1>2. FileShape(tmp)
    BY DEF Init, FileShape, Absent
  <1>3. Shapes
    BY <1>1, <1>2, DefaultShape DEF Init, Shapes, IdleInit
  <1>4. \A c \in Calls : call[c] = IdleCall
    BY DEF Init
  <1>5. Threads /\ Loners
    BY <1>4, IdleHolds DEF Threads, Loners
  <1>6. Settles
    BY DEF Init, Settles, Nothing
  <1>. QED BY <1>3, <1>5, <1>6 DEF SInv

LEMMA NextHolds == SInv /\ [Next]_vars => SInv'
  <1>. SUFFICES ASSUME SInv, [Next]_vars PROVE SInv'
    OBVIOUS
  <1>1. CASE Close \/ DialogDismissed \/ SchedulerPicked \/ ProfilePicked
             \/ FlagsChanged \/ ApplyRefused
    BY <1>1, EditHolds
  <1>2. CASE Restart
    BY <1>2, RestartHolds
  <1>3. ASSUME NEW i \in Inits, Show(i) \/ InitTask(i) \/ ScxInit(i) \/ InitPanics(i)
        PROVE  SInv'
    BY <1>3, OpeningHolds
  <1>4. ASSUME NEW c \in Calls, ApplyPressed(c) \/ DisablePressed(c)
        PROVE  SInv'
    BY <1>4, PressHolds
  <1>5. ASSUME NEW c \in Calls, Plan(c) \/ CallFails(c) \/ ResolveConflict(c)
        PROVE  SInv'
    BY <1>5, PlanHolds, CallFailsHolds, ResolveConflictHolds
  <1>6. ASSUME NEW c \in Calls, CallLoader(c) \/ EnableLoader(c) \/ WriteTmp(c)
        PROVE  SInv'
    BY <1>6, CallLoaderHolds, EnableLoaderHolds, WriteTmpHolds
  <1>7. ASSUME NEW c \in Calls, CopyTmp(c) \/ Reported(c)
        PROVE  SInv'
    BY <1>7, CopyTmpHolds, ReportedHolds
  <1>8. CASE UNCHANGED vars
    BY <1>8 DEF vars, ui, disk, SInv, Shapes, Threads, Loners, Settles
  <1>. QED BY <1>1, <1>2, <1>3, <1>4, <1>5, <1>6, <1>7, <1>8 DEF Next

(* What every thread has done and may still do, in every state.            *)
THEOREM Invariance == Spec => []SInv
  <1>. QED BY InitHolds, NextHolds, PTL DEF Spec

(* However many windows, threads and files there are: a thread that will   *)
(* report success, and beside which no other ran, has made the loader run  *)
(* what was asked for; the choice between the calls never changes it.      *)
THEOREM SuccessIsNoClaim == Spec => []SuccessIsTheLoaders
  <1>1. SInv => SuccessIsTheLoaders
    BY RunsIsAsks DEF SInv, Threads, ThreadInv, Alone, SuccessIsTheLoaders
  <1>. QED BY <1>1, Invariance, PTL

(* Of a request carried out in full, whatever scheduler, mode and flags it *)
(* had and whatever was enabled before, the next boot finds the scheduler  *)
(* and the mode; and it runs the flags asked for exactly if the loader was *)
(* called by mode, which it is when they are those of the mode.            *)
THEOREM ARebootKeepsModes == Spec => []RebootKeepsModes
  <1>1. SInv => RebootKeepsModes
    <2>. SUFFICES ASSUME SInv, settled.op # None
                  PROVE  RebootKeepsModes
      BY DEF RebootKeepsModes
    <2>1. /\ settled.op \in {"apply", "disable"} /\ Settled(settled, machine, file)
      BY DEF SInv, Settles
    <2>2. Asks(settled, file.config, machine.running) /\ file.kind = "config"
      BY <2>1 DEF Settled
    <2>3. Runs(settled, file.config)
      BY <2>2, RunsIsAsks
    <2>4. CASE settled.op = "disable"
      BY <2>1, <2>2, <2>3, <2>4 DEF Settled, RebootKeepsModes
    <2>5. CASE settled.op = "apply"
      <3>1. machine.running.kind = "mode" <=>
                SchedArgs(settled.flags)
                = FlagsForMode(file.config, settled.sched, settled.mode)
        BY <2>2, <2>5 DEF Asks
      <3>2. /\ file.config.default_sched = settled.sched
            /\ file.config.default_mode = settled.mode
            /\ machine.loaderEnabled /\ ~machine.scxEnabled /\ ~machine.scxActive
        BY <2>1, <2>5 DEF Settled
      <3>3. /\ Boots(file.config).sched = settled.sched
            /\ Boots(file.config).args
               = FlagsForMode(file.config, settled.sched, settled.mode)
        BY <3>2 DEF Boots
      <3>. QED BY <2>2, <2>3, <2>5, <3>1, <3>2, <3>3 DEF RebootKeepsModes
    <2>. QED BY <2>1, <2>4, <2>5
  <1>. QED BY <1>1, Invariance, PTL
-------------------------------------------------------------------------------
(* Type correctness: beside the invariant, every mode there is was read    *)
(* from a file or chosen by its label, so that the profile shown is one of *)
(* the box's items.                                                        *)
Modes(k) == k.default_mode \in SchedMode \cup {None}
FileModes(f) == f.kind = "config" => Modes(f.config)
WindowModes(w) ==
    /\ {"enabled", "profile", "config"} \subseteq DOMAIN w
    /\ w.enabled \in BOOLEAN
    /\ w.profile \in ProfileItems
    /\ Modes(w.config)
RequestModes(r) == Modes(r.config) /\ (r.op = "apply" => r.mode \in SchedMode)

Disks == FileModes(file) /\ FileModes(tmp)
Windows ==
    /\ WindowModes(window)
    /\ \A i \in Inits : init[i].pc = "done" => WindowModes(init[i].window)
Requests == \A c \in Calls : call[c].pc # "idle" => RequestModes(call[c].request)
Shown ==
    /\ open \in BOOLEAN
    /\ dialog \in {None, "error"}
    /\ \A i \in Inits : init[i].pc \in {"idle", "reading", "done"}
TInv == Disks /\ Windows /\ Requests /\ Shown

LEMMA LabelledModes ==
    /\ \A mode \in SchedMode : Label(mode) \in ProfileItems
    /\ \A label : ModeFromLabel(label) \in SchedMode
  <1>1. \A mode \in SchedMode : Label(mode) \in ProfileItems
    BY DEF SchedMode, Label, ProfileItems
  <1>2. \A label : ModeFromLabel(label) \in SchedMode
    BY DEF SchedMode, ModeFromLabel
  <1>. QED BY <1>1, <1>2

LEMMA NewConfigModes ==
    ASSUME NEW r, RequestShape(r), RequestModes(r)
    PROVE  Modes(NewConfig(r))
  <1>1. PICK s, m, t : r.config = [default_sched |-> s, default_mode |-> m, scheds |-> t]
    BY DEF RequestShape, ConfigShape
  <1>2. m \in SchedMode \cup {None}
    BY <1>1 DEF RequestModes, Modes
  <1>3. CASE r.op = "disable"
    BY <1>1, <1>2, <1>3 DEF NewConfig, Modes
  <1>4. CASE r.op # "disable"
    <2>1. r.op = "apply"
      BY <1>4 DEF RequestShape
    <2>2. r.mode \in SchedMode
      BY <2>1 DEF RequestModes
    <2>3. NewConfig(r) = [r.config EXCEPT !.default_sched = r.sched, !.default_mode = r.mode]
      BY <1>4 DEF NewConfig
    <2>4. NewConfig(r).default_mode = r.mode
      BY <1>1, <2>3
    <2>. QED BY <2>2, <2>4 DEF Modes
  <1>. QED BY <1>3, <1>4

LEMMA DefaultModes == Modes(DefaultConfig) /\ WindowModes(Closed)
  <1>1. Modes(DefaultConfig)
    BY DEF Modes, DefaultConfig, SchedMode
  <1>. QED BY <1>1 DEF WindowModes, Closed, Empty, ProfileItems

LEMMA WindowInitModes ==
    ASSUME NEW f, FileModes(f), NEW supported
    PROVE  WindowModes(WindowInit(f, supported))
  <1>. DEFINE k == InitConfig(f)
              mode == IF k.default_mode = None THEN "Auto" ELSE k.default_mode
              off == supported.failed
              failed == InitFails(f)
  <1>1. Modes(k)
    BY DefaultModes DEF InitConfig, FileModes
  <1>2. mode \in SchedMode
    BY <1>1 DEF Modes, SchedMode
  <1>3. Label(mode) \in ProfileItems
    BY <1>2, LabelledModes
  <1>. HIDE DEF k, off, failed
  <1>4. \A why : WindowModes([Empty(k) EXCEPT !.critical = why])
    BY <1>1 DEF WindowModes, Empty, ProfileItems
  <1>5. CASE failed
    BY <1>4, <1>5 DEF WindowInit, k, failed
  <1>6. CASE ~failed /\ off
    BY <1>4, <1>6 DEF WindowInit, k, failed, off
  <1>7. CASE ~failed /\ ~off
    <2>. DEFINE sched == IF k.default_sched = None THEN "" ELSE k.default_sched
                flags == JoinFlags(FlagsForMode(k, OrBpfland(sched), mode))
                visible == ProfileVisible(sched)
                label == Label(mode)
                w == [enabled |-> TRUE, schedulers |-> supported.names,
                      scheduler |-> sched, profile |-> label, profileVisible |-> visible,
                      flags |-> flags, critical |-> None, config |-> k]
    <2>1. WindowInit(f, supported) = w
      BY <1>7 DEF WindowInit, k, failed, off
    <2>. HIDE DEF mode, sched, flags, visible, label
    <2>2. w.enabled \in BOOLEAN /\ w.profile = label /\ w.config = k
      OBVIOUS
    <2>3. {"enabled", "profile", "config"} \subseteq DOMAIN w
      OBVIOUS
    <2>. HIDE DEF w
    <2>4. label \in ProfileItems
      BY <1>3 DEF label
    <2>5. WindowModes(w)
      BY <1>1, <2>2, <2>3, <2>4 DEF WindowModes
    <2>. QED BY <2>1, <2>5
  <1>. QED BY <1>5, <1>6, <1>7

LEMMA EditModes ==
    ASSUME NEW w, WindowModes(w)
    PROVE  /\ \A s : WindowModes(OnSchedChanged(w, s))
           /\ \A l \in ProfileItems : WindowModes(OnProfileChanged(w, l))
           /\ \A t : WindowModes([w EXCEPT !.flags = t])
           /\ \A why : WindowModes([w EXCEPT !.critical = why])
  <1>1. \A s : WindowModes(OnSchedChanged(w, s))
    BY DEF WindowModes, OnSchedChanged
  <1>2. \A l \in ProfileItems : WindowModes(OnProfileChanged(w, l))
    BY DEF WindowModes, OnProfileChanged
  <1>3. \A t : WindowModes([w EXCEPT !.flags = t])
    BY DEF WindowModes
  <1>4. \A why : WindowModes([w EXCEPT !.critical = why])
    BY DEF WindowModes
  <1>. QED BY <1>1, <1>2, <1>3, <1>4

LEMMA TypeInit == Init => TInv
  <1>. SUFFICES ASSUME Init PROVE TInv
    OBVIOUS
  <1>1. FileModes(file)
    BY StartsAssumption DEF Init, FileModes, Modes
  <1>2. FileModes(tmp)
    BY DEF Init, FileModes, Absent
  <1>3. Windows
    BY DefaultModes DEF Init, Windows, IdleInit
  <1>4. Requests
    BY DEF Init, Requests, IdleCall
  <1>5. Shown
    BY DEF Init, Shown, IdleInit
  <1>. QED BY <1>1, <1>2, <1>3, <1>4, <1>5 DEF TInv, Disks

(* A step of a thread that is under way, with the request it has.          *)
LEMMA ThreadModes ==
    ASSUME Shapes, TInv, NEW c \in Calls, NEW t, call' = [call EXCEPT ![c] = t],
           t.pc # "idle" => call[c].pc # "idle" /\ t.request = call[c].request,
           UNCHANGED <<open, window, init>>, dialog' \in {dialog, "error"}, Disks'
    PROVE  TInv'
  <1>1. Requests'
    BY DEF Shapes, TInv, Requests
  <1>2. Windows'
    BY DEF TInv, Windows
  <1>3. Shown'
    BY DEF TInv, Shown
  <1>. QED BY <1>1, <1>2, <1>3 DEF TInv

LEMMA StartModes ==
    ASSUME SInv, TInv, NEW c \in Calls, NEW r, RequestModes(r), Start(c, r)
    PROVE  TInv'
  <1>1. /\ call' = [d \in Calls |->
                       IF d = c THEN Started(r)
                       ELSE IF call[d].pc = "idle" THEN call[d]
                       ELSE [call[d] EXCEPT !.alone = FALSE, !.smooth = FALSE]]
        /\ UNCHANGED <<open, window, dialog, init, file, tmp>>
    BY DEF Start, ui, disk
  <1>2. ASSUME NEW d \in Calls, call'[d].pc # "idle"
        PROVE  RequestModes(call'[d].request)
    <2>1. CASE d = c
      <3>1. Started(r).request = r
        BY DEF Started
      <3>. QED BY <1>1, <2>1, <3>1
    <2>2. CASE d # c /\ call[d].pc = "idle"
      BY <1>1, <1>2, <2>2
    <2>3. CASE d # c /\ call[d].pc # "idle"
      <3>. DEFINE x == [call[d] EXCEPT !.alone = FALSE, !.smooth = FALSE]
      <3>1. call'[d] = x
        BY <1>1, <2>3
      <3>2. RequestModes(call[d].request)
        BY <2>3 DEF TInv, Requests
      <3>3. x.request = call[d].request
        <4>1. AnyThread(call[d])
          BY DEF SInv, Threads, ThreadInv
        <4>2. PICK pc, q, p, o, a, b :
                  call[d] = [pc |-> pc, request |-> q, plan |-> p, ok |-> o,
                             alone |-> a, smooth |-> b]
          BY <4>1 DEF AnyThread, ThreadShape
        <4>. QED BY <4>2
      <3>. HIDE DEF x
      <3>. QED BY <3>1, <3>2, <3>3
    <2>. QED BY <2>1, <2>2, <2>3
  <1>. QED BY <1>1, <1>2 DEF TInv, Disks, Windows, Requests, Shown

LEMMA TypeNext == SInv /\ TInv /\ [Next]_vars => TInv'
  <1>. SUFFICES ASSUME SInv, TInv, [Next]_vars PROVE TInv'
    OBVIOUS
  <1>0. /\ Shapes /\ Disks /\ Windows /\ Requests /\ Shown
        /\ \A c \in Calls : AnyThread(call[c])
    BY DEF SInv, TInv, Threads, ThreadInv
  <1>1. CASE \/ Close \/ DialogDismissed \/ SchedulerPicked \/ ProfilePicked
             \/ FlagsChanged \/ ApplyRefused
    <2>1. UNCHANGED <<init, call, file, tmp>> /\ open' \in {open, FALSE}
          /\ dialog' \in {dialog, None, "error"}
      BY <1>1 DEF Close, DialogDismissed, SchedulerPicked, ProfilePicked, FlagsChanged,
                  ApplyRefused, disk
    <2>2. WindowModes(window')
      <3>1. CASE SchedulerPicked
        BY <1>0, <3>1, EditModes DEF SchedulerPicked, Windows
      <3>2. CASE ProfilePicked
        BY <1>0, <3>2, EditModes, LabelsAssumption DEF ProfilePicked, Windows
      <3>3. CASE FlagsChanged
        <4>1. PICK t : window' = [window EXCEPT !.flags = t]
          BY <3>3 DEF FlagsChanged
        <4>2. WindowModes([window EXCEPT !.flags = t])
          BY <1>0, EditModes DEF Windows
        <4>. QED BY <4>1, <4>2
      <3>4. CASE Close \/ DialogDismissed \/ ApplyRefused
        BY <1>0, <3>4 DEF Close, DialogDismissed, ApplyRefused, Windows
      <3>. QED BY <1>1, <3>1, <3>2, <3>3, <3>4
    <2>3. Shown'
      BY <1>0, <2>1 DEF Shown
    <2>. QED BY <1>0, <2>1, <2>2, <2>3 DEF TInv, Disks, Windows, Requests
  <1>2. CASE Restart
    <2>1. /\ open' = FALSE /\ window' = Closed /\ dialog' = None
          /\ init' = [i \in Inits |-> IdleInit] /\ call' = [c \in Calls |-> IdleCall]
          /\ UNCHANGED <<file, tmp>>
      BY <1>2 DEF Restart, disk
    <2>2. Requests'
      BY <2>1 DEF Requests, IdleCall
    <2>3. Windows'
      BY <2>1, DefaultModes DEF Windows, IdleInit
    <2>4. Shown'
      BY <2>1 DEF Shown, IdleInit
    <2>. QED BY <1>0, <2>1, <2>2, <2>3, <2>4 DEF TInv, Disks
  <1>3. ASSUME NEW i \in Inits, Show(i) \/ InitTask(i) \/ ScxInit(i) \/ InitPanics(i)
        PROVE  TInv'
    <2>1. UNCHANGED <<call, file, tmp>> /\ open' \in {open, TRUE} /\ dialog' \in {dialog, "error"}
      BY <1>3 DEF Show, InitTask, ScxInit, InitPanics, ui, disk
    <2>2. PICK t : /\ init' = [init EXCEPT ![i] = t]
                   /\ t.pc \in {"idle", "reading", "done"}
                   /\ t.pc = "done" => WindowModes(t.window)
      <3>1. CASE Show(i)
        <4>1. PICK t : t = [pc |-> "reading"]
          OBVIOUS
        <4>2. t.pc = "reading"
          BY <4>1
        <4>. QED BY <3>1, <4>1, <4>2 DEF Show
      <3>2. CASE InitTask(i)
        <4>1. PICK failed \in BOOLEAN :
                  init' = [init EXCEPT ![i] =
                      [pc |-> "done",
                       window |-> WindowInit(file, [failed |-> failed, names |-> Supported])]]
          BY <3>2 DEF InitTask
        <4>. DEFINE w == WindowInit(file, [failed |-> failed, names |-> Supported])
        <4>2. WindowModes(w)
          BY <1>0, WindowInitModes DEF Disks
        <4>. HIDE DEF w
        <4>3. PICK t : t = [pc |-> "done", window |-> w]
          OBVIOUS
        <4>4. t.pc = "done" /\ t.window = w
          BY <4>3
        <4>. QED BY <4>1, <4>2, <4>3, <4>4 DEF w
      <3>3. CASE ScxInit(i) \/ InitPanics(i)
        BY <3>3 DEF ScxInit, InitPanics, IdleInit
      <3>. QED BY <1>3, <3>1, <3>2, <3>3
    <2>3. \A j \in Inits : init'[j] \in {init[j], t} /\ (j # i => init'[j] = init[j])
      BY <1>0, <2>2 DEF Shapes
    <2>4. WindowModes(window')
      <3>1. CASE ScxInit(i)
        BY <1>0, <3>1, EditModes DEF ScxInit, Windows
      <3>2. CASE Show(i) \/ InitTask(i) \/ InitPanics(i)
        BY <1>0, <3>2 DEF Show, InitTask, InitPanics, ui, Windows
      <3>. QED BY <1>3, <3>1, <3>2
    <2>5. Windows'
      BY <1>0, <2>2, <2>3, <2>4 DEF Windows
    <2>6. Shown'
      BY <1>0, <2>1, <2>2, <2>3 DEF Shown
    <2>. QED BY <1>0, <2>1, <2>5, <2>6 DEF TInv, Disks, Requests
  <1>4. ASSUME NEW c \in Calls, ApplyPressed(c) \/ DisablePressed(c)
        PROVE  TInv'
    <2>1. Modes(window.config)
      BY <1>0 DEF Windows, WindowModes
    <2>2. RequestModes(ApplyRequest)
      BY <2>1, LabelledModes DEF RequestModes, ApplyRequest
    <2>3. RequestModes(DisableRequest)
      BY <2>1 DEF RequestModes, DisableRequest
    <2>. QED BY <1>4, <2>2, <2>3, StartModes DEF ApplyPressed, DisablePressed
  <1>5. ASSUME NEW c \in Calls,
               \/ Plan(c) \/ CallFails(c) \/ ResolveConflict(c) \/ CallLoader(c)
               \/ EnableLoader(c) \/ WriteTmp(c) \/ CopyTmp(c) \/ Reported(c)
        PROVE  TInv'
    <2>0. AnyThread(call[c]) /\ ThreadShape(call[c])
      BY <1>0 DEF AnyThread
    <2>1. UNCHANGED <<open, window, init>> /\ dialog' \in {dialog, "error"}
      BY <1>5 DEF Plan, CallFails, ResolveConflict, CallLoader, EnableLoader, WriteTmp,
                  CopyTmp, Reported, ui
    <2>2. PICK t : /\ call' = [call EXCEPT ![c] = t]
                   /\ t.pc # "idle" => call[c].pc # "idle" /\ t.request = call[c].request
      <3>1. ASSUME NEW to, NEW failed \in BOOLEAN, call[c].pc # "idle", Step(c, to, failed)
            PROVE  \E t : /\ call' = [call EXCEPT ![c] = t]
                          /\ t.pc # "idle" => call[c].pc # "idle" /\ t.request = call[c].request
        <4>. DEFINE t == Moved(call[c], to, failed)
        <4>1. t.request = call[c].request
          BY <2>0, MovedIs
        <4>2. call' = [call EXCEPT ![c] = t]
          BY <3>1 DEF Step
        <4>. HIDE DEF t
        <4>. QED BY <3>1, <4>1, <4>2
      <3>2. CASE Plan(c)
        <4>. DEFINE p == PlanOf(call[c].request)
                    x == [call[c] EXCEPT !.pc = "service"]
                    t == [x EXCEPT !.plan = p]
        <4>1. call[c].pc # "idle"
          BY <3>2 DEF Plan
        <4>2. call' = [call EXCEPT ![c] = t]
          <5>1. call' = [call EXCEPT ![c].pc = "service", ![c].plan = p]
            BY <3>2 DEF Plan
          <5>. HIDE DEF p
          <5>. QED BY <1>0, <5>1 DEF Shapes
        <4>3. PICK pc, q, r, o, a, b :
                  call[c] = [pc |-> pc, request |-> q, plan |-> r, ok |-> o,
                             alone |-> a, smooth |-> b]
          BY <2>0 DEF ThreadShape
        <4>4. x = [pc |-> "service", request |-> q, plan |-> r, ok |-> o,
                   alone |-> a, smooth |-> b]
          BY <4>3
        <4>. HIDE DEF p, x
        <4>5. t.request = q /\ call[c].request = q
          BY <4>3, <4>4
        <4>. HIDE DEF t
        <4>. QED BY <4>1, <4>2, <4>5
      <3>3. CASE CallFails(c)
        BY <3>1, <3>3 DEF CallFails
      <3>4. CASE ResolveConflict(c)
        BY <3>1, <3>4 DEF ResolveConflict, ServiceStep
      <3>5. CASE EnableLoader(c)
        BY <3>1, <3>5 DEF EnableLoader, ServiceStep
      <3>6. CASE CallLoader(c)
        <4>1. PICK failed \in BOOLEAN :
                  call' = [call EXCEPT ![c] =
                      [Moved(call[c], "loader", failed) EXCEPT !.ok = ~failed]]
          BY <3>6 DEF CallLoader
        <4>. DEFINE x == Moved(call[c], "loader", failed)
                    ok == ~failed
                    t == [x EXCEPT !.ok = ok]
        <4>2. ThreadShape(x) /\ x.request = call[c].request
          BY <2>0, MovedIs
        <4>3. call[c].pc # "idle"
          BY <3>6 DEF CallLoader
        <4>4. call' = [call EXCEPT ![c] = t]
          BY <4>1
        <4>. HIDE DEF x, ok
        <4>5. PICK pc, q, r, o, a, b :
                  x = [pc |-> pc, request |-> q, plan |-> r, ok |-> o,
                       alone |-> a, smooth |-> b]
          BY <4>2 DEF ThreadShape
        <4>6. t.request = x.request
          BY <4>5
        <4>. HIDE DEF t
        <4>. QED BY <4>2, <4>3, <4>4, <4>6
      <3>7. CASE WriteTmp(c)
        BY <3>1, <3>7 DEF WriteTmp
      <3>8. CASE CopyTmp(c)
        BY <3>1, <3>8 DEF CopyTmp
      <3>9. CASE Reported(c)
        <4>1. call' = [call EXCEPT ![c] = IdleCall]
          BY <3>9 DEF Reported
        <4>2. IdleCall.pc = "idle"
          BY DEF IdleCall
        <4>. QED BY <4>1, <4>2
      <3>. QED BY <1>5, <3>2, <3>3, <3>4, <3>5, <3>6, <3>7, <3>8, <3>9
    <2>3. Disks'
      <3>1. CASE WriteTmp(c)
        <4>1. call[c].pc = "write" /\ file' = file
              /\ tmp' \in {tmp, File(call[c].plan.config)}
          BY <3>1 DEF WriteTmp
        <4>2. call[c].plan.config = NewConfig(call[c].request) /\ RequestShape(call[c].request)
          BY <2>0, <4>1 DEF AnyThread, Planned
        <4>3. Modes(call[c].plan.config)
          BY <1>0, <4>1, <4>2, NewConfigModes DEF Requests
        <4>. QED BY <1>0, <4>1, <4>3 DEF Disks, FileModes, File
      <3>2. CASE CopyTmp(c)
        <4>1. file' \in {file, tmp} /\ tmp' \in {tmp, Absent}
          BY <3>2 DEF CopyTmp
        <4>. QED BY <1>0, <4>1 DEF Disks, FileModes, Absent
      <3>3. CASE \/ Plan(c) \/ CallFails(c) \/ ResolveConflict(c) \/ CallLoader(c)
                 \/ EnableLoader(c) \/ Reported(c)
        BY <1>0, <3>3 DEF Plan, CallFails, ResolveConflict, CallLoader, EnableLoader,
                          Reported, disk, Disks
      <3>. QED BY <1>5, <3>1, <3>2, <3>3
    <2>. QED BY <1>0, <2>1, <2>2, <2>3, ThreadModes
  <1>6. CASE UNCHANGED vars
    BY <1>0, <1>6 DEF vars, ui, disk, TInv, Disks, Windows, Requests, Shown
  <1>. QED BY <1>1, <1>2, <1>3, <1>4, <1>5, <1>6 DEF Next

(* The window always shows a profile of its box, whatever file it was read *)
(* from and by however many threads, and every thread is where a request   *)
(* of this window has brought it.                                          *)
THEOREM TypeCorrect == Spec => []TypeOK
  <1>1. SInv /\ TInv => TypeOK
    <2>. SUFFICES ASSUME SInv, TInv PROVE TypeOK
      OBVIOUS
    <2>1. open \in BOOLEAN /\ dialog \in {None, "error"}
          /\ \A i \in Inits : init[i].pc \in {"idle", "reading", "done"}
      BY DEF TInv, Shown
    <2>2. window.enabled \in BOOLEAN /\ window.profile \in ProfileItems
      BY DEF TInv, Windows, WindowModes
    <2>3. {machine.scxEnabled, machine.scxActive, machine.loaderEnabled} \subseteq BOOLEAN
      BY DEF SInv, Shapes, MachineShape
    <2>4. ASSUME NEW c \in Calls
          PROVE  /\ call[c].pc \in {"idle", "probe", "service", "switch", "loader",
                                    "write", "copy", "report"}
                 /\ call[c].request.op \in {None, "apply", "disable"}
                 /\ {call[c].ok, call[c].alone, call[c].smooth} \subseteq BOOLEAN
      <3>1. AnyThread(call[c])
        BY DEF SInv, Threads, ThreadInv
      <3>2. call[c].pc \in {"idle", "probe", "service", "switch", "loader",
                            "write", "copy", "report"}
        BY <3>1 DEF AnyThread, Planned
      <3>3. {call[c].ok, call[c].alone, call[c].smooth} \subseteq BOOLEAN
        BY <3>1 DEF AnyThread, ThreadShape
      <3>4. IdleCall.request.op = None
        BY DEF IdleCall, Nothing
      <3>5. call[c].request.op \in {None, "apply", "disable"}
        <4>1. CASE call[c].pc = "idle"
          <5>1. call[c] = IdleCall
            BY <3>1, <4>1 DEF AnyThread
          <5>. QED BY <3>4, <5>1
        <4>2. CASE call[c].pc # "idle"
          <5>1. RequestShape(call[c].request)
            BY <3>1, <4>2 DEF AnyThread
          <5>. QED BY <5>1 DEF RequestShape
        <4>. QED BY <4>1, <4>2
      <3>. QED BY <3>2, <3>3, <3>5
    <2>5. settled.op \in {None, "apply", "disable"}
      BY DEF SInv, Settles
    <2>. QED BY <2>1, <2>2, <2>3, <2>4, <2>5 DEF TypeOK
  <1>. QED BY <1>1, Invariance, InitHolds, NextHolds, TypeInit, TypeNext, PTL DEF Spec

-------------------------------------------------------------------------------
(***************************************************************************)
(* The reference of the courts, tools/scx-oracle-ref, is a second reading  *)
(* of the original's source.  Asked the same of any file, flags and loader *)
(* it gives the answers of the crate, on the inputs the courts compare.    *)
(***************************************************************************)
Corpus == INSTANCE ScxCorpus WITH Files <- {start.file : start \in Starts}, FlagTexts <- Texts,
                                  Supported <- [failed : BOOLEAN, names : {Supported}]

(* The file has sections for the schedulers the program knows only.        *)
SectionsAreKnown ==
    \A start \in Starts :
        start.file.kind = "config" => DOMAIN start.file.config.scheds \subseteq SupportedSched

RefModes == {"auto", "gaming", "powersave", "lowlatency", "server"}

LEMMA ModesByLabel ==
    ASSUME NEW label \in ProfileItems
    PROVE  /\ Corpus!ModeOf(label) \in RefModes
           /\ Corpus!FieldOf(Corpus!ModeOf(label)) = Corpus!ModeFromLabel(label)
           /\ Corpus!ModeLabel(label) = Corpus!ModeFromLabel(label)
  BY DEF ProfileItems, RefModes, Corpus!ModeOf, Corpus!FieldOf, Corpus!ModeFromLabel, Corpus!ModeLabel

LEMMA BuiltInFlags ==
    ASSUME NEW name, NEW mode \in RefModes
    PROVE  Corpus!RefDefaultFlags(Corpus!SchedOf(name), mode)
           = Corpus!DefaultFlags(Corpus!OrBpfland(name), Corpus!FieldOf(mode))
  <1>1. \/ Corpus!SchedOf(name) = "bpfland" /\ Corpus!OrBpfland(name) = "scx_bpfland"
        \/ Corpus!SchedOf(name) = "lavd" /\ Corpus!OrBpfland(name) = "scx_lavd"
        \/ Corpus!SchedOf(name) = "rusty" /\ Corpus!OrBpfland(name) = "scx_rusty"
        \/ Corpus!SchedOf(name) = "flash" /\ Corpus!OrBpfland(name) = "scx_flash"
    BY DEF Corpus!SchedOf, Corpus!OrBpfland, Corpus!Parses, Corpus!SupportedSched, Corpus!Bpfland, Corpus!Lavd
  <1>2. \/ mode = "auto" /\ Corpus!FieldOf(mode) = "Auto"
        \/ mode = "gaming" /\ Corpus!FieldOf(mode) = "Gaming"
        \/ mode = "powersave" /\ Corpus!FieldOf(mode) = "PowerSave"
        \/ mode = "lowlatency" /\ Corpus!FieldOf(mode) = "LowLatency"
        \/ mode = "server" /\ Corpus!FieldOf(mode) = "Server"
    BY DEF RefModes, Corpus!FieldOf
  <1> QED
    BY <1>1, <1>2 DEF Corpus!RefDefaultFlags, Corpus!DefaultFlags, Corpus!Bpfland, Corpus!Lavd

LEMMA FlagsOfAMode ==
    ASSUME NEW toml, NEW name, NEW mode \in RefModes, Corpus!ReadsAlike(name, toml),
           toml.kind = "config" => DOMAIN toml.config.scheds \subseteq SupportedSched
    PROVE  Corpus!RefModeFlags(toml, name, mode)
           = Corpus!FlagsForMode(Corpus!InitConfig(toml), Corpus!OrBpfland(name), Corpus!FieldOf(mode))
  <1> DEFINE field == Corpus!FieldOf(mode)  known == Corpus!OrBpfland(name)
             scheds == Corpus!InitConfig(toml).scheds
             builtIn == Corpus!DefaultFlags(known, field)
  <1>1. Corpus!RefDefaultFlags(Corpus!SchedOf(name), mode) = builtIn
    BY BuiltInFlags
  <1>2. CASE toml.kind # "config"
    <2>1. Corpus!ConfigModeFlags(toml, name, mode) = {}
      BY <1>2 DEF Corpus!ConfigModeFlags
    <2>2. DOMAIN scheds = {}
      BY <1>2 DEF Corpus!InitConfig, Corpus!DefaultConfig
    <2> QED
      BY <1>1, <2>1, <2>2 DEF Corpus!RefModeFlags, Corpus!FlagsForMode
  <1>3. CASE toml.kind = "config"
    <2>1. scheds = toml.config.scheds
      BY <1>3 DEF Corpus!InitConfig
    <2>2. known \in DOMAIN scheds <=> name \in DOMAIN scheds
      BY <1>3, <2>1 DEF Corpus!ReadsAlike, Corpus!OrBpfland, Corpus!Parses, Corpus!SupportedSched,
                        Corpus!Bpfland, Corpus!Lavd, SupportedSched, Bpfland, Lavd
    <2>3. name \in DOMAIN scheds => known = name
      BY <1>3, <2>1 DEF Corpus!OrBpfland, Corpus!Parses, Corpus!SupportedSched,
                        Corpus!Bpfland, Corpus!Lavd, SupportedSched, Bpfland, Lavd
    <2>4. CASE name \in DOMAIN scheds /\ field \in DOMAIN scheds[name]
      <3> DEFINE flags == scheds[name][field]
      <3>1. Corpus!ConfigModeFlags(toml, name, mode) = {flags}
        BY <1>3, <2>1, <2>4 DEF Corpus!ConfigModeFlags
      <3>2. Corpus!FlagsForMode(Corpus!InitConfig(toml), known, field) = flags
        BY <2>3, <2>4 DEF Corpus!FlagsForMode
      <3> HIDE DEF flags
      <3>3. Corpus!RefModeFlags(toml, name, mode) = flags
        BY <3>1 DEF Corpus!RefModeFlags
      <3> QED
        BY <3>2, <3>3
    <2>5. CASE ~(name \in DOMAIN scheds /\ field \in DOMAIN scheds[name])
      <3>1. Corpus!ConfigModeFlags(toml, name, mode) = {}
        BY <2>1, <2>5 DEF Corpus!ConfigModeFlags
      <3>2. ~(known \in DOMAIN scheds /\ field \in DOMAIN scheds[known])
        BY <2>2, <2>3, <2>5
      <3>3. Corpus!FlagsForMode(Corpus!InitConfig(toml), known, field) = builtIn
        BY <3>2 DEF Corpus!FlagsForMode
      <3> QED
        BY <1>1, <3>1, <3>3 DEF Corpus!RefModeFlags
    <2> QED
      BY <2>4, <2>5
  <1> QED
    BY <1>2, <1>3

(* What the window shows when it is opened.                                *)
LEMMA OpenedWindow ==
    ASSUME SectionsAreKnown, NEW in \in Corpus!ScxInputs("window-init")
    PROVE  Corpus!InitStepJson(in) = Corpus!RefWindowInit(in)
  <1> DEFINE toml == in.file  config == Corpus!InitConfig(toml)
             sched == IF config.default_sched = "none" THEN "" ELSE config.default_sched
             mode == IF config.default_mode = "none" THEN "Auto" ELSE config.default_mode
             defaults == Corpus!ConfigDefaults(toml)
             w == Corpus!WindowInit(toml, in.supported)
  <1>1. /\ in \in [file : {start.file : start \in Starts}, supported : [failed : BOOLEAN, names : {Supported}],
                  running : {"disabled"}]
        /\ Corpus!ReadsAlike(Corpus!Opened(toml), toml)
    BY DEF Corpus!ScxInputs
  <1>2. PICK start \in Starts : toml = start.file
    BY <1>1
  <1>3. CASE toml = Corpus!Broken
    <2>1. w = [Corpus!Empty(config) EXCEPT !.critical = "configuration"]
      BY <1>3 DEF Corpus!WindowInit, Corpus!InitFails
    <2>2. w.critical = "configuration"
      BY <2>1 DEF Corpus!Empty
    <2> HIDE DEF w
    <2> QED
      BY <1>3, <2>2 DEF Corpus!InitStepJson, Corpus!RefWindowInit, Corpus!None, w
  <1>4. CASE toml # Corpus!Broken /\ in.supported.failed
    <2>1. w = [Corpus!Empty(config) EXCEPT !.critical = "no loader"]
      BY <1>4 DEF Corpus!WindowInit, Corpus!InitFails
    <2>2. w.critical = "no loader"
      BY <2>1 DEF Corpus!Empty
    <2> HIDE DEF w
    <2> QED
      BY <1>4, <2>2 DEF Corpus!InitStepJson, Corpus!RefWindowInit, Corpus!None, w
  <1>5. CASE toml # Corpus!Broken /\ ~in.supported.failed
    <2> DEFINE flags == Corpus!JoinFlags(Corpus!FlagsForMode(config, Corpus!OrBpfland(sched), mode))
    <2>1. w = [enabled |-> TRUE, schedulers |-> in.supported.names, scheduler |-> sched,
               profile |-> Corpus!Label(mode), profileVisible |-> Corpus!ProfileVisible(sched),
               flags |-> flags, critical |-> "none", config |-> config]
      BY <1>5 DEF Corpus!WindowInit, Corpus!InitFails, Corpus!None
    <2>2. /\ config.default_mode \in {"Auto", "Gaming", "PowerSave", "LowLatency", "Server", "none"}
          /\ defaults.sched = config.default_sched
          /\ mode \in {"Auto", "Gaming", "PowerSave", "LowLatency", "Server"}
          /\ defaults.mode = Corpus!AsU8(mode)
      <3>1. CASE toml.kind = "config"
        BY <1>2, <3>1, StartsAssumption
           DEF Corpus!InitConfig, Corpus!ConfigDefaults, Corpus!AsU8, SchedMode, None
      <3>2. CASE toml.kind # "config"
        BY <3>2 DEF Corpus!InitConfig, Corpus!ConfigDefaults, Corpus!AsU8, Corpus!DefaultConfig, Corpus!None
      <3> QED
        BY <3>1, <3>2
    <2>3. Corpus!ModeFromLabel(Corpus!Label(mode)) = mode
      <3> HIDE DEF mode
      <3> QED
        BY <2>2 DEF Corpus!ModeFromLabel, Corpus!Label
    <2> DEFINE refMode == Corpus!RefModes[defaults.mode + 1]
    <2>4. refMode \in RefModes /\ Corpus!FieldOf(refMode) = mode
      <3> HIDE DEF mode, defaults
      <3> QED
        BY <2>2 DEF Corpus!RefModes, RefModes, Corpus!FieldOf, Corpus!AsU8
    <2>5. Corpus!ReadsAlike(sched, toml)
      <3>1. toml.kind = "config" => config = toml.config
        BY DEF Corpus!InitConfig
      <3> QED
        BY <1>1, <3>1 DEF Corpus!ReadsAlike, Corpus!Opened, Corpus!SupportedSched, Corpus!Bpfland,
                          Corpus!Lavd, Corpus!None
    <2>6. toml.kind = "config" => DOMAIN toml.config.scheds \subseteq SupportedSched
      BY <1>2 DEF SectionsAreKnown
    <2> HIDE DEF sched, mode, defaults, refMode, config
    <2>7. Corpus!RefModeFlags(toml, sched, refMode) = Corpus!FlagsForMode(config, Corpus!OrBpfland(sched), mode)
      <3>1. Corpus!RefModeFlags(toml, sched, refMode)
            = Corpus!FlagsForMode(Corpus!InitConfig(toml), Corpus!OrBpfland(sched), Corpus!FieldOf(refMode))
        BY ONLY <2>4, <2>5, <2>6, FlagsOfAMode
      <3> QED
        BY <2>4, <3>1 DEF config
    <2>8. Corpus!RefProfileVisible(sched) = Corpus!ProfileVisible(sched)
      BY DEF Corpus!RefProfileVisible, Corpus!ProfileVisible, Corpus!Bpfland, Corpus!Lavd
    <2> DEFINE shown == Corpus!ProfileVisible(sched)
    <2>9. Corpus!RefWindowInit(in)
          = [items |-> in.supported.names, scheduler |-> sched, mode |-> defaults.mode,
             running |-> in.running, visible |-> shown, flags |-> flags]
      <3>1. sched = IF defaults.sched = "none" THEN "" ELSE defaults.sched
        BY <2>2 DEF sched
      <3>2. Corpus!RefWindowInit(in)
            = [items |-> in.supported.names, scheduler |-> sched, mode |-> defaults.mode,
               running |-> in.running, visible |-> Corpus!RefProfileVisible(sched),
               flags |-> Corpus!JoinFlags(Corpus!RefModeFlags(toml, sched, refMode))]
        BY <1>5, <3>1 DEF Corpus!RefWindowInit, Corpus!None, defaults, refMode
      <3> QED
        BY <2>7, <2>8, <3>2
    <2>10. /\ w.critical = "none" /\ w.schedulers = in.supported.names /\ w.scheduler = sched
           /\ w.profile = Corpus!Label(mode) /\ w.profileVisible = shown /\ w.flags = flags
      <3> HIDE DEF shown, flags
      <3>1. w = [enabled |-> TRUE, schedulers |-> in.supported.names, scheduler |-> sched,
                 profile |-> Corpus!Label(mode), profileVisible |-> shown,
                 flags |-> flags, critical |-> "none", config |-> config]
        BY <2>1, Zenon DEF shown
      <3> HIDE DEF w
      <3> QED
        BY <3>1
    <2> HIDE DEF w, flags, shown
    <2>11. Corpus!InitStepJson(in)
           = [items |-> w.schedulers, scheduler |-> w.scheduler,
              mode |-> Corpus!AsU8(Corpus!ModeFromLabel(w.profile)),
              running |-> in.running, visible |-> w.profileVisible, flags |-> w.flags]
      <3>1. w.critical = Corpus!None
        BY <2>10 DEF Corpus!None
      <3> QED
        BY <3>1 DEF Corpus!InitStepJson, w
    <2> QED
      BY <2>2, <2>3, <2>9, <2>10, <2>11
  <1> QED
    BY <1>1, <1>3, <1>4, <1>5

(* The steps of an Apply.                                                  *)
LEMMA AppliedSteps ==
    ASSUME NEW in, in.sched \in SupportedSched, in.label \in ProfileItems,
           in.dbOk \in BOOLEAN, in.enabled \in BOOLEAN, in.active \in BOOLEAN, in.loaderEnabled \in BOOLEAN,
           in.file.kind = "config" => DOMAIN in.file.config.scheds \subseteq SupportedSched
    PROVE  Corpus!ApplyTrace(in) = Corpus!RefApply(in)
  <1> DEFINE mode == Corpus!ModeFromLabel(in.label)  args == Corpus!SchedArgs(in.flags)
             config == Corpus!InitConfig(in.file)
             input == [sched |-> in.sched, mode |-> mode, flags |-> in.flags, config |-> config,
                       scxEnabled |-> in.enabled, scxActive |-> in.active, loaderEnabled |-> in.loaderEnabled]
             plan == Corpus!ApplyPlan(input)
             builtIn == Corpus!FlagsForMode(config, in.sched, mode)
  <1>1. /\ Corpus!ReadsAlike(in.sched, in.file) /\ Corpus!OrBpfland(in.sched) = in.sched
        /\ in.file.kind = "config" => DOMAIN in.file.config.scheds \subseteq SupportedSched
    BY DEF Corpus!ReadsAlike, Corpus!OrBpfland, Corpus!Parses, Corpus!SupportedSched, Corpus!Bpfland,
           Corpus!Lavd, SupportedSched, Bpfland, Lavd
  <1>2. /\ Corpus!ModeOf(in.label) \in RefModes /\ Corpus!FieldOf(Corpus!ModeOf(in.label)) = mode
        /\ Corpus!ModeLabel(in.label) = mode
    BY ModesByLabel
  <1>3. Corpus!RefModeFlags(in.file, in.sched, Corpus!ModeOf(in.label)) = builtIn
    BY <1>1, <1>2, FlagsOfAMode
  <1>4. (IF in.flags = << >> THEN << >> ELSE Corpus!SplitBlanks(in.flags)) = args
    BY DEF Corpus!SchedArgs
  <1> HIDE DEF mode, args, config, builtIn
  <1>5. /\ input.sched = in.sched /\ input.mode = mode /\ input.flags = in.flags /\ input.config = config
        /\ input.scxEnabled = in.enabled /\ input.scxActive = in.active
        /\ input.loaderEnabled = in.loaderEnabled
    BY Zenon
  <1>6. /\ plan.service = IF in.enabled THEN "disable scx" ELSE IF in.active THEN "stop scx" ELSE "none"
        /\ plan.enableLoader = ~in.loaderEnabled
        /\ args = builtIn => /\ plan.call.kind = "mode" /\ plan.call.sched = in.sched
                             /\ plan.call.mode = mode
        /\ args # builtIn => /\ plan.call.kind = "args" /\ plan.call.sched = in.sched
                             /\ plan.call.args = args
    <2> DEFINE way == IF in.enabled THEN "disable scx" ELSE IF in.active THEN "stop scx" ELSE "none"
               whom == IF args = builtIn THEN Corpus!SwitchByMode(in.sched, mode)
                       ELSE Corpus!SwitchByArgs(in.sched, args)
               enable == ~in.loaderEnabled
               kept == [config EXCEPT !.default_sched = in.sched, !.default_mode = mode]
    <2> HIDE DEF input
    <2>1. plan = [service |-> way, call |-> whom, enableLoader |-> enable, config |-> kept]
      BY <1>5 DEF Corpus!ApplyPlan, Corpus!None, args, builtIn
    <2> HIDE DEF plan, way, whom, enable, kept
    <2>2. plan.service = way /\ plan.call = whom
      BY <2>1
    <2>3. plan.enableLoader = enable
      BY <2>1, Zenon
    <2>4. /\ args = builtIn => whom.kind = "mode" /\ whom.sched = in.sched /\ whom.mode = mode
          /\ args # builtIn => whom.kind = "args" /\ whom.sched = in.sched /\ whom.args = args
      BY DEF whom, Corpus!SwitchByMode, Corpus!SwitchByArgs
    <2>5. /\ enable = ~in.loaderEnabled
          /\ way = IF in.enabled THEN "disable scx" ELSE IF in.active THEN "stop scx" ELSE "none"
      BY Zenon DEF enable, way
    <2> QED
      BY <2>2, <2>3, <2>4, <2>5
  <1>7. CASE args = builtIn
    BY <1>2, <1>3, <1>4, <1>6, <1>7 DEF Corpus!ApplyTrace, Corpus!RefApply, mode, config
  <1>8. CASE args # builtIn
    BY <1>2, <1>3, <1>4, <1>6, <1>8 DEF Corpus!ApplyTrace, Corpus!RefApply, mode, config
  <1> QED
    BY <1>7, <1>8

(* Of everything the sched-ext courts may ask, the reference tool and the  *)
(* crate say the same, whatever the file, the flags and the loader's       *)
(* schedulers: a larger corpus would pass, too.  The files have sections   *)
(* only for the schedulers the program knows.                              *)
THEOREM ReferenceAgrees ==
    SectionsAreKnown =>
        \A surface \in Corpus!Surfaces : \A in \in Corpus!ScxInputs(surface) :
            Corpus!ScxModel(surface, in) = Corpus!ScxReference(surface, in)
  <1> SUFFICES ASSUME SectionsAreKnown, NEW surface \in Corpus!Surfaces, NEW in \in Corpus!ScxInputs(surface)
               PROVE  Corpus!ScxModel(surface, in) = Corpus!ScxReference(surface, in)
    OBVIOUS
  <1>1. CASE surface = "button-visibility"
    BY <1>1 DEF Corpus!ScxModel, Corpus!ScxReference, Corpus!MainWindowSchedextVisible
  <1>2. CASE surface = "current-scheduler"
    <2>1. Corpus!CurrentScheduler(in.state, in.ops) = Corpus!RefCurrentScheduler(in.state, in.ops)
      BY DEF Corpus!CurrentScheduler, Corpus!RefCurrentScheduler
    <2> QED
      BY <1>2, <2>1 DEF Corpus!ScxModel, Corpus!ScxReference
  <1>3. CASE surface \in {"mode-flags", "profile"}
    <2>1. /\ in \in [sched : Corpus!Names, label : Corpus!Labels, file : Corpus!Valid]
          /\ Corpus!ReadsAlike(in.sched, in.file)
      BY <1>3 DEF Corpus!ScxInputs
    <2>2. in.label \in ProfileItems /\ \E start \in Starts : in.file = start.file
      BY <2>1 DEF Corpus!Labels, Corpus!Valid, Corpus!ProfileItems, ProfileItems
    <2>3. /\ Corpus!ModeOf(in.label) \in RefModes
          /\ Corpus!FieldOf(Corpus!ModeOf(in.label)) = Corpus!ModeFromLabel(in.label)
      BY <2>2, ModesByLabel
    <2>4. in.file.kind = "config" => DOMAIN in.file.config.scheds \subseteq SupportedSched
      BY <2>2 DEF SectionsAreKnown
    <2>5. Corpus!RefModeFlags(in.file, in.sched, Corpus!ModeOf(in.label))
          = Corpus!FlagsForMode(Corpus!InitConfig(in.file), Corpus!OrBpfland(in.sched),
                                Corpus!ModeFromLabel(in.label))
      BY <2>1, <2>3, <2>4, FlagsOfAMode
    <2>6. Corpus!RefProfileVisible(in.sched) = Corpus!ProfileVisible(in.sched)
      BY DEF Corpus!RefProfileVisible, Corpus!ProfileVisible, Corpus!Bpfland, Corpus!Lavd
    <2>7. Corpus!FlagsText(Corpus!InitConfig(in.file), in.sched, in.label)
          = Corpus!JoinFlags(Corpus!RefModeFlags(in.file, in.sched, Corpus!ModeOf(in.label)))
      BY <2>5 DEF Corpus!FlagsText
    <2>8. CASE surface = "mode-flags"
      BY <2>5, <2>8 DEF Corpus!ScxModel, Corpus!ScxReference
    <2>9. CASE surface = "profile"
      <3>1. Corpus!ScxModel(surface, in)
            = [visible |-> Corpus!ProfileVisible(in.sched),
               flags |-> Corpus!FlagsText(Corpus!InitConfig(in.file), in.sched, in.label)]
        BY <2>9 DEF Corpus!ScxModel
      <3>2. Corpus!ScxReference(surface, in)
            = [visible |-> Corpus!RefProfileVisible(in.sched),
               flags |-> Corpus!JoinFlags(Corpus!RefModeFlags(in.file, in.sched, Corpus!ModeOf(in.label)))]
        BY <2>9 DEF Corpus!ScxReference
      <3> QED
        BY <2>6, <2>7, <3>1, <3>2
    <2> QED
      BY <1>3, <2>8, <2>9
  <1>4. CASE surface = "window-init"
    <2>1. Corpus!InitStepJson(in) = Corpus!RefWindowInit(in)
      BY <1>4, OpenedWindow
    <2> QED
      BY <1>4, <2>1 DEF Corpus!ScxModel, Corpus!ScxReference
  <1>5. CASE surface = "apply"
    <2>1. /\ in.sched \in Corpus!SupportedSched \cup {Corpus!Lavd}
          /\ in.label \in Corpus!Labels \cup {"Auto", "Lowlatency"}
          /\ in.dbOk \in BOOLEAN /\ in.enabled \in BOOLEAN /\ in.active \in BOOLEAN
          /\ in.loaderEnabled \in BOOLEAN /\ in.file \in Corpus!Valid \cup {Corpus!Absent}
      <3>1. \/ in \in [sched : Corpus!SupportedSched, label : Corpus!Labels, file : Corpus!Valid, flags : Texts,
                       enabled : {FALSE}, active : {TRUE}, loaderEnabled : {TRUE}, dbOk : {TRUE}]
            \/ in \in [sched : {Corpus!Lavd}, label : {"Auto", "Lowlatency"}, file : {Corpus!Absent}, flags : Texts,
                       enabled : BOOLEAN, active : BOOLEAN, loaderEnabled : BOOLEAN, dbOk : BOOLEAN]
        BY <1>5 DEF Corpus!ScxInputs
      <3> QED
        BY <3>1
    <2>2. in.sched \in SupportedSched /\ in.label \in ProfileItems
      BY <2>1 DEF Corpus!SupportedSched, Corpus!Labels, Corpus!ProfileItems, Corpus!Bpfland, Corpus!Lavd,
                  SupportedSched, Bpfland, Lavd, ProfileItems
    <2>3. in.file.kind = "config" => DOMAIN in.file.config.scheds \subseteq SupportedSched
      <3>1. CASE in.file \in Corpus!Valid
        BY <3>1 DEF Corpus!Valid, SectionsAreKnown
      <3>2. CASE in.file = Corpus!Absent
        BY <3>2 DEF Corpus!Absent
      <3> QED
        BY <2>1, <3>1, <3>2
    <2>4. Corpus!ApplyTrace(in) = Corpus!RefApply(in)
      BY <2>1, <2>2, <2>3, AppliedSteps
    <2> QED
      BY <1>5, <2>4 DEF Corpus!ScxModel, Corpus!ScxReference
  <1>6. CASE surface = "disable"
    <2> DEFINE config == Corpus!InitConfig(in.file)  defaults == Corpus!ConfigDefaults(in.file).sched
             cleared == Corpus!DisablePlan(config).config.default_sched
             steps == Corpus!DisableTrace  before == config.default_sched
    <2>1. before = defaults
      BY DEF Corpus!InitConfig, Corpus!ConfigDefaults, Corpus!DefaultConfig
    <2>2. cleared = Corpus!None
      <3>1. "default_sched" \in DOMAIN config
        <4>1. PICK start \in Starts : in.file = start.file
          BY <1>6 DEF Corpus!ScxInputs, Corpus!Valid
        <4>2. CASE in.file.kind = "config"
          <5>1. config = [default_sched |-> config.default_sched, default_mode |-> config.default_mode,
                          scheds |-> config.scheds]
            BY <4>1, <4>2, StartsAssumption DEF Corpus!InitConfig
          <5> QED
            BY <5>1
        <4> QED
          BY <4>2 DEF Corpus!InitConfig, Corpus!DefaultConfig
      <3> HIDE DEF config
      <3> QED
        BY <3>1 DEF Corpus!DisablePlan
    <2>3. Corpus!ScxModel(surface, in) = [steps |-> steps, before |-> before, after |-> cleared]
      BY <1>6, Zenon DEF Corpus!ScxModel
    <2>4. Corpus!ScxReference(surface, in) = [steps |-> steps, before |-> defaults, after |-> Corpus!None]
      BY <1>6, Zenon DEF Corpus!ScxReference, Corpus!RefDisable, Corpus!DisableTrace
    <2> HIDE DEF steps, before, cleared, defaults
    <2> QED
      BY <2>1, <2>2, <2>3, <2>4
  <1>7. CASE surface = "interface"
    <2> DEFINE names == <<"CurrentScheduler", "SchedulerMode", "SupportedSchedulers">>
             types == <<"s", "u", "as">>
             listed == [i \in 1..3 |-> Corpus!Property(names[i], types[i], "read")]
             ours == <<Corpus!Property("CurrentScheduler", "s", "read"), Corpus!Property("SchedulerMode", "u", "read"),
                       Corpus!Property("SupportedSchedulers", "as", "read")>>
    <2>1. listed = ours
      <3>1. ours \in Seq({ours[1], ours[2], ours[3]}) /\ Len(ours) = 3
        OBVIOUS
      <3>2. listed[1] = ours[1] /\ listed[2] = ours[2] /\ listed[3] = ours[3]
        OBVIOUS
      <3>3. DOMAIN listed = 1..3 /\ DOMAIN ours = 1..3
        BY <3>1
      <3>4. \A i \in 1..3 : listed[i] = ours[i]
        BY <3>2
      <3> HIDE DEF listed, ours
      <3>5. listed = [i \in DOMAIN listed |-> listed[i]] /\ ours = [i \in DOMAIN ours |-> ours[i]]
        BY <3>1 DEF listed
      <3> QED
        BY <3>3, <3>4, <3>5
    <2>2. Corpus!LoaderInterface = Corpus!RefInterface
      <3> HIDE DEF listed, ours
      <3> QED
        BY <2>1, Zenon DEF Corpus!LoaderInterface, Corpus!RefInterface, listed, ours
    <2> QED
      BY <1>7, <2>2 DEF Corpus!ScxModel, Corpus!ScxReference
  <1> QED
    BY <1>1, <1>2, <1>3, <1>4, <1>5, <1>6, <1>7 DEF Corpus!Surfaces
================================================================================
