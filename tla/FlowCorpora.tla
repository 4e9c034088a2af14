------------------------------- MODULE FlowCorpora -------------------------------
(***************************************************************************)
(* The corpora of the courts on the life of the program and of a build:    *)
(* the lock of the single instance, the plan of a build, what follows its  *)
(* end, and the Configure window's OK, Cancel and close.  Each is answered *)
(* by a reference tool, written from the original's source, and by a model *)
(* of the crates.  Lines of text are sequences of words.                   *)
(***************************************************************************)
EXTENDS Naturals, Sequences
LOCAL INSTANCE SequencesExt

CONSTANTS
    Variants,       \* the variants whose builds are planned; on an unknown one the tools differ
    GlobLists,      \* the packages a build makes
    ActionLists     \* what is pressed in the Configure window

Failure == <<"failure">>

-----------------------------------------------------------------------------
(* single-instance/stale-lock: what the four calls on the shared memory    *)
(* return.                                                                 *)
LockOutcomes == [create1 : BOOLEAN, attach : BOOLEAN, detach : BOOLEAN, create2 : BOOLEAN]

RefAlreadyRunning(o) ==
    ~o.create1 /\ (IF o.attach THEN ~o.detach \/ ~o.create2 ELSE ~o.create2)

Decide(o) ==
    CASE o.create1 -> "proceed"
      [] ~o.create1 /\ o.attach /\ ~o.detach -> "already-running"
      [] OTHER -> IF o.create2 THEN "proceed" ELSE "already-running"

-----------------------------------------------------------------------------
(* build-env/lifecycle: the plan of a build of a variant, with the packages *)
(* it makes.                                                               *)
RepoBuild == <<"makepkg", "-scf", "--cleanbuild", "--skipchecksums", "&&", "touch", ".done-status">>
AurBuild == <<"makepkg", "-sicf", "--cleanbuild", "--skipchecksums">>
Pause == <<";", "read -p 'Press enter to exit'">>
Helper == "/usr/lib/cachyos-kernel-manager/terminal-helper"
SudoPacman(globs) == <<"sudo", "pacman", "-U">> \o globs

RefNamePath(variant) ==
    CASE variant = "rt" -> <<"linux-cachyos", "-rt-bore">>
      [] variant \in {"bmq", "bore", "hardened", "lts", "rc", "eevdf", "deckify", "server"} ->
            <<"linux-cachyos", "-", variant>>
      [] OTHER -> <<"linux-cachyos">>
RefBuildFlow(in) ==
    LET path == RefNamePath(in.variant)
    IN  [variant |-> in.variant, path |-> path, working |-> <<"cwd/">> \o path, build |-> RepoBuild,
         terminal |-> <<Helper, RepoBuild \o Pause>>, done |-> <<"cwd/">> \o path \o <<"/.done-status">>,
         aurBuild |-> AurBuild, install |-> SudoPacman(in.globs)]

KnownVariants == {"cachyos", "bore", "rc", "rt", "lts", "eevdf", "bmq", "hardened", "deckify", "server"}
DirName(variant) ==
    CASE variant = "cachyos" -> <<"linux-cachyos">>
      [] variant = "rt" -> <<"linux-cachyos", "-rt-bore">>
      [] OTHER -> <<"linux-cachyos", "-", variant>>
WithPause(cmd) == cmd \o Pause
TerminalHelperArgv(cmd, escalated) ==
    <<Helper>> \o (IF escalated THEN <<"-s", "pkexec rootshell.sh">> ELSE << >>) \o <<WithPause(cmd)>>
BuildFlowPlan(in) ==
    LET working == <<"cwd/">> \o DirName(in.variant)
    IN  [variant |-> in.variant, path |-> DirName(in.variant), working |-> working, build |-> RepoBuild,
         terminal |-> TerminalHelperArgv(RepoBuild, FALSE), done |-> working \o <<"/.done-status">>,
         aurBuild |-> AurBuild, install |-> SudoPacman(in.globs)]
BuildFlow(in) == IF in.variant \in KnownVariants THEN BuildFlowPlan(in) ELSE Failure

-----------------------------------------------------------------------------
(* build-env/failure-lifecycle: the ends of a build and of its install.    *)
Ends == [done : BOOLEAN, exit : {0, 1}, choice : {"none", "no", "yes"}, globs : GlobLists]
EventLists == {<<e>> : e \in Ends} \cup {<<e, [done |-> FALSE, exit |-> 0, choice |-> "none", globs |-> << >>]>> : e \in Ends}

RefFinish(e) ==
    LET yes == e.done /\ e.choice = "yes"
        cmd == SudoPacman(e.globs)
    IN  [stdout |-> (IF e.done THEN <<<<"success">>>> ELSE << >>)
                    \o (IF yes THEN <<<<"pressed yes">>, <<"pacman_cmd := ">> \o cmd>> ELSE << >>),
         stderr |-> IF e.done THEN << >> ELSE <<<<"process failed with exit code: ", e.exit>>>>,
         next |-> IF yes THEN {cmd} ELSE {}, removesDone |-> e.done, running |-> yes]

FinishedProc(e) ==
    LET outcome == [stdout |-> << >>, stderr |-> << >>, next |-> {}, removesDone |-> FALSE, running |-> FALSE]
        success == [outcome EXCEPT !.removesDone = TRUE, !.stdout = <<<<"success">>>>]
    IN  CASE e.done /\ e.choice = "yes" ->
                [success EXCEPT !.stdout = @ \o <<<<"pressed yes">>, <<"pacman_cmd := ">> \o SudoPacman(e.globs)>>,
                                !.next = {SudoPacman(e.globs)}, !.running = TRUE]
          [] e.done /\ e.choice # "yes" -> success
          [] OTHER -> [outcome EXCEPT !.stderr = <<<<"process failed with exit code: ", e.exit>>>>]

-----------------------------------------------------------------------------
(* build-env/cancellation: the trace ends with the first close; the        *)
(* reference takes the build to be stopped by it, the crate to go on.      *)
Closes == {"cancel", "close"}
UpToClose(actions) ==
    LET closes == {i \in DOMAIN actions : actions[i] \in Closes}
    IN  IF closes = {} THEN actions
        ELSE SubSeq(actions, 1, CHOOSE i \in closes : \A j \in closes : i <= j)
TraceOf(actions) ==
    [i \in DOMAIN actions |->
        [action |-> actions[i],
         outcome |-> CASE actions[i] \in Closes -> "closed"
                       [] \E j \in 1..(i - 1) : actions[j] = "execute" -> "ignored"
                       [] OTHER -> "start"]]
RefCancel(actions) ==
    [trace |-> TraceOf(UpToClose(actions)),
     running |-> "execute" \in ToSet(actions) /\ ToSet(actions) \cap Closes = {}]
ConfigureTrace(actions) ==
    [trace |-> TraceOf(UpToClose(actions)), running |-> "execute" \in ToSet(UpToClose(actions))]

-----------------------------------------------------------------------------
Plans == [variant : Variants, globs : GlobLists]
FlowReference(corpus) ==
    CASE corpus = "stale-lock" ->
            [o \in LockOutcomes |-> IF RefAlreadyRunning(o) THEN "already-running" ELSE "proceed"]
      [] corpus = "lifecycle" -> [in \in Plans |-> RefBuildFlow(in)]
      [] corpus = "failure-lifecycle" -> [es \in EventLists |-> [i \in DOMAIN es |-> RefFinish(es[i])]]
      [] OTHER -> [actions \in ActionLists |-> RefCancel(actions)]
FlowModel(corpus) ==
    CASE corpus = "stale-lock" -> [o \in LockOutcomes |-> Decide(o)]
      [] corpus = "lifecycle" -> [in \in Plans |-> BuildFlow(in)]
      [] corpus = "failure-lifecycle" -> [es \in EventLists |-> [i \in DOMAIN es |-> FinishedProc(es[i])]]
      [] OTHER -> [actions \in ActionLists |-> ConfigureTrace(actions)]
==================================================================================
