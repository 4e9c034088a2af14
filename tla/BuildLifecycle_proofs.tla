------------------------ MODULE BuildLifecycle_proofs ------------------------
(***************************************************************************)
(* What TLC finds of BuildLifecycle on a few operations, for any number of *)
(* operations, variants, cancels and prepares: type correctness, and the   *)
(* safety of the token and the slot.                                       *)
(***************************************************************************)
EXTENDS BuildLifecycle, FiniteSetTheorems, TLAPS

(* A step that leaves a group of variables alone leaves its types alone.   *)
LEMMA TypesUnchanged ==
    ASSUME TypeOK
    PROVE  /\ UNCHANGED core => CoreTypes'
           /\ UNCHANGED token => TokenTypes'
           /\ UNCHANGED prepares => PrepareTypes'
           /\ UNCHANGED birth => BirthTypes'
           /\ UNCHANGED thread => ThreadTypes'
           /\ UNCHANGED procs => ProcTypes'
           /\ UNCHANGED cancelled => (cancelled \subseteq Ops)'
           /\ UNCHANGED disk => DiskTypes'
<1> USE DEF TypeOK
<1>1. UNCHANGED core => CoreTypes'
  BY DEF core, CoreTypes
<1>2. UNCHANGED token => TokenTypes'
  BY DEF token, TokenTypes
<1>3. UNCHANGED prepares => PrepareTypes'
  BY DEF prepares, PrepareTypes
<1>4. UNCHANGED birth => BirthTypes'
  BY DEF birth, BirthTypes, Ops
<1>5. UNCHANGED thread => ThreadTypes'
  BY DEF thread, ThreadTypes, Ops
<1>6. UNCHANGED procs => ProcTypes'
  BY DEF procs, ProcTypes, Ops
<1>7. UNCHANGED disk => DiskTypes'
  BY DEF disk, DiskTypes
<1>8. UNCHANGED cancelled => (cancelled \subseteq Ops)'
  BY DEF Ops
<1> QED
  BY <1>1, <1>2, <1>3, <1>4, <1>5, <1>6, <1>7, <1>8

(* Dispatching an operation, and a thread moving on, are well typed.       *)
LEMMA DispatchTypes ==
    ASSUME TypeOK, NEW k \in {"build", "install"}, NEW g \in Nat,
           NEW at \in Working, Dispatch(k, g, at)
    PROVE  BirthTypes' /\ pc' \in [Ops -> Working \cup Ended]
  BY BoundsAssumption DEF TypeOK, CoreTypes, BirthTypes, ThreadTypes, Dispatch, Ops

LEMMA GotoTypes ==
    ASSUME TypeOK, NEW w \in Ops, NEW from, NEW to \in Working \cup Ended,
           Goto(w, from, to)
    PROVE  pc' \in [Ops -> Working \cup Ended]
  BY DEF TypeOK, ThreadTypes, Goto

LEMMA GitRefreshTypes ==
    ASSUME TypeOK, GitRefresh
    PROVE  DiskTypes'
  BY BoundsAssumption DEF TypeOK, DiskTypes, GitRefresh, disk

LEMMA TypeInit == Init => TypeOK
<1> USE VariantsAssumption, BoundsAssumption DEF Init, Ops, Ended, Working
<1>1. Init => CoreTypes
  BY DEF CoreTypes
<1>5. Init => TokenTypes /\ PrepareTypes
  BY DEF TokenTypes, PrepareTypes
<1>2. Init => BirthTypes
  BY DEF BirthTypes
<1>3. Init => ThreadTypes
  BY DEF ThreadTypes
<1>4. Init => ProcTypes /\ cancelled \subseteq Ops /\ DiskTypes
  BY DEF ProcTypes, DiskTypes
<1> QED
  BY <1>1, <1>2, <1>3, <1>4, <1>5 DEF TypeOK

LEMMA TypeStep == TypeOK /\ [Next]_vars => TypeOK'
<1> SUFFICES ASSUME TypeOK, [Next]_vars
             PROVE  TypeOK'
  OBVIOUS
<1> USE TypesUnchanged
<1>1. CASE BuildRequested
  <2>1. BirthTypes' /\ pc' \in [Ops -> Working \cup Ended]
    BY <1>1, DispatchTypes DEF BuildRequested, TypeOK, TokenTypes, Working
  <2> QED
    BY <1>1, <2>1 DEF BuildRequested, TypeOK, CoreTypes, TokenTypes, ThreadTypes, Ops
<1>2. CASE ConfigureRequested
  <2>1. CoreTypes'
    BY <1>2 DEF ConfigureRequested, TypeOK, CoreTypes
  <2>2. PrepareTypes'
    BY <1>2 DEF ConfigureRequested, TypeOK, PrepareTypes
  <2> QED
    BY <1>2, <2>1, <2>2 DEF ConfigureRequested, TypeOK
<1>3. CASE ConfigurePrepared
  <2>1. CoreTypes'
    BY <1>3 DEF ConfigurePrepared, TypeOK, CoreTypes
  <2>2. PrepareTypes'
    BY <1>3 DEF ConfigurePrepared, TypeOK, PrepareTypes
  <2> QED
    BY <1>3, <2>1, <2>2 DEF ConfigurePrepared, TypeOK
<1>4. ASSUME NEW v \in Variants, VariantPicked(v)
      PROVE  TypeOK'
  BY <1>4 DEF VariantPicked, TypeOK, CoreTypes
<1>5. CASE CancelBump
  <2>1. TokenTypes'
    BY <1>5 DEF CancelBump, TypeOK, TokenTypes
  <2>2. (cancelled \subseteq Ops)'
    BY <1>5 DEF CancelBump, TypeOK, Ops
  <2> QED
    BY <1>5, <2>1, <2>2 DEF CancelBump, TypeOK
<1>6. CASE CancelTake
  <2>1. helper' \in [Ops -> {"none", "alive", "exited", "killed"}]
    BY <1>6 DEF CancelTake, TypeOK, ProcTypes
  <2>2. ProcTypes'
    BY <1>6, <2>1 DEF CancelTake, TypeOK, ProcTypes, Ops
  <2>3. CoreTypes'
    BY <1>6 DEF CancelTake, TypeOK, CoreTypes
  <2>4. TokenTypes'
    BY <1>6, BoundsAssumption DEF CancelTake, TypeOK, TokenTypes
  <2> QED
    BY <1>6, <2>2, <2>3, <2>4 DEF CancelTake, TypeOK
<1>7. CASE CloseIdle
  BY <1>7 DEF CloseIdle, TypeOK, CoreTypes
<1>8. CASE InstallAccepted
  <2>1. BirthTypes' /\ pc' \in [Ops -> Working \cup Ended]
    BY <1>8, DispatchTypes DEF InstallAccepted, TypeOK, TokenTypes, Working
  <2> QED
    BY <1>8, <2>1 DEF InstallAccepted, TypeOK, CoreTypes, ThreadTypes, Ops
<1>9. CASE InstallDeclined
  BY <1>9 DEF InstallDeclined, TypeOK, CoreTypes
<1>10. CASE DialogOverwritten
  BY <1>10 DEF DialogOverwritten, TypeOK, CoreTypes
<1>11. CASE Restart
  <2>1. pc' \in [Ops -> Working \cup Ended]
    BY <1>11 DEF Restart, TypeOK, ThreadTypes, Ended
  <2>2. ThreadTypes'
    BY <1>11, <2>1 DEF Restart, TypeOK, ThreadTypes, Ops
  <2>3. CoreTypes'
    BY <1>11, VariantsAssumption DEF Restart, CoreTypes
  <2>4. TokenTypes' /\ PrepareTypes'
    BY <1>11, BoundsAssumption DEF Restart, TokenTypes, PrepareTypes
  <2> QED
    BY <1>11, <2>2, <2>3, <2>4 DEF Restart, TypeOK
<1>12. CASE PrepareRefresh
  BY <1>12, GitRefreshTypes DEF PrepareRefresh, TypeOK, PrepareTypes
<1>13. ASSUME NEW w \in Ops, BuildFinished(w) \/ ArtifactsInstalled(w)
       PROVE  TypeOK'
  BY <1>13 DEF BuildFinished, ArtifactsInstalled, TypeOK, CoreTypes, ThreadTypes,
               Ended, Ops
<1>14. ASSUME NEW w \in Ops, OpStep(w)
       PROVE  TypeOK'
  <2>1. pc' \in [Ops -> Working \cup Ended]
    BY <1>14, GotoTypes
    DEF OpStep, BuildRefresh, Mutate, PreCheck, Globs, Spawn, SpawnFails, PostCheck,
        Store, WaitEnds, ClearSlot, CheckMarker, Report, Working
  <2>2. CASE BuildRefresh(w)
    BY <2>1, <2>2, GitRefreshTypes DEF BuildRefresh, TypeOK, ThreadTypes, Ops
  <2>3. CASE Mutate(w)
    BY <2>1, <2>3 DEF Mutate, TypeOK, ThreadTypes, DiskTypes, Ops
  <2>4. CASE PreCheck(w) \/ SpawnFails(w) \/ WaitEnds(w)
    BY <2>1, <2>4 DEF PreCheck, SpawnFails, WaitEnds, TypeOK, ThreadTypes, Ops
  <2>5. CASE Globs(w)
    BY <2>1, <2>5 DEF Globs, TypeOK, ThreadTypes, BirthTypes, DiskTypes, Ops
  <2>6. CASE Spawn(w) \/ PostCheck(w)
    BY <2>1, <2>6 DEF Spawn, PostCheck, TypeOK, ThreadTypes, ProcTypes, Ops
  <2>7. CASE Store(w) \/ ClearSlot(w)
    <3>1. TokenTypes'
      BY <2>7, BoundsAssumption DEF Store, ClearSlot, TypeOK, TokenTypes, Ops
    <3>2. ThreadTypes'
      BY <2>1, <2>7 DEF Store, ClearSlot, TypeOK, ThreadTypes, Ops
    <3> QED
      BY <2>7, <3>1, <3>2 DEF Store, ClearSlot, TypeOK
  <2>8. CASE CheckMarker(w) \/ Report(w)
    BY <2>1, <2>8 DEF CheckMarker, Report, TypeOK, ThreadTypes, DiskTypes, Ops
  <2> QED
    BY <1>14, <2>2, <2>3, <2>4, <2>5, <2>6, <2>7, <2>8 DEF OpStep
<1>15. ASSUME NEW w \in Ops, JobSucceeds(w) \/ JobFails(w) \/ HelperExits(w)
       PROVE  TypeOK'
  <2>1. ProcTypes'
    BY <1>15 DEF JobSucceeds, JobFails, HelperExits, TypeOK, ProcTypes, Ops
  <2>2. DiskTypes'
    BY <1>15 DEF JobSucceeds, JobFails, HelperExits, TypeOK, DiskTypes, BirthTypes, disk
  <2> QED
    BY <1>15, <2>1, <2>2 DEF JobSucceeds, JobFails, HelperExits, TypeOK
<1>16. CASE UNCHANGED vars
  BY <1>16 DEF vars, TypeOK
<1> QED
  BY <1>1, <1>2, <1>3, <1>4, <1>5, <1>6, <1>7, <1>8, <1>9, <1>10, <1>11,
     <1>12, <1>13, <1>14, <1>15, <1>16 DEF Next

(* The variables have the values the code's types allow, in every          *)
(* behaviour: no counter underflows, no operation is dispatched twice.     *)
THEOREM TypeCorrect == Spec => []TypeOK
BY TypeInit, TypeStep, PTL DEF Spec
-------------------------------------------------------------------------------
(* The inductive invariant.  OneOperation, QuestionMatchesBuild,           *)
(* HelperOwned and TokenIsExact are not inductive one by one: that a       *)
(* report finds its own build in the core needs the live operation to be   *)
(* the latest; that the slot is free for a Store needs the slot to hold    *)
(* nobody else's child; that a token is stale exactly after a cancel needs *)
(* every generation to be one already given out.                           *)

(* The operations not yet dispatched: no thread, no cancel.                *)
Unborn == \A w \in Ops : w > ops => pc[w] = "Unborn" /\ w \notin cancelled

(* A live thread belongs to the latest operation, the one the core's state *)
(* is about, and its generation is not from the future.                    *)
LatestLive ==
    \A w \in Ops : Live(w) =>
        /\ w = ops
        /\ build = IF kind[w] = "build" THEN "Running" ELSE "Installing"
        /\ born[w] <= epoch
        /\ w \in cancelled <=> born[w] # epoch

BusyIsLive == build \in {"Running", "Installing"} => \E w \in Ops : Live(w)
QuestionAwaits == question => build = "AwaitingInstallDecision"
SlotHeld == slot # 0 => pc[slot] \in {"Wait", "Clear"}

IInv ==
    /\ TypeOK
    /\ Unborn
    /\ LatestLive
    /\ BusyIsLive
    /\ QuestionAwaits
    /\ SlotHeld
    /\ HelperOwned
LEMMA InvInit == Init => IInv
<1> SUFFICES ASSUME Init
             PROVE  IInv
  OBVIOUS
<1>1. TypeOK
  BY TypeInit
<1>2. Unborn /\ LatestLive /\ HelperOwned
  BY DEF Init, Unborn, LatestLive, HelperOwned, Live, Ended
<1>3. BusyIsLive /\ QuestionAwaits /\ SlotHeld
  BY DEF Init, BusyIsLive, QuestionAwaits, SlotHeld
<1> QED
  BY <1>1, <1>2, <1>3 DEF IInv

(* A thread that takes a step was live and stays live; nobody else moves,  *)
(* and neither the core nor the token does.                                *)
LEMMA OpStepMoves ==
    ASSUME TypeOK, NEW w \in Ops, OpStep(w)
    PROVE  /\ pc[w] \in Working /\ pc'[w] \in Working
           /\ \A v \in Ops : v # w => pc'[v] = pc[v]
           /\ UNCHANGED <<core, epoch, birth, cancelled>>
<1>1. ASSUME NEW from \in Working, NEW to \in Working, Goto(w, from, to)
      PROVE  /\ pc[w] \in Working /\ pc'[w] \in Working
             /\ \A v \in Ops : v # w => pc'[v] = pc[v]
  BY <1>1 DEF Goto, TypeOK, ThreadTypes
<1>2. /\ pc[w] \in Working /\ pc'[w] \in Working
      /\ \A v \in Ops : v # w => pc'[v] = pc[v]
  BY <1>1 DEF OpStep, BuildRefresh, Mutate, PreCheck, Globs, Spawn, SpawnFails,
     PostCheck, Store, WaitEnds, ClearSlot, CheckMarker, Report, Working
<1>3. UNCHANGED <<core, epoch, birth, cancelled>>
  BY DEF OpStep, BuildRefresh, Mutate, PreCheck, Globs, Spawn, SpawnFails,
     PostCheck, Store, WaitEnds, ClearSlot, CheckMarker, Report, token
<1> QED
  BY <1>2, <1>3

(* ... so it keeps every part of the invariant but those on slot and       *)
(* helpers.                                                                *)
LEMMA OpStepKeeps ==
    ASSUME IInv, NEW w \in Ops, OpStep(w)
    PROVE  Unborn' /\ LatestLive' /\ BusyIsLive' /\ QuestionAwaits'
<1> USE DEF IInv
<1>1. \A v \in Ops : Live(v)' <=> Live(v)
  BY OpStepMoves DEF Live, Working, Ended
<1>2. Unborn'
  BY OpStepMoves DEF Unborn, birth, Working
<1>3. LatestLive'
  BY <1>1, OpStepMoves DEF LatestLive, core, birth
<1>4. BusyIsLive' /\ QuestionAwaits'
  BY <1>1, OpStepMoves DEF BusyIsLive, QuestionAwaits, core
<1> QED
  BY <1>2, <1>3, <1>4

(* While an operation is live, the slot holds its child or nothing.        *)
LEMMA SlotIsOwn ==
    ASSUME IInv, NEW w \in Ops, Live(w)
    PROVE  slot \in {0, w}
<1>1. slot # 0 => slot \in Ops /\ Live(slot)
  BY DEF IInv, SlotHeld, Live, Ended, TypeOK, TokenTypes, Ops
<1> QED
  BY <1>1 DEF IInv, LatestLive

(* The steps on the slot and the helpers.                                  *)
LEMMA OpStepOwns ==
    ASSUME IInv, NEW w \in Ops, OpStep(w)
    PROVE  SlotHeld' /\ HelperOwned'
<1> USE DEF IInv
<1>1. slot \in {0, w}
  BY OpStepMoves, SlotIsOwn DEF Live, Working, Ended
<1>2. \A v \in Ops : v # w => pc'[v] = pc[v]
  BY OpStepMoves
<1>3. CASE BuildRefresh(w) \/ Mutate(w) \/ PreCheck(w) \/ Globs(w) \/ SpawnFails(w)
           \/ CheckMarker(w) \/ Report(w)
  <2>1. /\ UNCHANGED <<slot, helper>>
        /\ pc[w] \in {"Refresh", "Mutate", "PreCheck", "Globs", "Spawn", "Check", "Report"}
    BY <1>3 DEF BuildRefresh, Mutate, PreCheck, Globs, SpawnFails, CheckMarker, Report,
       Goto, token, procs
  <2> QED
    BY <1>1, <1>2, <2>1 DEF SlotHeld, HelperOwned
<1>4. CASE Spawn(w)
  <2>1. /\ pc[w] = "Spawn" /\ pc'[w] \in {"PostCheck", "Store"}
        /\ UNCHANGED slot
        /\ \A v \in Ops : v # w => helper'[v] = helper[v]
    BY <1>4 DEF Spawn, Goto, token, TypeOK, ThreadTypes, ProcTypes
  <2> QED
    BY <1>1, <1>2, <2>1 DEF SlotHeld, HelperOwned
<1>5. CASE PostCheck(w)
  <2>1. /\ pc[w] = "PostCheck"
        /\ UNCHANGED slot
        /\ \A v \in Ops : v # w => helper'[v] = helper[v]
        /\ pc'[w] = "Store" \/ helper'[w] = "killed"
    BY <1>5 DEF PostCheck, Goto, token, TypeOK, ThreadTypes, ProcTypes
  <2> QED
    BY <1>1, <1>2, <2>1 DEF SlotHeld, HelperOwned
<1>6. CASE Store(w)
  <2>1. pc'[w] = "Wait" /\ slot' = w /\ UNCHANGED helper
    BY <1>6 DEF Store, Goto, procs, TypeOK, ThreadTypes
  <2>2. \A v \in Ops : v # w => ~(pc[v] = "Wait" /\ slot = v)
    BY <1>1 DEF Ops
  <2> QED
    BY <1>2, <2>1, <2>2 DEF SlotHeld, HelperOwned
<1>7. CASE WaitEnds(w)
  <2>1. /\ pc[w] = "Wait" /\ pc'[w] = "Clear"
        /\ UNCHANGED <<slot, helper>>
        /\ slot = 0 \/ helper[slot] # "alive"
    BY <1>7 DEF WaitEnds, Goto, token, procs, TypeOK, ThreadTypes
  <2>2. helper[w] # "alive"
    BY <1>1, <2>1 DEF HelperOwned, Ops
  <2> QED
    BY <1>1, <1>2, <2>1, <2>2 DEF SlotHeld, HelperOwned
<1>8. CASE ClearSlot(w)
  <2>1. pc[w] = "Clear" /\ slot' = 0 /\ UNCHANGED helper
    BY <1>8 DEF ClearSlot, Goto, procs
  <2>2. \A v \in Ops : v # w => ~(pc[v] = "Wait" /\ slot = v)
    BY <1>1 DEF Ops
  <2> QED
    BY <1>2, <2>1, <2>2 DEF SlotHeld, HelperOwned
<1> QED
  BY <1>3, <1>4, <1>5, <1>6, <1>7, <1>8 DEF OpStep
(* An operation is dispatched only when none is live: the core is not in   *)
(* flight for a build, and the question is up for an install.              *)
LEMMA DispatchKeeps ==
    ASSUME IInv, NEW k \in {"build", "install"}, NEW g \in Nat, NEW at \in Working,
           at \notin {"Wait", "Clear"},
           build \notin {"Running", "Installing"},
           Dispatch(k, g, at),
           build' = IF k = "build" THEN "Running" ELSE "Installing",
           epoch' = g, question' = FALSE,
           UNCHANGED <<slot, helper, cancelled>>
    PROVE  /\ Unborn' /\ LatestLive' /\ BusyIsLive' /\ QuestionAwaits'
           /\ SlotHeld' /\ HelperOwned'
<1> DEFINE n == ops + 1
<1> USE DEF IInv
<1>1. /\ n \in Ops /\ ops' = n
      /\ kind'[n] = k /\ born'[n] = g /\ pc'[n] = at
      /\ \A v \in Ops : v # n => pc'[v] = pc[v]
  BY BoundsAssumption DEF Dispatch, TypeOK, BirthTypes, ThreadTypes, Ops
<1>2. \A v \in Ops : ~Live(v)
  BY DEF LatestLive
<1>3. \A v \in Ops : Live(v)' <=> v = n
  BY <1>1, <1>2 DEF Live, Working, Ended
<1>4. pc[n] = "Unborn" /\ n \notin cancelled
  BY <1>1 DEF Unborn, TypeOK, BirthTypes
<1>5. slot = 0
  BY <1>2 DEF SlotHeld, Live, Ended, TypeOK, TokenTypes, Ops
<1>6. Unborn'
  BY <1>1 DEF Unborn, TypeOK, BirthTypes, Ops
<1>7. LatestLive'
  BY <1>1, <1>3, <1>4 DEF LatestLive
<1>8. BusyIsLive' /\ QuestionAwaits' /\ SlotHeld'
  BY <1>1, <1>3, <1>5 DEF BusyIsLive, QuestionAwaits, SlotHeld
<1>9. HelperOwned'
  BY <1>1, <1>4 DEF HelperOwned
<1> QED
  BY <1>6, <1>7, <1>8, <1>9

(* A thread that has posted its message ends: it was the live one.         *)
LEMMA ReportKeeps ==
    ASSUME IInv, NEW w \in Ops, BuildFinished(w) \/ ArtifactsInstalled(w)
    PROVE  /\ Unborn' /\ LatestLive' /\ BusyIsLive' /\ QuestionAwaits'
           /\ SlotHeld' /\ HelperOwned'
<1> USE DEF IInv
<1>1. /\ pc[w] = "Posted" /\ pc'[w] = "Done"
      /\ \A v \in Ops : v # w => pc'[v] = pc[v]
      /\ UNCHANGED <<epoch, slot, helper, cancelled, birth>>
  BY DEF BuildFinished, ArtifactsInstalled, TypeOK, ThreadTypes, token, procs
<1>2. Live(w) /\ \A v \in Ops : Live(v)' <=> Live(v) /\ v # w
  BY <1>1 DEF Live, Ended
<1>3. w = ops /\ build = IF kind[w] = "build" THEN "Running" ELSE "Installing"
  BY <1>2 DEF LatestLive
<1>4. \A v \in Ops : ~Live(v)'
  BY <1>2, <1>3 DEF LatestLive
<1>5. slot = 0
  BY <1>1, <1>2, SlotIsOwn DEF SlotHeld
<1>6. Unborn'
  BY <1>1 DEF Unborn, birth
<1>7. LatestLive'
  BY <1>4 DEF LatestLive
<1>8. BusyIsLive'
  BY DEF BuildFinished, ArtifactsInstalled, BusyIsLive
<1>9. QuestionAwaits'
  BY <1>3 DEF BuildFinished, ArtifactsInstalled, QuestionAwaits
<1>10. SlotHeld'
  BY <1>1, <1>5 DEF SlotHeld
<1>11. HelperOwned'
  BY <1>1, <1>5 DEF HelperOwned, Ops
<1> QED
  BY <1>6, <1>7, <1>8, <1>9, <1>10, <1>11

(* A step that moves no thread, and changes neither the slot nor the core  *)
(* except by dropping a question and ending the wait for its answer.       *)
LEMMA StillKeeps ==
    ASSUME IInv,
           UNCHANGED <<pc, birth, slot, helper, epoch, cancelled>>,
           \/ UNCHANGED <<build, question>>
           \/ question' = FALSE /\ UNCHANGED build
           \/ question /\ question' = FALSE /\ build' = "Idle"
    PROVE  /\ Unborn' /\ LatestLive' /\ BusyIsLive' /\ QuestionAwaits'
           /\ SlotHeld' /\ HelperOwned'
<1> USE DEF IInv
<1>1. \A v \in Ops : Live(v)' <=> Live(v)
  BY DEF Live
<1>2. question => \A v \in Ops : ~Live(v)
  BY DEF QuestionAwaits, LatestLive
<1>3. Unborn'
  BY DEF Unborn, birth
<1>4. LatestLive'
  BY <1>1, <1>2 DEF LatestLive, birth
<1>5. BusyIsLive' /\ QuestionAwaits'
  BY <1>1, <1>2 DEF BusyIsLive, QuestionAwaits
<1>6. SlotHeld' /\ HelperOwned'
  BY DEF SlotHeld, HelperOwned
<1> QED
  BY <1>3, <1>4, <1>5, <1>6

LEMMA InvStep == IInv /\ [Next]_vars => IInv'
<1> SUFFICES ASSUME IInv, [Next]_vars
             PROVE  /\ Unborn' /\ LatestLive' /\ BusyIsLive' /\ QuestionAwaits'
                    /\ SlotHeld' /\ HelperOwned'
  BY TypeStep DEF IInv
<1>1. CASE BuildRequested
  <2>1. epoch + 1 \in Nat /\ build \notin {"Running", "Installing"} /\ question' = FALSE
    BY <1>1 DEF BuildRequested, InFlight, IInv, QuestionAwaits, TypeOK, TokenTypes, CoreTypes
  <2> QED
    BY <1>1, <2>1, DispatchKeeps DEF BuildRequested, procs, Working
<1>2. CASE ConfigureRequested \/ ConfigurePrepared \/ CloseIdle \/ InstallDeclined
           \/ DialogOverwritten \/ PrepareRefresh \/ \E v \in Variants : VariantPicked(v)
  BY <1>2, StillKeeps
  DEF ConfigureRequested, ConfigurePrepared, CloseIdle, InstallDeclined, DialogOverwritten,
      PrepareRefresh, VariantPicked, core, token, thread, procs
<1>3. CASE CancelBump
  <2>1. /\ UNCHANGED <<build, question, pc, slot, helper, birth>>
        /\ epoch' = epoch + 1
        /\ cancelled' = cancelled \cup {v \in Ops : Live(v)}
    BY <1>3 DEF CancelBump, core, thread, procs
  <2>2. \A v \in Ops : Live(v)' <=> Live(v)
    BY <2>1 DEF Live
  <2>3. LatestLive'
    BY <2>1, <2>2 DEF IInv, LatestLive, birth, TypeOK, TokenTypes, BirthTypes
  <2>4. Unborn'
    BY <2>1 DEF IInv, Unborn, Live, Ended, birth
  <2> QED
    BY <2>1, <2>2, <2>3, <2>4 DEF IInv, BusyIsLive, QuestionAwaits, SlotHeld, HelperOwned
<1>4. CASE CancelTake
  <2>1. /\ UNCHANGED <<build, question, pc, epoch, birth, cancelled>>
        /\ slot' = 0
        /\ \A v \in Ops : helper'[v] = "alive" => helper[v] = "alive" /\ v # slot
    BY <1>4 DEF CancelTake, thread, IInv, TypeOK, ProcTypes
  <2>2. \A v \in Ops : Live(v)' <=> Live(v)
    BY <2>1 DEF Live
  <2>3. Unborn' /\ LatestLive'
    BY <2>1, <2>2 DEF IInv, Unborn, LatestLive, birth
  <2>4. BusyIsLive' /\ QuestionAwaits'
    BY <2>1, <2>2 DEF IInv, BusyIsLive, QuestionAwaits
  <2>5. SlotHeld' /\ HelperOwned'
    BY <2>1 DEF IInv, SlotHeld, HelperOwned
  <2> QED
    BY <2>3, <2>4, <2>5
<1>5. CASE InstallAccepted
  <2>1. build = "AwaitingInstallDecision" /\ epoch \in Nat
    BY <1>5 DEF InstallAccepted, IInv, QuestionAwaits, TypeOK, TokenTypes
  <2> QED
    BY <1>5, <2>1, DispatchKeeps DEF InstallAccepted, token, procs, Working
<1>6. CASE Restart
  <2>1. /\ build' = "Idle" /\ question' = FALSE /\ slot' = 0
        /\ pc' = [w \in Ops |-> IF Live(w) THEN "Gone" ELSE pc[w]]
        /\ UNCHANGED <<birth, helper, cancelled>>
    BY <1>6 DEF Restart, procs
  <2>2. \A v \in Ops : ~Live(v)'
    BY <2>1 DEF Live, Ended
  <2>3. Unborn'
    BY <2>1 DEF IInv, Unborn, Live, Ended, birth
  <2>4. LatestLive' /\ BusyIsLive' /\ QuestionAwaits' /\ SlotHeld'
    BY <2>1, <2>2 DEF LatestLive, BusyIsLive, QuestionAwaits, SlotHeld
  <2>5. HelperOwned'
    BY <2>1 DEF IInv, HelperOwned, Live, Ended
  <2> QED
    BY <2>3, <2>4, <2>5
<1>7. ASSUME NEW w \in Ops, BuildFinished(w) \/ ArtifactsInstalled(w)
      PROVE  /\ Unborn' /\ LatestLive' /\ BusyIsLive' /\ QuestionAwaits'
             /\ SlotHeld' /\ HelperOwned'
  BY <1>7, ReportKeeps
<1>8. ASSUME NEW w \in Ops, OpStep(w)
      PROVE  /\ Unborn' /\ LatestLive' /\ BusyIsLive' /\ QuestionAwaits'
             /\ SlotHeld' /\ HelperOwned'
  BY <1>8, OpStepKeeps, OpStepOwns
<1>9. ASSUME NEW w \in Ops, JobSucceeds(w) \/ JobFails(w)
      PROVE  /\ Unborn' /\ LatestLive' /\ BusyIsLive' /\ QuestionAwaits'
             /\ SlotHeld' /\ HelperOwned'
  BY <1>9, StillKeeps DEF JobSucceeds, JobFails, core, token, thread
<1>10. ASSUME NEW w \in Ops, HelperExits(w)
       PROVE  /\ Unborn' /\ LatestLive' /\ BusyIsLive' /\ QuestionAwaits'
              /\ SlotHeld' /\ HelperOwned'
  <2>1. /\ UNCHANGED <<build, question, pc, slot, epoch, birth, cancelled>>
        /\ \A v \in Ops : helper'[v] = "alive" => helper[v] = "alive"
    BY <1>10 DEF HelperExits, core, token, thread, IInv, TypeOK, ProcTypes
  <2>2. \A v \in Ops : Live(v)' <=> Live(v)
    BY <2>1 DEF Live
  <2>3. Unborn' /\ LatestLive'
    BY <2>1, <2>2 DEF IInv, Unborn, LatestLive, birth
  <2>4. BusyIsLive' /\ QuestionAwaits'
    BY <2>1, <2>2 DEF IInv, BusyIsLive, QuestionAwaits
  <2>5. SlotHeld' /\ HelperOwned'
    BY <2>1 DEF IInv, SlotHeld, HelperOwned
  <2> QED
    BY <2>3, <2>4, <2>5
<1>11. CASE UNCHANGED vars
  BY <1>11, StillKeeps DEF vars, core, token, thread, procs
<1> QED
  BY <1>1, <1>2, <1>3, <1>4, <1>5, <1>6, <1>7, <1>8, <1>9, <1>10, <1>11 DEF Next
THEOREM Invariance == Spec => []IInv
BY InvInit, InvStep, PTL DEF Spec
-------------------------------------------------------------------------------
(* At most one operation is live, it is the one AppState.build names, and  *)
(* a Running or Installing state always has a thread that will report: no  *)
(* order of cancels, late reports and answers of app.rs can make two       *)
(* operations run at once, or lock the Build button with none.             *)
THEOREM OneOperationHolds == Spec => []OneOperation
<1>1. IInv => OneOperation
  BY DEF IInv, LatestLive, BusyIsLive, OneOperation
<1> QED
  BY <1>1, Invariance, PTL

(* The install question is only ever up for the build it is about, when    *)
(* nothing runs: InstallQuestion(yes) needs no guard of its own.           *)
THEOREM QuestionHolds == Spec => []QuestionMatchesBuild
<1>1. IInv => QuestionMatchesBuild
  BY DEF IInv, LatestLive, QuestionAwaits, QuestionMatchesBuild
<1> QED
  BY <1>1, Invariance, PTL

(* No terminal-helper is ever left where neither its thread nor a cancel   *)
(* can reach it.                                                           *)
THEOREM HelperHolds == Spec => []HelperOwned
<1>1. IInv => HelperOwned
  BY DEF IInv
<1> QED
  BY <1>1, Invariance, PTL

(* The generation token is stale exactly for the operations a cancel hit.  *)
THEOREM TokenHolds == Spec => []TokenIsExact
<1>1. IInv => TokenIsExact
  BY DEF IInv, LatestLive, TokenIsExact
<1> QED
  BY <1>1, Invariance, PTL
-------------------------------------------------------------------------------
(* Every step is a step of the contract, or one the user does not see.     *)
LEMMA ContractInit == Init => Contract!Init
BY DEF Init, Contract!Init

LEMMA ContractStep == IInv /\ [Next]_vars => [Contract!Next]_(Contract!vars)
<1> SUFFICES ASSUME IInv, [Next]_vars
             PROVE  Contract!Next \/ UNCHANGED <<build, question, epoch>>
  BY DEF Contract!vars
<1> USE DEF Contract!Next
<1>1. CASE BuildRequested
  BY <1>1 DEF BuildRequested, InFlight, IInv, TypeOK, CoreTypes, QuestionAwaits,
     Contract!Request
<1>2. CASE ConfigureRequested
  <2>1. question \in BOOLEAN /\ question' = FALSE /\ UNCHANGED <<build, epoch>>
    BY <1>2 DEF ConfigureRequested, token, IInv, TypeOK, CoreTypes
  <2> QED
    BY <2>1 DEF Contract!LoseQuestion
<1>3. CASE ConfigurePrepared \/ CloseIdle \/ CancelTake \/ PrepareRefresh
           \/ \E v \in Variants : VariantPicked(v)
  BY <1>3 DEF ConfigurePrepared, CloseIdle, CancelTake, PrepareRefresh, VariantPicked,
     core, token
<1>4. CASE CancelBump
  BY <1>4 DEF CancelBump, InFlight, core, Contract!Cancel
<1>5. CASE InstallAccepted \/ InstallDeclined
  BY <1>5 DEF InstallAccepted, InstallDeclined, token, IInv, QuestionAwaits,
     Contract!Answer
<1>6. CASE DialogOverwritten
  BY <1>6 DEF DialogOverwritten, token, Contract!LoseQuestion
<1>7. CASE Restart
  BY <1>7 DEF Restart, Contract!Restart
<1>8. ASSUME NEW w \in Ops, BuildFinished(w)
      PROVE  Contract!Next
  <2>1. build = "Running" /\ ~question /\ UNCHANGED epoch
    BY <1>8 DEF BuildFinished, token, IInv, LatestLive, QuestionAwaits, Live, Ended
  <2>2. CASE w \in ok
    BY <1>8, <2>1, <2>2 DEF BuildFinished, Contract!Succeed
  <2>3. CASE w \notin ok
    BY <1>8, <2>1, <2>3 DEF BuildFinished, Contract!Fail, IInv, TypeOK, CoreTypes
  <2> QED
    BY <2>2, <2>3
<1>9. ASSUME NEW w \in Ops, ArtifactsInstalled(w)
      PROVE  Contract!Next
  <2>1. build = "Installing"
    BY <1>9 DEF ArtifactsInstalled, IInv, LatestLive, Live, Ended
  <2> QED
    BY <1>9, <2>1 DEF ArtifactsInstalled, token, Contract!Installed
<1>10. ASSUME NEW w \in Ops, OpStep(w)
       PROVE  UNCHANGED <<build, question, epoch>>
  BY <1>10, OpStepMoves DEF IInv, core
<1>11. ASSUME NEW w \in Ops, JobSucceeds(w) \/ JobFails(w) \/ HelperExits(w)
       PROVE  UNCHANGED <<build, question, epoch>>
  BY <1>11 DEF JobSucceeds, JobFails, HelperExits, core, token
<1>12. CASE UNCHANGED vars
  BY <1>12 DEF vars, core, token
<1> QED
  BY <1>1, <1>2, <1>3, <1>4, <1>5, <1>6, <1>7, <1>8, <1>9, <1>10, <1>11, <1>12
  DEF Next

(* The Build flow implements BuildContract: what the user sees of it is    *)
(* one operation at a time, each ending once, each question answered at    *)
(* most once.                                                              *)
THEOREM Implements == Spec => ImplementsContract
BY ContractInit, ContractStep, Invariance, PTL
DEF Spec, ImplementsContract, Contract!Spec
-------------------------------------------------------------------------------
(* Each success reported, and each marker on disk, is paid for by a job of *)
(* its own.  No job has succeeded that was not yet started; otherwise a    *)
(* start could take a payment back.                                        *)
Paid == {w \in Ops : kind[w] = "build" /\ job[w] = "succeeded"}
BeforeSpawn == {"Unborn", "Refresh", "Mutate", "PreCheck", "Globs", "Spawn"}
JobsBegin == \A w \in Ops : pc[w] \in BeforeSpawn => job[w] = "none"
Spent ==
    /\ IsFiniteSet(ok) /\ IsFiniteSet(marker)
    /\ NoDoubleSpend
SpendInv == JobsBegin /\ Spent

LEMMA PaidFinite ==
    ASSUME TypeOK
    PROVE  IsFiniteSet(Paid) /\ IsFiniteSet(Paid')
<1>1. IsFiniteSet(Ops)
  BY BoundsAssumption, FS_Interval DEF Ops
<1>2. Paid \in SUBSET Ops /\ Paid' \in SUBSET Ops
  BY DEF Paid, Ops
<1> QED
  BY <1>1, <1>2, FS_Subset

(* Successes and markers may go, payments do not.                          *)
LEMMA SpentLess ==
    ASSUME TypeOK, Spent, ok' \subseteq ok, marker' \subseteq marker, Paid \subseteq Paid'
    PROVE  Spent'
<1>1. /\ IsFiniteSet(ok') /\ Cardinality(ok') <= Cardinality(ok)
      /\ IsFiniteSet(marker') /\ Cardinality(marker') <= Cardinality(marker)
  BY FS_Subset DEF Spent
<1>2. Cardinality(Paid) <= Cardinality(Paid')
  BY PaidFinite, FS_Subset
<1>3. /\ Cardinality(ok) \in Nat /\ Cardinality(marker) \in Nat /\ Cardinality(Paid) \in Nat
      /\ Cardinality(ok') \in Nat /\ Cardinality(marker') \in Nat /\ Cardinality(Paid') \in Nat
  BY <1>1, PaidFinite, FS_CardinalityType DEF Spent
<1>4. Cardinality(ok) + Cardinality(marker) <= Cardinality(Paid)
  BY DEF Spent, NoDoubleSpend, Paid
<1>5. Cardinality(ok') + Cardinality(marker') <= Cardinality(Paid')
  BY <1>1, <1>2, <1>3, <1>4
<1> QED
  BY <1>1, <1>5 DEF Spent, NoDoubleSpend, Paid

(* A marker is taken for a success.                                        *)
LEMMA SpentMarker ==
    ASSUME TypeOK, Spent, NEW w, NEW v \in marker,
           ok' = ok \cup {w}, marker' = marker \ {v}, Paid' = Paid
    PROVE  Spent'
<1>1. /\ IsFiniteSet(ok') /\ Cardinality(ok') <= Cardinality(ok) + 1
      /\ IsFiniteSet(marker') /\ Cardinality(marker') = Cardinality(marker) - 1
      /\ Cardinality(ok) \in Nat /\ Cardinality(marker) \in Nat
  <2>1. Cardinality(ok) \in Nat /\ Cardinality(marker) \in Nat
    BY FS_CardinalityType DEF Spent
  <2>2. IsFiniteSet(ok') /\ Cardinality(ok') \in {Cardinality(ok), Cardinality(ok) + 1}
    BY FS_AddElement DEF Spent
  <2>3. IsFiniteSet(marker') /\ Cardinality(marker') = Cardinality(marker) - 1
    BY FS_RemoveElement DEF Spent
  <2> QED
    BY <2>1, <2>2, <2>3
<1>2. /\ Cardinality(ok') \in Nat /\ Cardinality(marker') \in Nat
      /\ Cardinality(Paid) \in Nat
  BY <1>1, PaidFinite, FS_CardinalityType
<1>3. Cardinality(ok) + Cardinality(marker) <= Cardinality(Paid)
  BY DEF Spent, NoDoubleSpend, Paid
<1>4. Cardinality(ok') + Cardinality(marker') <= Cardinality(Paid')
  BY <1>1, <1>2, <1>3
<1> QED
  BY <1>1, <1>4 DEF Spent, NoDoubleSpend, Paid

(* A job succeeds, and leaves at most one marker.                          *)
LEMMA SpentSuccess ==
    ASSUME TypeOK, Spent, NEW w, w \notin Paid, NEW v,
           ok' = ok, marker' = marker \cup {v}, Paid' = Paid \cup {w}
    PROVE  Spent'
<1>1. /\ IsFiniteSet(marker') /\ Cardinality(marker') <= Cardinality(marker) + 1
      /\ Cardinality(ok) \in Nat /\ Cardinality(marker) \in Nat
  <2>1. Cardinality(ok) \in Nat /\ Cardinality(marker) \in Nat
    BY FS_CardinalityType DEF Spent
  <2>2. /\ IsFiniteSet(marker')
        /\ Cardinality(marker') \in {Cardinality(marker), Cardinality(marker) + 1}
    BY FS_AddElement DEF Spent
  <2> QED
    BY <2>1, <2>2
<1>2. /\ Cardinality(Paid') = Cardinality(Paid) + 1
      /\ Cardinality(Paid) \in Nat /\ Cardinality(marker') \in Nat
  BY <1>1, PaidFinite, FS_AddElement, FS_CardinalityType
<1>3. Cardinality(ok) + Cardinality(marker) <= Cardinality(Paid)
  BY DEF Spent, NoDoubleSpend, Paid
<1>4. Cardinality(ok') + Cardinality(marker') <= Cardinality(Paid')
  BY <1>1, <1>2, <1>3
<1> QED
  BY <1>1, <1>4 DEF Spent, NoDoubleSpend, Paid

(* A step that starts nothing and ends no job.                             *)
LEMMA SpendKept ==
    ASSUME TypeOK, SpendInv, UNCHANGED <<kind, job>>,
           ok' \subseteq ok, marker' \subseteq marker,
           \A w \in Ops : pc'[w] \in BeforeSpawn => pc[w] \in BeforeSpawn
    PROVE  SpendInv'
<1>1. JobsBegin'
  BY DEF SpendInv, JobsBegin, Ops
<1>2. Paid' = Paid
  BY DEF Paid, Ops
<1> QED
  BY <1>1, <1>2, SpentLess DEF SpendInv

LEMMA SpendStep == IInv /\ SpendInv /\ [Next]_vars => SpendInv'
<1> SUFFICES ASSUME IInv, SpendInv, [Next]_vars
             PROVE  SpendInv'
  OBVIOUS
<1> USE DEF IInv
<1>1. ASSUME NEW k, NEW g, NEW at, Dispatch(k, g, at), UNCHANGED <<job, ok, marker>>
      PROVE  SpendInv'
  <2>1. ops \in Nat /\ ops' = ops + 1 /\ ops' \in Ops
    BY <1>1, BoundsAssumption DEF Dispatch, TypeOK, BirthTypes, Ops
  <2>2. pc[ops'] = "Unborn" /\ job[ops'] = "none"
    BY <2>1 DEF Unborn, SpendInv, JobsBegin, BeforeSpawn, Ops
  <2>3. \A w \in Ops : w # ops' => kind'[w] = kind[w] /\ pc'[w] = pc[w]
    BY <1>1, <2>1 DEF Dispatch, TypeOK, BirthTypes, ThreadTypes
  <2>4. JobsBegin'
    BY <1>1, <2>2, <2>3 DEF SpendInv, JobsBegin, Ops
  <2>5. Paid' = Paid
    BY <1>1, <2>2, <2>3 DEF Paid, Ops
  <2> QED
    BY <1>1, <2>4, <2>5, SpentLess DEF SpendInv
<1>2. CASE BuildRequested
  BY <1>1, <1>2 DEF BuildRequested, procs, disk
<1>3. CASE InstallAccepted
  BY <1>1, <1>3 DEF InstallAccepted, procs, disk
<1>4. CASE \/ ConfigureRequested \/ ConfigurePrepared \/ (\E v \in Variants : VariantPicked(v))
           \/ CancelBump \/ CancelTake \/ CloseIdle \/ InstallDeclined \/ DialogOverwritten
           \/ UNCHANGED vars
  <2>1. UNCHANGED <<kind, job, ok, marker, pc>>
    BY <1>4 DEF ConfigureRequested, ConfigurePrepared, VariantPicked, CancelBump,
       CancelTake, CloseIdle, InstallDeclined, DialogOverwritten, vars, birth, thread,
       procs, disk
  <2> QED
    BY <2>1, SpendKept
<1>5. CASE Restart
  <2>1. UNCHANGED <<kind, job, ok, marker>>
    BY <1>5 DEF Restart, birth, procs, disk
  <2>2. \A w \in Ops : pc'[w] \in BeforeSpawn => pc[w] \in BeforeSpawn
    BY <1>5 DEF Restart, BeforeSpawn
  <2> QED
    BY <2>1, <2>2, SpendKept
<1>6. CASE PrepareRefresh
  <2>1. UNCHANGED <<kind, job, ok, pc>> /\ marker' \subseteq marker
    BY <1>6 DEF PrepareRefresh, GitRefresh, birth, thread, procs
  <2> QED
    BY <2>1, SpendKept
<1>7. ASSUME NEW w \in Ops, BuildFinished(w) \/ ArtifactsInstalled(w) \/ HelperExits(w)
      PROVE  SpendInv'
  <2>1. UNCHANGED <<kind, job, ok, marker>>
    BY <1>7 DEF BuildFinished, ArtifactsInstalled, HelperExits, birth, thread, procs, disk
  <2>2. \A u \in Ops : pc'[u] \in BeforeSpawn => pc[u] \in BeforeSpawn
    BY <1>7 DEF BuildFinished, ArtifactsInstalled, HelperExits, thread, BeforeSpawn,
       TypeOK, ThreadTypes
  <2> QED
    BY <2>1, <2>2, SpendKept
<1>8. ASSUME NEW w \in Ops,
             \/ BuildRefresh(w) \/ Mutate(w) \/ PreCheck(w) \/ Globs(w) \/ SpawnFails(w)
             \/ PostCheck(w) \/ Store(w) \/ WaitEnds(w) \/ ClearSlot(w) \/ Report(w)
      PROVE  SpendInv'
  <2>1. UNCHANGED <<kind, job>> /\ ok' \subseteq ok /\ marker' \subseteq marker
    BY <1>8 DEF BuildRefresh, GitRefresh, Mutate, PreCheck, Globs, SpawnFails, PostCheck,
       Store, WaitEnds, ClearSlot, Report, birth, procs, disk
  <2>2. pc[w] \in BeforeSpawn \/ pc'[w] \notin BeforeSpawn
    BY <1>8 DEF BuildRefresh, Mutate, PreCheck, Globs, SpawnFails, PostCheck, Store,
       WaitEnds, ClearSlot, Report, Goto, BeforeSpawn, TypeOK, ThreadTypes
  <2>3. \A u \in Ops : u # w => pc'[u] = pc[u]
    BY <1>8 DEF BuildRefresh, Mutate, PreCheck, Globs, SpawnFails, PostCheck, Store,
       WaitEnds, ClearSlot, Report, Goto, TypeOK, ThreadTypes
  <2> QED
    BY <2>1, <2>2, <2>3, SpendKept
<1>9. ASSUME NEW w \in Ops, Spawn(w)
      PROVE  SpendInv'
  <2>1. job[w] = "none" /\ job' = [job EXCEPT ![w] = "running"]
        /\ UNCHANGED <<kind, ok, marker>>
    BY <1>9 DEF Spawn, Goto, SpendInv, JobsBegin, BeforeSpawn, birth, disk
  <2>2. pc'[w] \notin BeforeSpawn /\ \A u \in Ops : u # w => pc'[u] = pc[u]
    BY <1>9 DEF Spawn, Goto, BeforeSpawn, TypeOK, ThreadTypes
  <2>3. JobsBegin'
    BY <2>1, <2>2 DEF SpendInv, JobsBegin, TypeOK, ProcTypes, Ops
  <2>4. Paid \subseteq Paid'
    BY <2>1 DEF Paid, TypeOK, ProcTypes, Ops
  <2> QED
    BY <2>1, <2>3, <2>4, SpentLess DEF SpendInv
<1>10. ASSUME NEW w \in Ops, CheckMarker(w)
       PROVE  SpendInv'
  <2>1. UNCHANGED <<kind, job>> /\ pc'[w] = "Report"
        /\ \A u \in Ops : u # w => pc'[u] = pc[u]
    BY <1>10 DEF CheckMarker, Goto, birth, procs, TypeOK, ThreadTypes
  <2>2. CASE dir[w] \in marker
    <3>1. Spent'
      <4>1. Paid' = Paid
        BY <2>1 DEF Paid, Ops
      <4> QED
        BY <1>10, <2>2, <4>1, SpentMarker DEF CheckMarker, SpendInv
    <3>2. JobsBegin'
      BY <2>1 DEF SpendInv, JobsBegin, BeforeSpawn, Ops
    <3> QED
      BY <3>1, <3>2 DEF SpendInv
  <2>3. CASE dir[w] \notin marker
    <3>1. ok' \subseteq ok /\ marker' \subseteq marker
      BY <1>10, <2>3 DEF CheckMarker
    <3>2. \A u \in Ops : pc'[u] \in BeforeSpawn => pc[u] \in BeforeSpawn
      BY <2>1 DEF BeforeSpawn
    <3> QED
      BY <2>1, <3>1, <3>2, SpendKept
  <2> QED
    BY <2>2, <2>3
<1>11. ASSUME NEW w \in Ops, JobSucceeds(w)
       PROVE  SpendInv'
  <2>1. job[w] = "running" /\ job' = [job EXCEPT ![w] = "succeeded"]
        /\ UNCHANGED <<kind, ok, pc>>
    BY <1>11 DEF JobSucceeds, birth, thread
  <2>2. JobsBegin'
    BY <2>1 DEF SpendInv, JobsBegin, TypeOK, ProcTypes, Ops
  <2>3. CASE kind[w] = "build"
    <3>1. Paid' = Paid \cup {w} /\ w \notin Paid
      BY <2>1, <2>3 DEF Paid, TypeOK, ProcTypes, Ops
    <3>2. marker' = marker \cup {dir[w]}
      BY <1>11, <2>3 DEF JobSucceeds
    <3>3. Spent'
      BY <2>1, <3>1, <3>2, SpentSuccess DEF SpendInv
    <3> QED
      BY <2>2, <3>3 DEF SpendInv
  <2>4. CASE kind[w] # "build"
    <3>1. Paid \subseteq Paid' /\ marker' = marker
      BY <1>11, <2>1, <2>4 DEF JobSucceeds, Paid, TypeOK, ProcTypes, Ops
    <3> QED
      BY <2>1, <2>2, <3>1, SpentLess DEF SpendInv
  <2> QED
    BY <2>3, <2>4
<1>12. ASSUME NEW w \in Ops, JobFails(w)
       PROVE  SpendInv'
  <2>1. job[w] = "running" /\ job' = [job EXCEPT ![w] = "failed"]
        /\ UNCHANGED <<kind, ok, pc, marker>>
    BY <1>12 DEF JobFails, birth, thread, disk
  <2>2. JobsBegin'
    BY <2>1 DEF SpendInv, JobsBegin, TypeOK, ProcTypes, Ops
  <2>3. Paid \subseteq Paid'
    BY <2>1 DEF Paid, TypeOK, ProcTypes, Ops
  <2> QED
    BY <2>1, <2>2, <2>3, SpentLess DEF SpendInv
<1> QED
  BY <1>2, <1>3, <1>4, <1>5, <1>6, <1>7, <1>8, <1>9, <1>10, <1>11, <1>12
  DEF Next, OpStep

(* A success is never reported twice for one makepkg, for any number of    *)
(* builds, cancels and restarts.                                           *)
THEOREM NoDoubleSpendHolds == Spec => []NoDoubleSpend
<1>1. Init => SpendInv
  <2> SUFFICES ASSUME Init
               PROVE  SpendInv
    OBVIOUS
  <2>1. JobsBegin /\ ok = {} /\ marker = {} /\ Paid = {}
    BY DEF Init, JobsBegin, Paid
  <2> QED
    BY <2>1, FS_EmptySet DEF SpendInv, Spent, NoDoubleSpend, Paid
<1>2. SpendInv => NoDoubleSpend
  BY DEF SpendInv, Spent
<1> QED
  BY <1>1, <1>2, SpendStep, Invariance, PTL DEF Spec
===============================================================================
