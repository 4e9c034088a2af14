----------------------------- MODULE GitCache_proofs -----------------------------
(***************************************************************************)
(* Proofs about GitCache, for any number of prepares and builds: that a    *)
(* plan carried out by a thread with no other thread and no job beside it  *)
(* leaves a clean checkout, and that a checkout is lost only to a thread   *)
(* that saw none.                                                          *)
(***************************************************************************)
EXTENDS GitCache, TLAPS

(* What can be left of a plan.                                             *)
S1 == <<"GitPull">>
S2 == <<"GitCleanFd", "GitPull">>
S3 == <<"GitCheckoutForceMaster", "GitCleanFd", "GitPull">>
S4 == <<"EnterRepoDir", "GitCheckoutForceMaster", "GitCleanFd", "GitPull">>
Clone == <<"GitClone", "EnterRepoDir", "GitCheckoutForceMaster", "GitCleanFd", "GitPull">>
Removal == <<"RemoveNonGitRepo", "GitClone", "EnterRepoDir", "GitCheckoutForceMaster",
             "GitCleanFd", "GitPull">>
WholeUpdate == <<"EnterParentDir", "EnterRepoDir", "GitCheckoutForceMaster", "GitCleanFd", "GitPull">>
WholeClone == <<"EnterParentDir", "GitClone", "EnterRepoDir", "GitCheckoutForceMaster",
                "GitCleanFd", "GitPull">>
WholeRemoval == <<"EnterParentDir", "RemoveNonGitRepo", "GitClone", "EnterRepoDir",
                  "GitCheckoutForceMaster", "GitCleanFd", "GitPull">>
Wholes == {WholeUpdate, WholeClone, WholeRemoval}
Removals == {Removal, WholeRemoval}
Early == Wholes \cup {S3, S4, Clone, Removal}
Plans == Early \cup {<< >>, S1, S2}

(* A thread that has just looked has one of three plans, and the one that  *)
(* removes something only if it saw something without a .git.              *)
LEMMA PlanOfWhatIsSeen ==
    ASSUME NEW exists \in BOOLEAN, NEW isGit \in BOOLEAN
    PROVE  /\ GitCachePlan(exists, isGit) \in Wholes
           /\ GitCachePlan(exists, isGit) \in Removals => exists /\ ~isGit
  BY DEF GitCachePlan, Wholes, Removals, WholeUpdate, WholeClone, WholeRemoval, Removal

(* A plan of which more than the clean is left is none of the last three;  *)
(* and those are different.                                                *)
LEMMA PlansDiffer ==
    /\ Early \cap {<< >>, S1, S2} = {}
    /\ {<< >>, S1, S2, S3, S4, Clone} \cap Removals = {}
    /\ << >> # S1 /\ << >> # S2 /\ S1 # S2 /\ S4 # Removal /\ Clone # Removal
  BY DEF Early, Wholes, Removals, S1, S2, S3, S4, Clone, Removal, WholeUpdate, WholeClone, WholeRemoval

(* The step at the head of a plan says which plan it is, and what is left  *)
(* of it after the step.                                                   *)
LEMMA StepsOfWholes ==
    /\ Head(WholeUpdate) = "EnterParentDir" /\ Tail(WholeUpdate) = S4
    /\ Head(WholeClone) = "EnterParentDir" /\ Tail(WholeClone) = Clone
    /\ Head(WholeRemoval) = "EnterParentDir" /\ Tail(WholeRemoval) = Removal
  <1>1. Head(WholeUpdate) = "EnterParentDir" /\ Tail(WholeUpdate) = S4
    BY DEF WholeUpdate, S4
  <1>2. Head(WholeClone) = "EnterParentDir" /\ Tail(WholeClone) = Clone
    BY DEF WholeClone, Clone
  <1>3. Head(WholeRemoval) = "EnterParentDir" /\ Tail(WholeRemoval) = Removal
    BY DEF WholeRemoval, Removal
  <1>. QED BY <1>1, <1>2, <1>3
LEMMA StepsOfParts ==
    /\ Head(Removal) = "RemoveNonGitRepo" /\ Tail(Removal) = Clone
    /\ Head(Clone) = "GitClone" /\ Tail(Clone) = S4
    /\ Head(S4) = "EnterRepoDir" /\ Tail(S4) = S3
    /\ Head(S3) = "GitCheckoutForceMaster" /\ Tail(S3) = S2
    /\ Head(S2) = "GitCleanFd" /\ Tail(S2) = S1
    /\ Head(S1) = "GitPull" /\ Tail(S1) = << >>
  <1>1. Head(Removal) = "RemoveNonGitRepo" /\ Tail(Removal) = Clone
    BY DEF Removal, Clone
  <1>2. Head(Clone) = "GitClone" /\ Tail(Clone) = S4
    BY DEF Clone, S4
  <1>3. Head(S4) = "EnterRepoDir" /\ Tail(S4) = S3
    BY DEF S4, S3
  <1>4. Head(S3) = "GitCheckoutForceMaster" /\ Tail(S3) = S2
    BY DEF S3, S2
  <1>5. Head(S2) = "GitCleanFd" /\ Tail(S2) = S1
    BY DEF S2, S1
  <1>6. Head(S1) = "GitPull" /\ Tail(S1) = << >>
    BY DEF S1
  <1>. QED BY <1>1, <1>2, <1>3, <1>4, <1>5, <1>6

LEMMA PlanSteps ==
    ASSUME NEW p \in Plans, p # << >>
    PROVE  /\ Head(p) = "EnterParentDir" =>
                  /\ Tail(p) \in {S4, Clone, Removal}
                  /\ Tail(p) = Removal => p \in Removals
           /\ Head(p) = "RemoveNonGitRepo" => p \in Removals /\ Tail(p) = Clone
           /\ Head(p) = "GitClone" => Tail(p) = S4
           /\ Head(p) = "EnterRepoDir" => Tail(p) = S3
           /\ Head(p) = "GitCheckoutForceMaster" => Tail(p) = S2
           /\ Head(p) = "GitCleanFd" => p = S2 /\ Tail(p) = S1
           /\ Head(p) = "GitPull" => p = S1 /\ Tail(p) = << >>
  <1>1. p \in {WholeUpdate, WholeClone, WholeRemoval, Removal, Clone, S4, S3, S2, S1}
    BY DEF Plans, Early, Wholes
  <1>2. CASE p = WholeUpdate
    BY <1>2, StepsOfWholes, PlansDiffer
  <1>3. CASE p = WholeClone
    BY <1>3, StepsOfWholes, PlansDiffer DEF Removals
  <1>4. CASE p = WholeRemoval
    BY <1>4, StepsOfWholes DEF Removals
  <1>5. CASE p = Removal
    BY <1>5, StepsOfParts DEF Removals
  <1>6. CASE p \in {Clone, S4, S3, S2, S1}
    BY <1>6, StepsOfParts
  <1>. QED BY <1>1, <1>2, <1>3, <1>4, <1>5, <1>6

-----------------------------------------------------------------------------
(***************************************************************************)
(* The inductive invariant.  A thread that plans a removal is counted      *)
(* among those that saw no .git; one that nothing has failed for is the    *)
(* only one at work, and while it plans no job is at work either; and the  *)
(* tree is as the steps it is done with left it.                           *)
(***************************************************************************)
PCs == {"idle", "plan", "clone", "mutate", "spawn", "wait"}
WorkersTyped == worker \in [Workers -> [pc : PCs, plan : Plans]]
TreeTyped ==
    /\ repo \in Repos /\ mutated \in BOOLEAN /\ marker \in BOOLEAN
    /\ repo = "absent" => ~mutated /\ ~marker
JobsTyped == jobs \subseteq Jobs
Building == {"mutate", "spawn", "wait"}
OnlyBuildsBuild == \A w \in Workers : worker[w].pc \in Building => w \in Builds
ClonesGoOn == \A w \in Workers : worker[w].pc = "clone" => worker[w].plan = S4
RemovalsSawPlain ==
    /\ sawPlain \subseteq {w \in Workers : worker[w].pc \in {"plan", "clone"}}
    /\ \A w \in Workers : worker[w].pc = "plan" /\ worker[w].plan \in Removals => w \in sawPlain
UnspoiltAlone ==
    \A w, v \in Workers : Busy(w) /\ w \notin spoilt /\ v # w => ~Busy(v)
NoJobBeside ==
    \A w \in Workers : worker[w].pc \in {"plan", "clone"} /\ w \notin spoilt => jobs = {}
UnspoiltDone ==
    \A w \in Workers : worker[w].pc = "plan" /\ w \notin spoilt =>
        /\ worker[w].plan = S2 => repo = "checkout" /\ ~mutated
        /\ worker[w].plan \in {S1, << >>} => repo = "checkout" /\ ~mutated /\ ~marker
IInv ==
    /\ WorkersTyped /\ TreeTyped /\ JobsTyped /\ OnlyBuildsBuild /\ ClonesGoOn
    /\ RemovalsSawPlain /\ UnspoiltAlone /\ NoJobBeside /\ UnspoiltDone

(* It holds at the start ...                                               *)
LEMMA InitIInv == Init => IInv
  BY DEF Init, IInv, WorkersTyped, TreeTyped, JobsTyped, OnlyBuildsBuild, Building, ClonesGoOn,
         RemovalsSawPlain, UnspoiltAlone, NoJobBeside, UnspoiltDone, Idle, Busy, PCs, Plans, Repos

(* ... and every action keeps it.  An action of a thread at work gives     *)
(* that thread a new state; whatever it does to the tree, the others are   *)
(* not concerned: one that nothing has failed for would be alone.          *)
LEMMA OneThread ==
    ASSUME IInv, NEW w \in Workers, NEW pc \in PCs, NEW plan \in Plans,
           worker' = [worker EXCEPT ![w] = [pc |-> pc, plan |-> plan]]
    PROVE  /\ WorkersTyped'
           /\ worker'[w].pc = pc /\ worker'[w].plan = plan
           /\ \A v \in Workers : v # w => worker'[v] = worker[v]
  BY DEF IInv, WorkersTyped

LEMMA BusyThreadMoves ==
    ASSUME IInv, NEW w \in Workers, NEW pc \in PCs, NEW plan \in Plans, Busy(w),
           worker' = [worker EXCEPT ![w] = [pc |-> pc, plan |-> plan]],
           spoilt' \in {spoilt, spoilt \cup {w}}, sawPlain' \in {sawPlain, sawPlain \ {w}},
           TreeTyped', JobsTyped',
           pc \in Building => w \in Builds,
           pc \in {"plan", "clone"} => worker[w].pc \in {"plan", "clone"} /\ jobs' = jobs,
           pc = "clone" => plan = S4,
           w \in sawPlain' => pc \in {"plan", "clone"},
           pc = "plan" /\ plan \in Removals => w \in sawPlain',
           pc = "plan" /\ plan = S2 /\ w \notin spoilt' => repo' = "checkout" /\ ~mutated',
           pc = "plan" /\ plan \in {S1, << >>} /\ w \notin spoilt' =>
                repo' = "checkout" /\ ~mutated' /\ ~marker'
    PROVE  IInv'
  <1>1. /\ WorkersTyped' /\ worker'[w].pc = pc /\ worker'[w].plan = plan
        /\ \A v \in Workers : v # w => worker'[v] = worker[v]
    BY OneThread
  <1>2. OnlyBuildsBuild' /\ ClonesGoOn'
    BY <1>1 DEF IInv, OnlyBuildsBuild, ClonesGoOn, Building
  <1>3. RemovalsSawPlain'
    BY <1>1 DEF IInv, RemovalsSawPlain
  <1>4. \A v \in Workers : v # w /\ v \notin spoilt' => ~Busy(v) /\ ~Busy(v)'
    BY <1>1 DEF IInv, UnspoiltAlone, Busy
  <1>5. UnspoiltAlone'
    BY <1>1, <1>4 DEF IInv, UnspoiltAlone, Busy
  <1>6. UnspoiltDone'
    BY <1>1, <1>4 DEF UnspoiltDone, Busy
  <1>7. NoJobBeside'
    BY <1>1, <1>4 DEF IInv, NoJobBeside, Busy
  <1>. QED BY <1>1, <1>2, <1>3, <1>5, <1>6, <1>7 DEF IInv

(* To take marks away, or to write where there is a directory, is well     *)
(* typed.                                                                  *)
LEMMA MarksFewer ==
    ASSUME TreeTyped, mutated' \in {mutated, FALSE}, marker' \in {marker, FALSE},
           repo' \in Repos, repo' = "absent" => repo = "absent"
    PROVE  TreeTyped'
  <1>1. (mutated' = mutated \/ mutated' = FALSE) /\ (marker' = marker \/ marker' = FALSE)
    OBVIOUS
  <1>2. mutated' \in BOOLEAN /\ marker' \in BOOLEAN
    BY <1>1, Zenon DEF TreeTyped
  <1>3. repo' = "absent" => ~mutated' /\ ~marker'
    BY <1>1 DEF TreeTyped
  <1>. QED BY <1>2, <1>3 DEF TreeTyped
LEMMA MarksMore ==
    ASSUME TreeTyped, Exists, mutated' \in {mutated, TRUE}, marker' \in {marker, TRUE},
           repo' = repo
    PROVE  TreeTyped'
  <1>1. (mutated' = mutated \/ mutated' = TRUE) /\ (marker' = marker \/ marker' = TRUE)
    OBVIOUS
  <1>2. mutated' \in BOOLEAN /\ marker' \in BOOLEAN
    BY <1>1, Zenon DEF TreeTyped
  <1>. QED BY <1>2 DEF TreeTyped, Exists

(* A thread at a step of its plan has a plan to go on with, or to stop.    *)
LEMMA AtAStep ==
    ASSUME IInv, NEW w \in Workers, worker[w].pc = "plan", worker[w].plan # << >>
    PROVE  /\ worker[w].plan \in Plans /\ Busy(w) /\ << >> \in Plans /\ "plan" \in PCs
           /\ << >> \notin Removals
           /\ \A v \in Workers : v \in sawPlain => worker[v].pc \in {"plan", "clone"}
  BY PlansDiffer DEF IInv, WorkersTyped, RemovalsSawPlain, Busy, Plans, PCs

LEMMA Stopping ==
    ASSUME IInv, NEW w \in Workers, worker[w].pc \in {"plan", "clone"}, Stops(w), TreeTyped',
           jobs' = jobs
    PROVE  IInv'
  <1>. DEFINE gone == << >>
  <1>1. gone \in Plans /\ "plan" \in PCs /\ gone \notin Removals /\ gone # S2
    BY PlansDiffer DEF Plans, PCs
  <1>2. worker' = [worker EXCEPT ![w] = [pc |-> "plan", plan |-> gone]]
    BY DEF Stops
  <1>3. spoilt' = spoilt \cup {w} /\ sawPlain' = sawPlain
    BY DEF Stops
  <1>4. Busy(w) /\ JobsTyped' /\ "plan" \notin Building
    BY DEF Busy, IInv, JobsTyped, Building
  <1>. HIDE DEF gone
  <1>. QED BY <1>1, <1>2, <1>3, <1>4, BusyThreadMoves

LEMMA Proceeding ==
    ASSUME IInv, NEW w \in Workers, worker[w].pc = "plan", worker[w].plan # << >>,
           Proceeds(w), TreeTyped', jobs' = jobs, NEW rest \in Plans, Tail(worker[w].plan) = rest,
           rest \in Removals => worker[w].plan \in Removals,
           rest = S2 => repo' = "checkout" /\ ~mutated',
           rest \in {S1, << >>} /\ w \notin spoilt => repo' = "checkout" /\ ~mutated' /\ ~marker'
    PROVE  IInv'
  <1>1. Busy(w) /\ "plan" \in PCs /\ "plan" \notin Building /\ JobsTyped'
    BY DEF Busy, PCs, Building, IInv, JobsTyped
  <1>2. worker' = [worker EXCEPT ![w] = [pc |-> "plan", plan |-> rest]]
    BY DEF Proceeds
  <1>3. spoilt' = spoilt /\ sawPlain' = sawPlain
    BY DEF Proceeds
  <1>4. rest \in Removals => w \in sawPlain
    BY DEF IInv, RemovalsSawPlain
  <1>. QED BY <1>1, <1>2, <1>3, <1>4, BusyThreadMoves

-----------------------------------------------------------------------------
LEMMA BeginsKeeps ==
    ASSUME IInv, NEW w \in Workers, Begins(w)
    PROVE  IInv'
  <1>. DEFINE plan == GitCachePlan(Exists, IsGit)
  <1>0. Exists \in BOOLEAN /\ IsGit \in BOOLEAN
    BY DEF Exists, IsGit
  <1>1. plan \in Wholes /\ (plan \in Removals => Exists /\ ~IsGit)
    BY <1>0, PlanOfWhatIsSeen
  <1>2. plan \in Plans /\ plan \notin {<< >>, S1, S2} /\ "plan" \in PCs
    BY <1>1, PlansDiffer DEF Plans, Early, PCs
  <1>3. worker' = [worker EXCEPT ![w] = [pc |-> "plan", plan |-> plan]]
    BY DEF Begins
  <1>. HIDE DEF plan
  <1>4. /\ WorkersTyped' /\ worker'[w].pc = "plan" /\ worker'[w].plan = plan
        /\ \A v \in Workers : v # w => worker'[v] = worker[v]
    BY <1>2, <1>3, OneThread
  <1>5. TreeTyped' /\ JobsTyped' /\ OnlyBuildsBuild' /\ ClonesGoOn'
    BY <1>4 DEF Begins, IInv, TreeTyped, JobsTyped, OnlyBuildsBuild, Building, ClonesGoOn, tree
  <1>6. RemovalsSawPlain'
    BY <1>1, <1>4 DEF Begins, IInv, RemovalsSawPlain, Exists, IsGit, plan
  <1>7. CASE (\E v \in Workers \ {w} : Busy(v)) \/ jobs # {}
    <2>1. \A v \in Workers : Busy(v)' => v \in spoilt'
      BY <1>4, <1>7 DEF Begins, Busy
    <2>2. UnspoiltAlone' /\ NoJobBeside' /\ UnspoiltDone'
      BY <2>1 DEF UnspoiltAlone, NoJobBeside, UnspoiltDone, Busy
    <2>. QED BY <2>2, <1>4, <1>5, <1>6 DEF IInv
  <1>8. CASE ~(\E v \in Workers \ {w} : Busy(v)) /\ jobs = {}
    <2>1. (\A v \in Workers : v # w => ~Busy(v)') /\ jobs' = {}
      BY <1>4, <1>8 DEF Begins, Busy
    <2>2. UnspoiltAlone' /\ NoJobBeside' /\ UnspoiltDone'
      BY <2>1, <1>2, <1>4 DEF UnspoiltAlone, NoJobBeside, UnspoiltDone, Busy
    <2>. QED BY <2>2, <1>4, <1>5, <1>6 DEF IInv
  <1>. QED BY <1>7, <1>8

LEMMA EnterParentDirKeeps ==
    ASSUME IInv, NEW w \in Workers, EnterParentDir(w)
    PROVE  IInv'
  <1>1. worker[w].pc = "plan" /\ worker[w].plan # << >> /\ Head(worker[w].plan) = "EnterParentDir"
    BY DEF EnterParentDir, At
  <1>2. Busy(w) /\ worker[w].plan \in Plans
    BY <1>1, AtAStep
  <1>3. TreeTyped' /\ jobs' = jobs
    BY DEF EnterParentDir, IInv, TreeTyped, tree
  <1>4. Tail(worker[w].plan) \in {S4, Clone, Removal}
    BY <1>1, <1>2, PlanSteps
  <1>5. Tail(worker[w].plan) \in Removals => worker[w].plan \in Removals
    BY <1>1, <1>2, <1>4, PlanSteps, PlansDiffer
  <1>6. Tail(worker[w].plan) \in Plans /\ Tail(worker[w].plan) \notin {S1, S2, << >>}
    BY <1>4, PlansDiffer DEF Plans, Early
  <1>7. CASE Proceeds(w)
    BY <1>1, <1>3, <1>5, <1>6, <1>7, Proceeding
  <1>8. CASE Stops(w)
    BY <1>1, <1>3, <1>8, Stopping
  <1>. QED BY <1>7, <1>8 DEF EnterParentDir

LEMMA RemoveNonGitRepoKeeps ==
    ASSUME IInv, NEW w \in Workers, RemoveNonGitRepo(w)
    PROVE  IInv'
  <1>1. worker[w].pc = "plan" /\ worker[w].plan # << >> /\ Head(worker[w].plan) = "RemoveNonGitRepo"
    BY DEF RemoveNonGitRepo, At
  <1>2. Busy(w) /\ worker[w].plan \in Plans /\ "plan" \in PCs
    BY <1>1, AtAStep
  <1>3. TreeTyped' /\ JobsTyped' /\ jobs' = jobs /\ "plan" \notin Building
    <2>1. JobsTyped' /\ jobs' = jobs /\ "plan" \notin Building
      BY DEF RemoveNonGitRepo, IInv, JobsTyped, Building
    <2>2. CASE repo' = "absent" /\ mutated' = FALSE /\ marker' = FALSE
      BY <2>1, <2>2 DEF TreeTyped, Repos
    <2>3. CASE /\ repo' = (IF Exists THEN "plain" ELSE repo)
               /\ mutated' \in {mutated, FALSE} /\ marker' \in {marker, FALSE}
      BY <2>1, <2>3, MarksFewer DEF Exists, IInv, TreeTyped, Repos
    <2>. QED BY <2>2, <2>3 DEF RemoveNonGitRepo
  <1>4. Tail(worker[w].plan) = Clone
    BY <1>1, <1>2, PlanSteps
  <1>5. Clone \in Plans /\ Clone \notin Removals /\ Clone \notin {S1, S2, << >>}
    BY PlansDiffer DEF Plans, Early
  <1>6. worker' = [worker EXCEPT ![w] = [pc |-> "plan", plan |-> Clone]]
    BY <1>4 DEF RemoveNonGitRepo, Proceeds
  <1>7. spoilt' \in {spoilt, spoilt \cup {w}} /\ sawPlain' = sawPlain
    BY DEF RemoveNonGitRepo, Proceeds
  <1>. QED BY <1>1, <1>2, <1>3, <1>5, <1>6, <1>7, BusyThreadMoves

LEMMA GitCloneKeeps ==
    ASSUME IInv, NEW w \in Workers, GitClone(w)
    PROVE  IInv'
  <1>1. worker[w].pc = "plan" /\ worker[w].plan # << >> /\ Head(worker[w].plan) = "GitClone"
    BY DEF GitClone, At
  <1>2. Busy(w) /\ worker[w].plan \in Plans /\ "clone" \in PCs
    BY <1>1, AtAStep DEF PCs
  <1>3. TreeTyped' /\ JobsTyped' /\ jobs' = jobs /\ "clone" \notin Building
    BY DEF GitClone, IInv, TreeTyped, JobsTyped, Building, Repos, Exists
  <1>4. Tail(worker[w].plan) = S4 /\ S4 \in Plans
    BY <1>1, <1>2, PlanSteps DEF Plans, Early
  <1>5. CASE Stops(w)
    BY <1>1, <1>3, <1>5, Stopping
  <1>6. CASE worker' = [worker EXCEPT ![w] = [pc |-> "clone", plan |-> Tail(@.plan)]]
             /\ UNCHANGED <<sawPlain, spoilt>>
    <2>1. worker' = [worker EXCEPT ![w] = [pc |-> "clone", plan |-> S4]]
      BY <1>4, <1>6
    <2>2. w \in sawPlain' => "clone" \in {"plan", "clone"}
      OBVIOUS
    <2>. QED BY <1>1, <1>2, <1>3, <1>4, <1>6, <2>1, <2>2, BusyThreadMoves
  <1>. QED BY <1>5, <1>6 DEF GitClone, history

LEMMA CloneEndsKeeps ==
    ASSUME IInv, NEW w \in Workers, CloneEnds(w)
    PROVE  IInv'
  <1>1. Busy(w) /\ worker[w].plan = S4 /\ worker[w].pc = "clone"
    BY DEF CloneEnds, Busy, IInv, ClonesGoOn
  <1>2. TreeTyped' /\ JobsTyped' /\ jobs' = jobs /\ "plan" \notin Building
    BY DEF CloneEnds, CloneSucceeds, CloneFails, IInv, TreeTyped, JobsTyped, Building, Repos, tree
  <1>3. S4 \in Plans /\ S4 \notin Removals /\ S4 \notin {S1, S2, << >>} /\ "plan" \in PCs
    BY PlansDiffer DEF Plans, Early, PCs
  <1>4. CASE Stops(w)
    BY <1>1, <1>2, <1>4, Stopping
  <1>5. CASE worker' = [worker EXCEPT ![w].pc = "plan"] /\ UNCHANGED <<sawPlain, spoilt>>
    <2>1. worker[w] \in [pc : PCs, plan : Plans]
      BY DEF IInv, WorkersTyped
    <2>2. [worker[w] EXCEPT !.pc = "plan"] = [pc |-> "plan", plan |-> S4]
      BY <1>1, <2>1
    <2>3. worker' = [worker EXCEPT ![w] = [pc |-> "plan", plan |-> S4]]
      BY <1>5, <2>2
    <2>. QED BY <1>1, <1>2, <1>3, <1>5, <2>3, BusyThreadMoves
  <1>. QED BY <1>4, <1>5 DEF CloneEnds, history

LEMMA EnterRepoDirKeeps ==
    ASSUME IInv, NEW w \in Workers, EnterRepoDir(w)
    PROVE  IInv'
  <1>1. worker[w].pc = "plan" /\ worker[w].plan # << >> /\ Head(worker[w].plan) = "EnterRepoDir"
    BY DEF EnterRepoDir, At
  <1>2. Busy(w) /\ worker[w].plan \in Plans
    BY <1>1, AtAStep
  <1>3. TreeTyped' /\ jobs' = jobs
    BY DEF EnterRepoDir, IInv, TreeTyped, tree
  <1>4. Tail(worker[w].plan) = S3
    BY <1>1, <1>2, PlanSteps
  <1>5. S3 \in Plans /\ S3 \notin Removals /\ S3 \notin {S1, S2, << >>}
    BY PlansDiffer DEF Plans, Early
  <1>6. CASE Proceeds(w)
    BY <1>1, <1>3, <1>4, <1>5, <1>6, Proceeding
  <1>7. CASE Stops(w)
    BY <1>1, <1>3, <1>7, Stopping
  <1>. QED BY <1>6, <1>7 DEF EnterRepoDir

LEMMA GitCheckoutForceMasterKeeps ==
    ASSUME IInv, NEW w \in Workers, GitCheckoutForceMaster(w)
    PROVE  IInv'
  <1>1. /\ worker[w].pc = "plan" /\ worker[w].plan # << >>
        /\ Head(worker[w].plan) = "GitCheckoutForceMaster"
    BY DEF GitCheckoutForceMaster, At
  <1>2. Busy(w) /\ worker[w].plan \in Plans
    BY <1>1, AtAStep
  <1>3. TreeTyped' /\ jobs' = jobs
    <2>1. repo' = repo /\ marker' = marker /\ jobs' = jobs
      BY DEF GitCheckoutForceMaster
    <2>2. CASE mutated' = FALSE
      BY <2>1, <2>2 DEF IInv, TreeTyped
    <2>3. CASE mutated' = mutated
      BY <2>1, <2>3 DEF IInv, TreeTyped
    <2>. QED BY <2>2, <2>3 DEF GitCheckoutForceMaster
  <1>4. Tail(worker[w].plan) = S2
    BY <1>1, <1>2, PlanSteps
  <1>5. S2 \in Plans /\ S2 \notin Removals /\ S2 \notin {S1, << >>}
    BY PlansDiffer DEF Plans
  <1>6. CASE repo = "checkout" /\ mutated' = FALSE /\ Proceeds(w)
    <2>1. repo' = "checkout" /\ ~mutated'
      BY <1>6 DEF GitCheckoutForceMaster
    <2>. QED BY <1>1, <1>3, <1>4, <1>5, <1>6, <2>1, Proceeding
  <1>7. CASE Stops(w)
    BY <1>1, <1>3, <1>7, Stopping
  <1>. QED BY <1>6, <1>7 DEF GitCheckoutForceMaster

LEMMA GitCleanFdKeeps ==
    ASSUME IInv, NEW w \in Workers, GitCleanFd(w)
    PROVE  IInv'
  <1>1. worker[w].pc = "plan" /\ worker[w].plan # << >> /\ Head(worker[w].plan) = "GitCleanFd"
    BY DEF GitCleanFd, At
  <1>2. Busy(w) /\ worker[w].plan \in Plans
    BY <1>1, AtAStep
  <1>3. TreeTyped' /\ jobs' = jobs
    <2>1. repo' = repo /\ mutated' = mutated /\ jobs' = jobs
      BY DEF GitCleanFd
    <2>2. CASE marker' = FALSE
      BY <2>1, <2>2 DEF IInv, TreeTyped
    <2>3. CASE marker' = marker
      BY <2>1, <2>3 DEF IInv, TreeTyped
    <2>. QED BY <2>2, <2>3 DEF GitCleanFd
  <1>4. worker[w].plan = S2 /\ Tail(worker[w].plan) = S1
    BY <1>1, <1>2, PlanSteps
  <1>5. S1 \in Plans /\ S1 # S2
    BY PlansDiffer DEF Plans
  <1>6. S1 \in Removals => worker[w].plan \in Removals
    BY PlansDiffer
  <1>7. CASE repo = "checkout" /\ marker' = FALSE /\ Proceeds(w)
    <2>1. w \notin spoilt => repo' = "checkout" /\ ~mutated' /\ ~marker'
      BY <1>1, <1>4, <1>7 DEF GitCleanFd, IInv, UnspoiltDone
    <2>. QED BY <1>1, <1>3, <1>4, <1>5, <1>6, <1>7, <2>1, Proceeding
  <1>8. CASE Stops(w)
    BY <1>1, <1>3, <1>8, Stopping
  <1>. QED BY <1>7, <1>8 DEF GitCleanFd

LEMMA GitPullKeeps ==
    ASSUME IInv, NEW w \in Workers, GitPull(w)
    PROVE  IInv'
  <1>. DEFINE gone == << >>
  <1>1. worker[w].pc = "plan" /\ worker[w].plan # << >> /\ Head(worker[w].plan) = "GitPull"
    BY DEF GitPull, At
  <1>2. Busy(w) /\ worker[w].plan \in Plans
    BY <1>1, AtAStep
  <1>3. TreeTyped' /\ jobs' = jobs
    BY DEF GitPull, IInv, TreeTyped, tree
  <1>4. worker[w].plan = S1 /\ Tail(worker[w].plan) = gone
    BY <1>1, <1>2, PlanSteps
  <1>5. gone \in Plans /\ gone \notin Removals /\ gone # S2
    BY PlansDiffer DEF Plans
  <1>6. w \notin spoilt => repo' = "checkout" /\ ~mutated' /\ ~marker'
    BY <1>1, <1>4 DEF GitPull, IInv, UnspoiltDone, tree
  <1>. HIDE DEF gone
  <1>7. CASE Proceeds(w)
    BY <1>1, <1>3, <1>4, <1>5, <1>6, <1>7, Proceeding
  <1>8. CASE Stops(w)
    BY <1>1, <1>3, <1>8, Stopping
  <1>. QED BY <1>7, <1>8 DEF GitPull

(* After the plan: no removal is pending, whatever comes next.             *)
LEMMA AfterThePlan ==
    ASSUME IInv, NEW w \in Workers, Busy(w), NEW pc \in Building \cup {"idle"},
           pc \in Building => w \in Builds,
           worker' = [worker EXCEPT ![w] = After(pc)],
           spoilt' = spoilt, sawPlain' = sawPlain \ {w}, TreeTyped', JobsTyped'
    PROVE  IInv'
  <1>. DEFINE gone == << >>
  <1>1. gone \in Plans /\ pc \in PCs /\ pc \notin {"plan", "clone"}
    BY DEF Plans, PCs, Building
  <1>2. worker' = [worker EXCEPT ![w] = [pc |-> pc, plan |-> gone]]
    BY DEF After
  <1>. HIDE DEF gone
  <1>. QED BY <1>1, <1>2, BusyThreadMoves

LEMMA PlanEndsKeeps ==
    ASSUME IInv, NEW w \in Workers, PlanEnds(w)
    PROVE  IInv'
  <1>1. /\ Busy(w) /\ TreeTyped' /\ JobsTyped' /\ spoilt' = spoilt
        /\ sawPlain' = sawPlain \ {w} /\ {"mutate", "idle"} \subseteq Building \cup {"idle"}
        /\ "idle" \notin Building
    BY DEF PlanEnds, Busy, IInv, TreeTyped, JobsTyped, Building, tree
  <1>2. CASE w \in Builds
    BY <1>1, <1>2, AfterThePlan DEF PlanEnds
  <1>3. CASE w \notin Builds
    <2>1. worker' = [worker EXCEPT ![w] = After("idle")]
      BY <1>3 DEF PlanEnds, After, Idle
    <2>. QED BY <1>1, <2>1, AfterThePlan
  <1>. QED BY <1>2, <1>3

(* A build that is past its plan is not among those that saw no .git.      *)
LEMMA BuildMoves ==
    ASSUME IInv, NEW w \in Builds, worker[w].pc \in Building,
           NEW pc \in Building \cup {"idle"}, worker' = [worker EXCEPT ![w] = After(pc)],
           UNCHANGED history, TreeTyped', JobsTyped'
    PROVE  IInv'
  <1>1. w \in Workers /\ Busy(w)
    BY DEF Workers, Busy, Building
  <1>2. w \notin sawPlain
    BY <1>1 DEF IInv, RemovalsSawPlain, Building
  <1>3. spoilt' = spoilt /\ sawPlain' = sawPlain \ {w}
    BY <1>2 DEF history
  <1>. QED BY <1>1, <1>3, AfterThePlan

LEMMA MutateKeeps ==
    ASSUME IInv, NEW w \in Builds, Mutate(w)
    PROVE  IInv'
  <1>0. TreeTyped'
    <2>1. CASE Exists /\ mutated' = TRUE
      BY <2>1, MarksMore DEF Mutate, IInv
    <2>2. CASE mutated' = mutated
      BY <2>2 DEF Mutate, IInv, TreeTyped
    <2>. QED BY <2>1, <2>2 DEF Mutate
  <1>1. /\ TreeTyped' /\ JobsTyped' /\ UNCHANGED history /\ worker[w].pc \in Building
        /\ "spawn" \in Building
    BY <1>0 DEF Mutate, IInv, JobsTyped, Building
  <1>2. CASE worker' = [worker EXCEPT ![w] = After("spawn")]
    BY <1>1, <1>2, BuildMoves
  <1>3. CASE worker' = [worker EXCEPT ![w] = Idle]
    <2>1. worker' = [worker EXCEPT ![w] = After("idle")]
      BY <1>3 DEF After, Idle
    <2>. QED BY <1>1, <2>1, BuildMoves
  <1>. QED BY <1>2, <1>3 DEF Mutate

LEMMA StartsJobKeeps ==
    ASSUME IInv, NEW w \in Builds, StartsJob(w)
    PROVE  IInv'
  <1>1. /\ TreeTyped' /\ JobsTyped' /\ UNCHANGED history /\ worker[w].pc \in Building
        /\ "wait" \in Building
    BY DEF StartsJob, IInv, TreeTyped, JobsTyped, Building, tree
  <1>2. CASE worker' = [worker EXCEPT ![w] = After("wait")]
    BY <1>1, <1>2, BuildMoves
  <1>3. CASE worker' = [worker EXCEPT ![w] = Idle]
    <2>1. worker' = [worker EXCEPT ![w] = After("idle")]
      BY <1>3 DEF After, Idle
    <2>. QED BY <1>1, <2>1, BuildMoves
  <1>. QED BY <1>2, <1>3 DEF StartsJob

LEMMA BuildEndsKeeps ==
    ASSUME IInv, NEW w \in Builds, BuildEnds(w)
    PROVE  IInv'
  <1>0. TreeTyped'
    BY MarksFewer DEF BuildEnds, IInv, TreeTyped
  <1>1. /\ TreeTyped' /\ JobsTyped' /\ UNCHANGED history /\ worker[w].pc \in Building
    BY <1>0 DEF BuildEnds, IInv, JobsTyped, Building
  <1>2. worker' = [worker EXCEPT ![w] = After("idle")]
    BY DEF BuildEnds, After, Idle
  <1>. QED BY <1>1, <1>2, BuildMoves

(* What goes on without a thread: a clone, of which no plan is done that   *)
(* nothing has failed for; jobs, beside which there is no such plan.       *)
LEMMA CloneGoesOnKeeps ==
    ASSUME IInv, CloneGoesOn
    PROVE  IInv'
  <1>1. worker' = worker /\ jobs' = jobs /\ sawPlain' = sawPlain /\ spoilt' = spoilt
    BY DEF CloneGoesOn, history
  <1>2. TreeTyped'
    BY DEF CloneGoesOn, CloneSucceeds, CloneFails, IInv, TreeTyped, Repos
  <1>3. UnspoiltDone'
    BY <1>1 DEF CloneGoesOn, IInv, UnspoiltDone
  <1>. QED BY <1>1, <1>2, <1>3 DEF IInv, WorkersTyped, JobsTyped, OnlyBuildsBuild, ClonesGoOn,
              RemovalsSawPlain, UnspoiltAlone, NoJobBeside, Busy

LEMMA JobWritesKeeps ==
    ASSUME IInv, JobWrites
    PROVE  IInv'
  <1>1. worker' = worker /\ jobs' = jobs /\ sawPlain' = sawPlain /\ spoilt' = spoilt
    BY DEF JobWrites, history
  <1>2. TreeTyped'
    BY MarksMore DEF JobWrites, IInv
  <1>3. UnspoiltDone'
    BY <1>1 DEF JobWrites, IInv, NoJobBeside, UnspoiltDone
  <1>. QED BY <1>1, <1>2, <1>3 DEF IInv, WorkersTyped, JobsTyped, OnlyBuildsBuild, ClonesGoOn,
              RemovalsSawPlain, UnspoiltAlone, NoJobBeside, Busy

LEMMA JobEndsKeeps ==
    ASSUME IInv, NEW j \in jobs, JobEnds(j)
    PROVE  IInv'
  <1>1. worker' = worker /\ UNCHANGED tree /\ sawPlain' = sawPlain /\ spoilt' = spoilt
    BY DEF JobEnds, history
  <1>2. JobsTyped' /\ NoJobBeside'
    BY <1>1 DEF JobEnds, IInv, JobsTyped, NoJobBeside
  <1>. QED BY <1>1, <1>2 DEF IInv, WorkersTyped, TreeTyped, OnlyBuildsBuild, ClonesGoOn,
              RemovalsSawPlain, UnspoiltAlone, UnspoiltDone, Busy, tree

LEMMA RestartKeeps ==
    ASSUME IInv, Restart
    PROVE  IInv'
  <1>1. WorkersTyped' /\ \A w \in Workers : worker'[w] = Idle /\ worker'[w].pc = "idle"
    BY DEF Restart, WorkersTyped, Idle, Plans, PCs
  <1>2. TreeTyped' /\ JobsTyped'
    BY DEF Restart, IInv, TreeTyped, JobsTyped, tree
  <1>3. /\ OnlyBuildsBuild' /\ ClonesGoOn' /\ RemovalsSawPlain'
        /\ UnspoiltAlone' /\ NoJobBeside' /\ UnspoiltDone'
    BY <1>1 DEF Restart, OnlyBuildsBuild, Building, ClonesGoOn, RemovalsSawPlain, UnspoiltAlone,
                NoJobBeside, UnspoiltDone, Busy
  <1>. QED BY <1>1, <1>2, <1>3 DEF IInv

LEMMA NextIInv == IInv /\ [Next]_vars => IInv'
  <1>. SUFFICES ASSUME IInv, [Next]_vars PROVE IInv'
    OBVIOUS
  <1>1. CASE Restart \/ CloneGoesOn \/ JobWrites
    BY <1>1, RestartKeeps, CloneGoesOnKeeps, JobWritesKeeps
  <1>2. ASSUME NEW w \in Workers,
               \/ Begins(w) \/ EnterParentDir(w) \/ RemoveNonGitRepo(w) \/ GitClone(w)
               \/ CloneEnds(w) \/ EnterRepoDir(w) \/ GitCheckoutForceMaster(w)
               \/ GitCleanFd(w) \/ GitPull(w) \/ PlanEnds(w)
        PROVE  IInv'
    BY <1>2, BeginsKeeps, EnterParentDirKeeps, RemoveNonGitRepoKeeps, GitCloneKeeps,
       CloneEndsKeeps, EnterRepoDirKeeps, GitCheckoutForceMasterKeeps, GitCleanFdKeeps,
       GitPullKeeps, PlanEndsKeeps
  <1>3. ASSUME NEW b \in Builds, Mutate(b) \/ StartsJob(b) \/ BuildEnds(b)
        PROVE  IInv'
    BY <1>3, MutateKeeps, StartsJobKeeps, BuildEndsKeeps
  <1>5. ASSUME NEW j \in jobs, JobEnds(j)
        PROVE  IInv'
    BY <1>5, JobEndsKeeps
  <1>4. CASE UNCHANGED vars
    BY <1>4 DEF vars, IInv, WorkersTyped, TreeTyped, JobsTyped, OnlyBuildsBuild, ClonesGoOn,
                RemovalsSawPlain, UnspoiltAlone, NoJobBeside, UnspoiltDone, Busy
  <1>. QED BY <1>1, <1>2, <1>3, <1>4, <1>5 DEF Next

(* The inductive invariant holds throughout.                               *)
THEOREM Invariance == Spec => []IInv
  BY InitIInv, NextIInv, PTL DEF Spec

(* The types of the directory, the threads and the jobs; nothing is        *)
(* written where there is no directory, as write_pkgbuild fails there.     *)
THEOREM TypeCorrect == Spec => []TypeOK
  <1>1. IInv => TypeOK
    BY DEF IInv, WorkersTyped, TreeTyped, JobsTyped, OnlyBuildsBuild, Building, RemovalsSawPlain,
           TypeOK, PCs, Busy
  <1>. QED BY <1>1, Invariance, PTL

(* execute_git_cache_plan: a thread that carried out whatever it planned   *)
(* with no failed command, while there was no other thread, nor a makepkg  *)
(* that a cancelled thread or an earlier start of the program left behind, *)
(* leaves a clean checkout.                                                *)
THEOREM CompletePlansLeaveACleanCheckout == Spec => []CompleteIsClean
  <1>1. IInv => CompleteIsClean
    BY DEF IInv, UnspoiltDone, CompleteIsClean
  <1>. QED BY <1>1, Invariance, PTL

(* A step that loses the checkout removes it, and only a thread that saw   *)
(* no .git has that step in its plan.                                      *)
THEOREM CheckoutIsLostOnlyToAStalePlan == Spec => CheckoutSurvives
  <1>1. IInv /\ [Next]_vars => (repo = "checkout" /\ sawPlain = {} => repo' = "checkout")
    <2>. SUFFICES ASSUME IInv, [Next]_vars, repo = "checkout", sawPlain = {}
                  PROVE  repo' = "checkout"
      OBVIOUS
    <2>1. ASSUME NEW w \in Workers PROVE ~RemoveNonGitRepo(w)
      <3>. SUFFICES ASSUME RemoveNonGitRepo(w) PROVE FALSE
        OBVIOUS
      <3>1. worker[w].pc = "plan" /\ worker[w].plan # << >> /\ Head(worker[w].plan) = "RemoveNonGitRepo"
        BY DEF RemoveNonGitRepo, At
      <3>2. worker[w].plan \in Removals
        BY <3>1, AtAStep, PlanSteps
      <3>. QED BY <3>1, <3>2 DEF IInv, RemovalsSawPlain
    <2>2. CASE Restart \/ CloneGoesOn \/ JobWrites
      BY <2>2 DEF Restart, CloneGoesOn, CloneSucceeds, CloneFails, JobWrites, tree
    <2>3. ASSUME NEW w \in Workers,
                 \/ Begins(w) \/ EnterParentDir(w) \/ EnterRepoDir(w) \/ GitPull(w)
                 \/ GitCheckoutForceMaster(w) \/ GitCleanFd(w) \/ PlanEnds(w)
          PROVE  repo' = "checkout"
      BY <2>3 DEF Begins, EnterParentDir, EnterRepoDir, GitPull, GitCheckoutForceMaster,
                  GitCleanFd, PlanEnds, tree
    <2>4. ASSUME NEW w \in Workers, GitClone(w) \/ CloneEnds(w)
          PROVE  repo' = "checkout"
      BY <2>4 DEF GitClone, CloneEnds, CloneSucceeds, CloneFails, Exists, tree
    <2>5. ASSUME NEW b \in Builds, Mutate(b) \/ StartsJob(b) \/ BuildEnds(b)
          PROVE  repo' = "checkout"
      BY <2>5 DEF Mutate, StartsJob, BuildEnds, tree
    <2>6. ASSUME NEW j \in jobs, JobEnds(j)
          PROVE  repo' = "checkout"
      BY <2>6 DEF JobEnds, tree
    <2>. QED BY <2>1, <2>2, <2>3, <2>4, <2>5, <2>6 DEF Next, vars
  <1>. QED BY <1>1, Invariance, PTL DEF Spec, CheckoutSurvives
==================================================================================
