-------------------------------- MODULE GitCache --------------------------------
(***************************************************************************)
(* The checkout of the PKGBUILDs below the cache directory.  The thread of *)
(* a prepare and the thread of a build each look at it, plan from what     *)
(* they saw (git_cache_plan) and carry the plan out command by command     *)
(* (execute_git_cache_plan); a build then writes into whatever directory   *)
(* there is and starts a job, a makepkg below a terminal, that writes      *)
(* there too.  Nothing keeps the threads apart, and a job outlives a       *)
(* cancelled thread and the program.                                       *)
(*                                                                         *)
(* External: git, which takes its time to clone, refuses to clone over     *)
(* what is there, and may fail at any command; makepkg; the file system,   *)
(* on which the cache may turn out not to be a directory.                  *)
(***************************************************************************)
EXTENDS Naturals, Sequences

CONSTANTS
    Prepares, Builds,   \* the threads of either kind
    Jobs                \* bounds the jobs at work at one time
Workers == Prepares \cup Builds
ASSUME KindsAssumption == Prepares \cap Builds = {}

VARIABLES
    repo,       \* what is at the checkout's path
    mutated,    \* a PKGBUILD there is not as git has it
    marker,     \* there is a .done-status
    worker,     \* the threads: what they have yet to do
    jobs,       \* the jobs at work
    sawPlain,   \* history: the threads at work that found no .git there
    spoilt      \* history: the threads that something failed for, or that had
                \* another thread or a job beside them
tree == <<repo, mutated, marker>>
history == <<sawPlain, spoilt>>
vars == <<repo, mutated, marker, worker, jobs, sawPlain, spoilt>>

Repos == {"absent", "plain", "cloning", "checkout"}
Exists == repo # "absent"
IsGit == repo \in {"cloning", "checkout"}

(* A plausible mistake in GitCachePlan; not part of the specification.     *)
GitCachePlanWiping(exists, isGit) ==
    <<"EnterParentDir">> \o (IF exists THEN <<"RemoveNonGitRepo">> ELSE << >>)
    \o <<"GitClone", "EnterRepoDir", "GitCheckoutForceMaster", "GitCleanFd", "GitPull">>

(* The plan, from what was seen.                                           *)
GitCachePlan(exists, isGit) ==
    CASE exists /\ isGit ->
            <<"EnterParentDir", "EnterRepoDir", "GitCheckoutForceMaster", "GitCleanFd", "GitPull">>
      [] exists /\ ~isGit ->
            <<"EnterParentDir", "RemoveNonGitRepo", "GitClone",
              "EnterRepoDir", "GitCheckoutForceMaster", "GitCleanFd", "GitPull">>
      [] OTHER ->
            <<"EnterParentDir", "GitClone",
              "EnterRepoDir", "GitCheckoutForceMaster", "GitCleanFd", "GitPull">>

Idle == [pc |-> "idle", plan |-> << >>]
After(pc) == [pc |-> pc, plan |-> << >>]
Busy(w) == worker[w].pc # "idle"
At(w, step) == worker[w].pc = "plan" /\ worker[w].plan # << >> /\ Head(worker[w].plan) = step

Init ==
    /\ repo \in {"absent", "plain", "checkout"}
    /\ mutated \in BOOLEAN /\ marker \in BOOLEAN
    /\ repo = "absent" => ~mutated /\ ~marker
    /\ worker = [w \in Workers |-> Idle]
    /\ jobs = {}
    /\ sawPlain = {}
    /\ spoilt = {}

(* A thread looks at the directory and plans.                              *)
Begins(w) ==
    LET others == {v \in Workers \ {w} : Busy(v)}
    IN  /\ ~Busy(w)
        /\ worker' = [worker EXCEPT ![w] = [pc |-> "plan", plan |-> GitCachePlan(Exists, IsGit)]]
        /\ sawPlain' = IF Exists /\ ~IsGit THEN sawPlain \cup {w} ELSE sawPlain
        /\ spoilt' = IF others = {} /\ jobs = {} THEN spoilt \ {w} ELSE spoilt \cup others \cup {w}
        /\ UNCHANGED <<tree, jobs>>

(* Its plan goes on; or stops, and what called it goes on all the same.    *)
Proceeds(w) ==
    /\ worker' = [worker EXCEPT ![w] = [pc |-> "plan", plan |-> Tail(@.plan)]]
    /\ UNCHANGED <<sawPlain, spoilt>>
Stops(w) ==
    /\ worker' = [worker EXCEPT ![w] = [pc |-> "plan", plan |-> << >>]]
    /\ spoilt' = spoilt \cup {w}
    /\ UNCHANGED sawPlain

EnterParentDir(w) ==
    /\ At(w, "EnterParentDir")
    /\ Proceeds(w) \/ Stops(w)
    /\ UNCHANGED <<tree, jobs>>

(* Whatever is there by now is removed.  An error is not looked at: some   *)
(* of it may be left.                                                      *)
RemoveNonGitRepo(w) ==
    /\ At(w, "RemoveNonGitRepo")
    /\ \/ /\ repo' = "absent" /\ mutated' = FALSE /\ marker' = FALSE
          /\ Proceeds(w)
       \/ /\ repo' = (IF Exists THEN "plain" ELSE repo)
          /\ mutated' \in {mutated, FALSE} /\ marker' \in {marker, FALSE}
          /\ worker' = [worker EXCEPT ![w] = [pc |-> "plan", plan |-> Tail(@.plan)]]
          /\ spoilt' = spoilt \cup {w}
          /\ sawPlain' = sawPlain
    /\ UNCHANGED jobs

(* git clone makes .git first and fills the tree last, over what was       *)
(* written there meanwhile; one that fails takes the directory away again. *)
GitClone(w) ==
    /\ At(w, "GitClone")
    /\ \/ /\ ~Exists
          /\ repo' = "cloning"
          /\ worker' = [worker EXCEPT ![w] = [pc |-> "clone", plan |-> Tail(@.plan)]]
          /\ UNCHANGED history
       \/ Stops(w) /\ repo' = repo
    /\ UNCHANGED <<mutated, marker, jobs>>
CloneSucceeds ==
    /\ repo = "cloning" /\ repo' = "checkout"
    /\ mutated' \in {mutated, FALSE} /\ marker' = marker
CloneFails ==
    IF repo = "cloning" THEN repo' = "absent" /\ mutated' = FALSE /\ marker' = FALSE
    ELSE UNCHANGED tree
CloneEnds(w) ==
    /\ worker[w].pc = "clone"
    /\ \/ CloneSucceeds /\ worker' = [worker EXCEPT ![w].pc = "plan"] /\ UNCHANGED history
       \/ CloneFails /\ Stops(w)
    /\ UNCHANGED jobs

(* A clone goes on when the program that waited for it has ended.          *)
CloneGoesOn ==
    /\ repo = "cloning" /\ \A w \in Workers : worker[w].pc # "clone"
    /\ CloneSucceeds \/ CloneFails
    /\ UNCHANGED <<worker, jobs, history>>

EnterRepoDir(w) ==
    /\ At(w, "EnterRepoDir")
    /\ IF Exists THEN Proceeds(w) ELSE Stops(w)
    /\ UNCHANGED <<tree, jobs>>

(* A plausible mistake in GitCheckoutForceMaster; not part of the          *)
(* specification.                                                          *)
GitCheckoutMaster(w) ==
    /\ At(w, "GitCheckoutForceMaster")
    /\ Proceeds(w)
    /\ UNCHANGED <<tree, jobs>>

(* A checkout that fails skips the clean and the pull, a clean that fails  *)
(* the pull; git fails in what is no checkout.                             *)
GitCheckoutForceMaster(w) ==
    /\ At(w, "GitCheckoutForceMaster")
    /\ \/ repo = "checkout" /\ mutated' = FALSE /\ Proceeds(w)
       \/ mutated' = mutated /\ Stops(w)
    /\ UNCHANGED <<repo, marker, jobs>>
GitCleanFd(w) ==
    /\ At(w, "GitCleanFd")
    /\ \/ repo = "checkout" /\ marker' = FALSE /\ Proceeds(w)
       \/ marker' = marker /\ Stops(w)
    /\ UNCHANGED <<repo, mutated, jobs>>
GitPull(w) ==
    /\ At(w, "GitPull")
    /\ (repo = "checkout" /\ Proceeds(w)) \/ Stops(w)
    /\ UNCHANGED <<tree, jobs>>

(* The thread goes on, whether the plan was carried out or not.            *)
PlanEnds(w) ==
    /\ worker[w].pc = "plan" /\ worker[w].plan = << >>
    /\ worker' = [worker EXCEPT ![w] = IF w \in Builds THEN After("mutate") ELSE Idle]
    /\ sawPlain' = sawPlain \ {w}
    /\ UNCHANGED <<tree, jobs, spoilt>>

(* A plausible mistake in Mutate; not part of the specification.           *)
MutateUnchecked(b) ==
    /\ worker[b].pc = "mutate"
    /\ mutated' = TRUE /\ worker' = [worker EXCEPT ![b] = After("spawn")]
    /\ UNCHANGED <<repo, marker, jobs, history>>

(* A build writes its PKGBUILD twice, in whatever directory there is; what *)
(* cannot be read is taken as empty.  Where it cannot be written the build *)
(* ends.                                                                   *)
Mutate(b) ==
    /\ worker[b].pc = "mutate"
    /\ \/ /\ Exists /\ mutated' = TRUE
          /\ worker' \in {[worker EXCEPT ![b] = After("spawn")], [worker EXCEPT ![b] = Idle]}
       \/ mutated' = mutated /\ worker' = [worker EXCEPT ![b] = Idle]
    /\ UNCHANGED <<repo, marker, jobs, history>>

(* The terminal is started in the directory; or the build was cancelled.   *)
StartsJob(b) ==
    /\ worker[b].pc = "spawn"
    /\ \/ /\ Exists
          /\ \E j \in Jobs \ jobs : jobs' = jobs \cup {j}
          /\ worker' = [worker EXCEPT ![b] = After("wait")]
       \/ jobs' = jobs /\ worker' = [worker EXCEPT ![b] = Idle]
    /\ UNCHANGED <<tree, history>>

(* The terminal-helper is gone, with or without its job, and the thread    *)
(* takes the marker away if there is one; or it was killed at once.        *)
BuildEnds(b) ==
    /\ worker[b].pc = "wait"
    /\ marker' \in {marker, FALSE}
    /\ worker' = [worker EXCEPT ![b] = Idle]
    /\ UNCHANGED <<repo, mutated, jobs, history>>

(* makepkg writes a new version into the PKGBUILD; the marker is touched   *)
(* when it has succeeded.                                                  *)
JobWrites ==
    /\ jobs # {} /\ Exists
    /\ mutated' \in {mutated, TRUE} /\ marker' \in {marker, TRUE}
    /\ UNCHANGED <<repo, worker, jobs, history>>
JobEnds(j) ==
    /\ jobs' = jobs \ {j}
    /\ UNCHANGED <<tree, worker, history>>

(* The program ends, its threads with it; a git clone and the jobs go on.  *)
Restart ==
    /\ worker' = [w \in Workers |-> Idle]
    /\ sawPlain' = {} /\ spoilt' = {}
    /\ UNCHANGED <<tree, jobs>>

Next ==
    \/ Restart \/ CloneGoesOn \/ JobWrites
    \/ \E w \in Workers :
        \/ Begins(w) \/ EnterParentDir(w) \/ RemoveNonGitRepo(w) \/ GitClone(w)
        \/ CloneEnds(w) \/ EnterRepoDir(w) \/ GitCheckoutForceMaster(w)
        \/ GitCleanFd(w) \/ GitPull(w) \/ PlanEnds(w)
    \/ \E b \in Builds : Mutate(b) \/ StartsJob(b) \/ BuildEnds(b)
    \/ \E j \in jobs : JobEnds(j)

Spec == Init /\ [][Next]_vars
-------------------------------------------------------------------------------
(* Type invariant; nothing is written where there is no directory.         *)
TypeOK ==
    /\ repo \in Repos
    /\ mutated \in BOOLEAN /\ marker \in BOOLEAN
    /\ repo = "absent" => ~mutated /\ ~marker
    /\ \A w \in Workers :
        worker[w].pc \in {"idle", "plan", "clone"}
                        \cup (IF w \in Builds THEN {"mutate", "spawn", "wait"} ELSE {})
    /\ jobs \subseteq Jobs
    /\ sawPlain \subseteq {w \in Workers : Busy(w)}

(* Whatever the thread found, a plan carried out with no failed command,   *)
(* no other thread and no job of an earlier build at work leaves a clean   *)
(* checkout: a build mutates what git has, and sees no marker but its own  *)
(* job's.                                                                  *)
CompleteIsClean ==
    \A w \in Workers :
        worker[w].pc = "plan" /\ worker[w].plan = << >> /\ w \notin spoilt =>
            repo = "checkout" /\ ~mutated /\ ~marker

(* A checkout is never lost, to whatever failure, restart or interleaving, *)
(* but to a thread that is still carrying out what it planned when there   *)
(* was no .git.                                                            *)
CheckoutSurvives ==
    [][repo = "checkout" /\ sawPlain = {} => repo' = "checkout"]_vars
===============================================================================
