----------------------------- MODULE Courts_proofs -----------------------------
(***************************************************************************)
(* Proofs about Courts, for any cases, corpora and kernel lists: that      *)
(* every variable is of its type; whose files the directories hold, and    *)
(* what a record of a pass and a release stand for; that the courts of the *)
(* corpora raise no false alarm; that a run in the machines that passes    *)
(* has seen the two sides agree; and, for that, that two windows that are  *)
(* read as the same kernel list show the same one.                         *)
(***************************************************************************)
EXTENDS Courts, FiniteSetTheorems, TLAPS

(* The runner by its fields, so that an EXCEPT finds the one it changes; a *)
(* witness that runs is at one of the files it leaves.                     *)
RunnerShape ==
    /\ runner = [pc |-> runner.pc, side |-> runner.side, left |-> runner.left,
                 residuals |-> runner.residuals, how |-> runner.how]
    /\ runner.side \in Sides /\ runner.pc \in PCs
    /\ runner.pc = "witness" => runner.left \in DOMAIN CorpusFiles

(* The runner at rest, by its fields.                                      *)
LEMMA IdleShape ==
    /\ Idle.pc = "idle" /\ Idle.side = "oracle" /\ Idle.left = 0
    /\ Idle.residuals = {} /\ Idle.how = ""
    /\ Idle = [pc |-> Idle.pc, side |-> Idle.side, left |-> Idle.left,
               residuals |-> Idle.residuals, how |-> Idle.how]
  BY DEF Idle

(* A witness leaves one file at least, and after any but the last another. *)
LEMMA CorpusFilesAre ==
    /\ 1 \in DOMAIN CorpusFiles
    /\ \A n \in DOMAIN CorpusFiles : n # Len(CorpusFiles) => n + 1 \in DOMAIN CorpusFiles
  <1>1. Len(CorpusFiles) \in Nat \ {0} /\ DOMAIN CorpusFiles = 1..Len(CorpusFiles)
    BY CorpusFilesAssumption
  <1> QED
    BY <1>1

LEMMA WitnessFileIs ==
    ASSUME RunnerShape, runner.pc = "witness"
    PROVE  WitnessFile \in Range(CorpusFiles)
  BY DEF RunnerShape, WitnessFile, Range

LEMMA RunnerInit == Init => RunnerShape
  BY IdleShape DEF Init, RunnerShape, Sides, PCs

LEMMA RunnerNext ==
    ASSUME RunnerShape, [Next]_vars
    PROVE  RunnerShape'
  <1> USE IdleShape DEF RunnerShape, PCs
  <1>1. CASE Builds
    BY <1>1 DEF Builds
  <1>2. CASE VmStarts
    BY <1>2 DEF VmStarts, Idle, Sides
  <1>3. CASE EmptiesOut
    BY <1>3 DEF EmptiesOut
  <1>4. CASE ScriptRuns
    BY <1>4 DEF ScriptRuns
  <1>5. CASE MachineFails
    BY <1>5 DEF MachineFails, Ends, Sides
  <1>6. CASE RebootsAndChecks
    BY <1>6 DEF RebootsAndChecks
  <1>7. CASE CopiesOut
    BY <1>7 DEF CopiesOut, Sides
  <1>8. CASE RenamesResidual
    BY <1>8 DEF RenamesResidual
  <1>9. CASE Compares
    <2>1. runner' = Idle
          \/ runner' = [runner EXCEPT !.pc = "ledger",
                                      !.residuals = CompareVm(dirs, case.modes, case.model).residuals]
      BY <1>9 DEF Compares, Ends
    <2> QED BY <2>1 DEF Sides
  <1>10. CASE WitnessStarts
    <2>1. runner' = [Idle EXCEPT !.pc = "witness", !.left = 1]
      BY <1>10 DEF WitnessStarts
    <2>2. 1 \in DOMAIN CorpusFiles
      BY CorpusFilesAre
    <2>3. runner'.left \in DOMAIN CorpusFiles
      BY <2>1, <2>2
    <2> QED
      BY <2>1, <2>3 DEF Sides
  <1>18. CASE StaleMachineWrites
    BY <1>18 DEF StaleMachineWrites
  <1>19. CASE MachineStarts
    BY <1>19 DEF MachineStarts
  <1>20. CASE WitnessWrites
    <2>1. runner.pc = "witness" /\ runner.left \in DOMAIN CorpusFiles
      BY <1>20 DEF WitnessWrites
    <2>2. CASE runner.side = "oracle"
      BY <1>20, <2>1, <2>2 DEF WitnessWrites, Sides
    <2>3. CASE runner' = Idle
      BY <2>3 DEF Sides
    <2>4. CASE runner.side # "oracle" /\ runner' # Idle
      <3>1. runner' = [runner EXCEPT !.side = "oracle", !.left = @ + 1] /\ runner.left # Len(CorpusFiles)
        BY <1>20, <2>4 DEF WitnessWrites
      <3>2. runner.left + 1 \in DOMAIN CorpusFiles
        BY <2>1, <3>1, CorpusFilesAre
      <3>3. runner'.left \in DOMAIN CorpusFiles
        BY <3>1, <3>2
      <3> QED
        BY <2>1, <3>1, <3>3 DEF Sides
    <2> QED
      BY <2>2, <2>3, <2>4
  <1>11. CASE PlainRun
    BY <1>11 DEF PlainRun, Idle, Sides
  <1>12. CASE WritesLedger
    BY <1>12 DEF WritesLedger, Sides
  <1>13. CASE WritesEvidence
    BY <1>13 DEF WritesEvidence, Ends, Sides
  <1>14. CASE StartsRelease
    BY <1>14 DEF StartsRelease, Idle, Sides
  <1>15. CASE WritesReleaseFile
    BY <1>15 DEF WritesReleaseFile, Sides
  <1>16. CASE Killed
    BY <1>16 DEF Killed, Ends, Sides
  <1>17. CASE UNCHANGED vars
    BY <1>17 DEF vars
  <1> QED
    BY <1>1, <1>2, <1>3, <1>4, <1>5, <1>6, <1>7, <1>8, <1>9, <1>10, <1>11, <1>12, <1>13,
       <1>14, <1>15, <1>16, <1>17, <1>18, <1>19, <1>20 DEF Next

(* The runner is always a record of its five fields, at one of the steps   *)
(* of vm_court.rs, on one of the two sides.                                *)
THEOREM RunnerAlwaysShaped == Spec => []RunnerShape
  <1>1. RunnerShape /\ [Next]_vars => RunnerShape'
    BY RunnerNext
  <1> QED
    BY RunnerInit, <1>1, PTL DEF Spec

(***************************************************************************)
(* Whose files the directories hold.  While a side's machine runs, the     *)
(* share holds what that machine wrote, unless the side was once started   *)
(* beside a machine that outlived its command or on files that could not   *)
(* be removed; what is in the share of a run that failed is gone before it *)
(* is copied.                                                              *)
(***************************************************************************)
OwnShare ==
    /\ (runner.pc = "cleanup" /\ runner.side \notin mixed) => DOMAIN share = {} /\ DOMAIN stale = {}
    /\ (runner.pc = "script" /\ runner.side \notin mixed) => DOMAIN share = {}
    /\ (runner.pc = "reboot" /\ runner.side \notin mixed) => DOMAIN share \subseteq wrote[runner.side]
OwnCorpus == runner.pc = "witness" => \A side \in Sides : Range(CorpusFiles) \subseteq wrote[side]
OwnInv ==
    /\ DOMAIN wrote = Sides /\ DOMAIN dirs = Sides
    /\ runner.pc = "rename" => runner.side = "candidate"
    /\ OwnShare
    /\ OwnCorpus
    /\ OwnWitness

LEMMA OwnInit == Init => OwnInv
  <1> SUFFICES ASSUME Init PROVE OwnInv
    OBVIOUS
  <1>1. runner.pc = "idle"
    BY IdleShape DEF Init
  <1>2. /\ DOMAIN wrote = Sides /\ DOMAIN dirs = Sides
        /\ \A side \in Sides : DOMAIN dirs[side] = {}
    BY DEF Init, NoFiles
  <1> QED
    BY <1>1, <1>2 DEF OwnInv, OwnShare, OwnCorpus, OwnWitness

LEMMA OwnWhenIdle ==
    ASSUME OwnInv, runner'.pc \notin {"cleanup", "script", "reboot", "rename", "witness"},
           UNCHANGED <<dirs, wrote, mixed>>
    PROVE  OwnInv'
  BY DEF OwnInv, OwnShare, OwnCorpus, OwnWitness, Own

(* What is written into the share by the side whose machine runs.          *)
LEMMA OwnWrites ==
    ASSUME NEW files, OwnInv, RunnerShape, runner.pc \in {"script", "reboot"},
           runner'.pc = "reboot", runner'.side = runner.side,
           share' = files @@ share, UNCHANGED <<dirs, mixed>>,
           wrote' = [wrote EXCEPT ![runner.side] = @ \cup DOMAIN files]
    PROVE  OwnInv'
  <1>1. DOMAIN share' = DOMAIN files \cup DOMAIN share
    BY DEF @@
  <1>2. wrote'[runner.side] = wrote[runner.side] \cup DOMAIN files
    BY DEF OwnInv, RunnerShape
  <1>3. \A side \in Sides : wrote[side] \subseteq wrote'[side]
    BY DEF OwnInv
  <1>4. runner.side \notin mixed => DOMAIN share \subseteq wrote[runner.side]
    BY DEF OwnInv, OwnShare
  <1>5. OwnShare'
    BY <1>1, <1>2, <1>4 DEF OwnShare
  <1>6. OwnWitness'
    BY <1>3 DEF OwnWitness, OwnInv, Own
  <1> QED
    BY <1>5, <1>6 DEF OwnInv, OwnCorpus

(* What is copied, whole or cut short, from the share to the directory.    *)
LEMMA OwnCopies ==
    ASSUME NEW files, OwnInv, RunnerShape, runner.pc = "reboot",
           DOMAIN files \subseteq DOMAIN share,
           dirs' = [dirs EXCEPT ![runner.side] = files @@ @],
           runner'.pc \notin {"cleanup", "script", "reboot", "witness"},
           runner'.pc = "rename" => runner'.side = "candidate", UNCHANGED <<wrote, mixed>>
    PROVE  OwnInv'
  <1>1. DOMAIN (files @@ dirs[runner.side]) = DOMAIN files \cup DOMAIN dirs[runner.side]
    BY DEF @@
  <1>2. dirs'[runner.side] = files @@ dirs[runner.side]
        /\ \A side \in Sides \ {runner.side} : dirs'[side] = dirs[side]
    BY DEF OwnInv, RunnerShape
  <1>3. runner.side \notin mixed => DOMAIN files \subseteq wrote[runner.side]
    BY DEF OwnInv, OwnShare
  <1>4. OwnWitness'
    BY <1>1, <1>2, <1>3 DEF OwnWitness, OwnInv, Own
  <1> QED
    BY <1>4 DEF OwnInv, OwnShare, OwnCorpus

(* What a witness writes, whole or cut short.                              *)
LEMMA OwnWitnesses ==
    ASSUME OwnInv, RunnerShape, runner.pc = "witness", NEW file, file \in Range(CorpusFiles),
           NEW content, dirs' = [dirs EXCEPT ![runner.side] = file :> content @@ @],
           runner'.pc \in {"idle", "witness"}, UNCHANGED <<wrote, mixed>>
    PROVE  OwnInv'
  <1> DEFINE laid == file :> content @@ dirs[runner.side]
  <1>1. DOMAIN laid = {file} \cup DOMAIN dirs[runner.side]
    BY DEF @@, :>
  <1>2. dirs' = [dirs EXCEPT ![runner.side] = laid]
    OBVIOUS
  <1> HIDE DEF laid
  <1>3. file \in wrote[runner.side]
    BY DEF OwnInv, OwnCorpus, RunnerShape
  <1>4. OwnWitness'
    BY <1>1, <1>2, <1>3 DEF OwnWitness, OwnInv, Own, RunnerShape
  <1> QED
    BY <1>2, <1>4 DEF OwnInv, OwnShare, OwnCorpus

LEMMA OwnNext ==
    ASSUME OwnInv, RunnerShape, [Next]_vars
    PROVE  OwnInv'
  <1> USE IdleShape DEF RunnerShape
  <1>1. CASE Builds
    BY <1>1, OwnWhenIdle DEF Builds, history
  <1>2. CASE VmStarts
    BY <1>2, OwnWhenIdle DEF VmStarts, history
  <1>3. CASE EmptiesOut
    <2>1. /\ runner'.pc = "cleanup" /\ runner'.side = runner.side
          /\ dirs' = dirs /\ wrote' = wrote /\ stale' = stale
      BY <1>3 DEF EmptiesOut
    <2>2. \/ share' = NoFiles /\ stale = NoFiles /\ mixed' = mixed
          \/ mixed' = mixed \cup {runner.side}
      BY <1>3 DEF EmptiesOut
    <2>3. DOMAIN NoFiles = {}
      BY DEF NoFiles
    <2> QED
      BY <2>1, <2>2, <2>3 DEF OwnInv, OwnShare, OwnCorpus, OwnWitness, Own
  <1>18. CASE StaleMachineWrites
    <2>1. /\ runner' = runner /\ dirs' = dirs /\ wrote' = wrote /\ stale' = stale /\ mixed' = mixed
          /\ runner.pc = "cleanup" /\ DOMAIN stale # {}
      BY <1>18 DEF StaleMachineWrites, history
    <2> QED
      BY <2>1 DEF OwnInv, OwnShare, OwnCorpus, OwnWitness, Own
  <1>19. CASE MachineStarts
    <2>1. /\ runner'.pc = "script" /\ runner'.side = runner.side /\ runner.pc = "cleanup"
          /\ dirs' = dirs /\ wrote' = wrote /\ share' = share /\ mixed' = mixed
      BY <1>19 DEF MachineStarts, history
    <2> QED
      BY <2>1 DEF OwnInv, OwnShare, OwnCorpus, OwnWitness, Own
  <1>4. CASE ScriptRuns
    <2>1. PICK view \in Views(runner.side) :
             LET files == Script(runner.side, view)
             IN  /\ wrote' = [wrote EXCEPT ![runner.side] = @ \cup DOMAIN files]
                 /\ share' = files @@ share
                 /\ runner' = [runner EXCEPT !.pc = "reboot", !.left = Reboots(case.modes)]
      BY <1>4 DEF ScriptRuns
    <2> DEFINE files == Script(runner.side, view)
    <2>2. runner'.pc = "reboot" /\ runner'.side = runner.side
      BY <2>1
    <2>3. runner.pc = "script" /\ dirs' = dirs /\ mixed' = mixed
      BY <1>4 DEF ScriptRuns
    <2> HIDE DEF files
    <2>4. wrote' = [wrote EXCEPT ![runner.side] = @ \cup DOMAIN files] /\ share' = files @@ share
      BY <2>1 DEF files
    <2> QED
      BY <2>2, <2>3, <2>4, OwnWrites
  <1>5. CASE MachineFails
    BY <1>5, OwnWhenIdle DEF MachineFails, Ends
  <1>6. CASE RebootsAndChecks
    <2>1. PICK files :
             /\ wrote' = [wrote EXCEPT ![runner.side] = @ \cup DOMAIN files]
             /\ share' = files @@ share
      BY <1>6 DEF RebootsAndChecks
    <2>2. runner.pc = "reboot" /\ dirs' = dirs /\ mixed' = mixed
          /\ runner' = [runner EXCEPT !.left = @ - 1]
      BY <1>6 DEF RebootsAndChecks
    <2> QED
      BY <2>1, <2>2, OwnWrites
  <1>7. CASE CopiesOut
    <2>1. /\ dirs' = [dirs EXCEPT ![runner.side] = share @@ @] /\ runner.pc = "reboot"
          /\ wrote' = wrote /\ mixed' = mixed
      BY <1>7 DEF CopiesOut, history
    <2>2. /\ runner'.pc \notin {"cleanup", "script", "reboot", "witness"}
          /\ runner'.pc = "rename" => runner'.side = "candidate"
      BY <1>7 DEF CopiesOut, Sides
    <2> QED
      BY <2>1, <2>2, OwnCopies
  <1>8. CASE RenamesResidual
    <2>1. runner.side = "candidate" /\ wrote' = wrote /\ mixed' = mixed /\ runner'.pc = "compare"
      BY <1>8 DEF RenamesResidual, OwnInv, history
    <2>2. /\ DOMAIN dirs' = Sides /\ dirs'["oracle"] = dirs["oracle"]
          /\ DOMAIN dirs'["candidate"] \subseteq DOMAIN dirs["candidate"] \cup {"candidate-residual.json"}
      BY <1>8 DEF RenamesResidual, OwnInv, Sides
    <2>3. OwnWitness'
      BY <2>1, <2>2 DEF OwnInv, OwnWitness, Own, Sides
    <2> QED
      BY <2>1, <2>2, <2>3 DEF OwnInv, OwnShare, OwnCorpus
  <1>9. CASE Compares
    <2>1. runner' = Idle
          \/ runner' = [runner EXCEPT !.pc = "ledger",
                                      !.residuals = CompareVm(dirs, case.modes, case.model).residuals]
      BY <1>9 DEF Compares, Ends
    <2>2. runner'.pc \in {"idle", "ledger"} /\ dirs' = dirs /\ wrote' = wrote /\ mixed' = mixed
      BY <1>9, <2>1 DEF Compares
    <2> QED
      BY <2>2, OwnWhenIdle
  <1>10. CASE WitnessStarts
    <2>1. /\ wrote' = [side \in Sides |-> wrote[side] \cup Range(CorpusFiles)]
          /\ dirs' = dirs /\ mixed' = mixed /\ runner'.pc = "witness"
      BY <1>10, IdleShape DEF WitnessStarts
    <2>2. DOMAIN wrote' = Sides /\ \A side \in Sides : wrote'[side] = wrote[side] \cup Range(CorpusFiles)
      BY <2>1
    <2> QED
      BY <2>1, <2>2 DEF OwnInv, OwnShare, OwnCorpus, OwnWitness, Own
  <1>20. CASE WitnessWrites
    <2> DEFINE content == IF runner.side = "oracle" THEN Reference(case.corpus) ELSE Model(case.corpus)
    <2>1. /\ dirs' = [dirs EXCEPT ![runner.side] = WitnessFile :> content[WitnessFile] @@ @]
          /\ runner.pc = "witness" /\ wrote' = wrote /\ mixed' = mixed
      BY <1>20 DEF WitnessWrites, history
    <2>2. runner'.pc \in {"idle", "witness"}
      BY <1>20 DEF WitnessWrites
    <2>3. WitnessFile \in Range(CorpusFiles)
      BY <2>1, WitnessFileIs
    <2> QED
      BY <2>1, <2>2, <2>3, OwnWitnesses
  <1>11. CASE PlainRun
    <2>1. runner'.pc \in {"evidence", "ledger"} /\ dirs' = dirs /\ wrote' = wrote /\ mixed' = mixed
      BY <1>11 DEF PlainRun, history
    <2> QED
      BY <2>1, OwnWhenIdle
  <1>12. CASE WritesLedger
    BY <1>12, OwnWhenIdle DEF WritesLedger, history
  <1>13. CASE WritesEvidence
    BY <1>13, OwnWhenIdle DEF WritesEvidence, Ends
  <1>14. CASE StartsRelease
    BY <1>14, OwnWhenIdle DEF StartsRelease, history
  <1>15. CASE WritesReleaseFile
    BY <1>15, OwnWhenIdle DEF WritesReleaseFile, history
  <1>16. CASE Killed
    <2>1. runner'.pc = "idle" /\ wrote' = wrote /\ mixed' = mixed
      BY <1>16 DEF Killed, Ends
    <2>2. CASE UNCHANGED dirs
      BY <2>1, <2>2, OwnWhenIdle
    <2>4. CASE runner.pc = "witness" /\ dirs' = [dirs EXCEPT ![runner.side] = WitnessFile :> Cut @@ @]
      BY <2>1, <2>4, WitnessFileIs, OwnWitnesses
    <2>3. ASSUME dirs' # dirs, runner.pc # "witness" PROVE OwnInv'
      <3>. PICK f \in DOMAIN share :
               \E copied \in {NoFiles, Restrict(share, DOMAIN share \ {f})} :
                   dirs' = [dirs EXCEPT ![runner.side] = f :> Cut @@ copied @@ @]
        BY <1>16, <2>3 DEF Killed, CutsShort
      <3>1. PICK copied \in {NoFiles, Restrict(share, DOMAIN share \ {f})} :
               dirs' = [dirs EXCEPT ![runner.side] = f :> Cut @@ copied @@ @]
        OBVIOUS
      <3>2. runner.pc = "reboot"
        BY <1>16, <2>3 DEF Killed, CutsShort
      <3>3. DOMAIN (f :> Cut @@ copied) \subseteq DOMAIN share
        <4>1. DOMAIN copied \subseteq DOMAIN share
          BY DEF NoFiles, Restrict
        <4> QED
          BY <4>1 DEF @@, :>
      <3>4. (f :> Cut @@ copied) @@ dirs[runner.side] = f :> Cut @@ copied @@ dirs[runner.side]
        OBVIOUS
      <3> DEFINE files == f :> Cut @@ copied
      <3>5. dirs' = [dirs EXCEPT ![runner.side] = files @@ @]
        BY <3>1
      <3> HIDE DEF files
      <3>6. DOMAIN files \subseteq DOMAIN share
        BY <3>3 DEF files
      <3> QED
        BY <2>1, <3>2, <3>5, <3>6, OwnCopies
    <2> QED
      BY <1>16, <2>2, <2>3, <2>4 DEF Killed, CutsShort
  <1>17. CASE UNCHANGED vars
    BY <1>17 DEF vars, history, OwnInv, OwnShare, OwnCorpus, OwnWitness, Own
  <1> QED
    BY <1>1, <1>2, <1>3, <1>4, <1>5, <1>6, <1>7, <1>8, <1>9, <1>10, <1>11, <1>12, <1>13,
       <1>14, <1>15, <1>16, <1>17, <1>18, <1>19, <1>20 DEF Next

(* As long as a side was never started beside a machine that outlived its  *)
(* command, nor on files that could not be removed, nothing in its         *)
(* directory came from the other side's machine or from another court,     *)
(* whatever failed or was killed while the share was written or copied     *)
(* (run_side in main.rs).                                                  *)
THEOREM DirectoriesAreTheirOwn == Spec => []OwnWitness
  <1>1. OwnInv /\ RunnerShape /\ [Next]_vars => OwnInv'
    BY OwnNext
  <1>2. OwnInv => OwnWitness
    BY DEF OwnInv
  <1> QED
    BY OwnInit, <1>1, <1>2, RunnerAlwaysShaped, PTL DEF Spec

(***************************************************************************)
(* What evidence of a pass stands for: some contents of the directories    *)
(* that agreed.  Only a record that verifies, with no file beside those it *)
(* names, says that these contents are the ones that are there.            *)
(***************************************************************************)
IsDirs(d) ==
    /\ DOMAIN d = Sides /\ d = [side \in Sides |-> d[side]]
    /\ \A side \in Sides : d[side] = [f \in DOMAIN d[side] |-> d[side][f]]
FindsNothingIn(d, how) ==
    IF how = "plain" THEN CaseCompare(d, case.ignore).residuals = {}
    ELSE CompareVm(d, case.modes, case.model) = Found({})

(* Until it has recorded them, the runner carries the residuals of what is *)
(* in the directories.                                                     *)
RunnerCarries ==
    /\ runner.pc \in {"start", "cleanup", "script", "reboot", "rename", "compare"} => runner.how = "vm"
    /\ runner.pc \in {"ledger", "evidence"} =>
          IF runner.how = "plain" THEN runner.residuals = CaseCompare(dirs, case.ignore).residuals
          ELSE CompareVm(dirs, case.modes, case.model) = Found(runner.residuals)
PassWasFound ==
    (IsWhole(evidence) /\ evidence.result = "pass") =>
        \E d : /\ IsDirs(d) /\ evidence.artifacts = SideArtifacts(d)
               /\ FindsNothingIn(d, evidence.how)
VouchInv == IsDirs(dirs) /\ RunnerCarries /\ PassWasFound

(* A comparison that could be made is the residuals it found.              *)
LEMMA ComparisonIsErrorOrFound ==
    \A d, modes, model :
        LET outcome == CompareVm(d, modes, model)
        IN  outcome.ok => outcome = Found(outcome.residuals)
  <1> TAKE d, modes, model
  <1>1. \E a, b : CompareVm(d, modes, model) = Both(a, b)
    BY DEF CompareVm
  <1>2. \A a, b : Both(a, b).ok => Both(a, b) = Found(Both(a, b).residuals)
    BY DEF Both, Found, Error
  <1> QED
    BY <1>1, <1>2

(* The artifacts of an evidence record are the files of both directories.  *)
LEMMA SideArtifactsAre ==
    ASSUME NEW d
    PROVE  /\ DOMAIN SideArtifacts(d) = {<<"oracle", f>> : f \in DOMAIN d["oracle"]}
                                        \cup {<<"candidate", f>> : f \in DOMAIN d["candidate"]}
           /\ \A side \in Sides : \A f \in DOMAIN d[side] :
                 /\ <<side, f>> \in DOMAIN SideArtifacts(d)
                 /\ SideArtifacts(d)[<<side, f>>] = d[side][f]
  <1> DEFINE mine == AddDirectory(NoArtifacts, d, "oracle")
  <1>1. /\ DOMAIN mine = {<<"oracle", f>> : f \in DOMAIN d["oracle"]}
        /\ \A f \in DOMAIN d["oracle"] : mine[<<"oracle", f>>] = d["oracle"][f]
    BY DEF AddDirectory, NoArtifacts
  <1>2. SideArtifacts(d) = AddDirectory(mine, d, "candidate")
    BY DEF SideArtifacts
  <1> HIDE DEF mine
  <1>3. /\ DOMAIN SideArtifacts(d) = DOMAIN mine \cup {<<"candidate", f>> : f \in DOMAIN d["candidate"]}
        /\ \A p \in DOMAIN SideArtifacts(d) :
              SideArtifacts(d)[p] = IF p[1] = "candidate" THEN d["candidate"][p[2]] ELSE mine[p]
    BY <1>2 DEF AddDirectory
  <1>4. \A f \in DOMAIN d["oracle"] :
           <<"oracle", f>> \in DOMAIN SideArtifacts(d) /\ SideArtifacts(d)[<<"oracle", f>>] = d["oracle"][f]
    BY <1>1, <1>3
  <1>5. \A f \in DOMAIN d["candidate"] :
           <<"candidate", f>> \in DOMAIN SideArtifacts(d) /\ SideArtifacts(d)[<<"candidate", f>>] = d["candidate"][f]
    BY <1>3
  <1> QED
    BY <1>1, <1>3, <1>4, <1>5 DEF Sides

(* Evidence that verifies against directories with nothing beside what it  *)
(* names was recorded of directories that held the same.                   *)
LEMMA VerifiedIsSame ==
    ASSUME NEW d, NEW now, IsDirs(d), IsDirs(now),
           \A p \in DOMAIN SideArtifacts(d) : Has(now, p[1], p[2]) /\ now[p[1]][p[2]] = SideArtifacts(d)[p],
           \A side \in Sides : \A f \in DOMAIN now[side] : <<side, f>> \in DOMAIN SideArtifacts(d)
    PROVE  now = d
  <1>1. \A side \in Sides : \A f \in DOMAIN d[side] : f \in DOMAIN now[side] /\ now[side][f] = d[side][f]
    <2> TAKE side \in Sides
    <2> TAKE f \in DOMAIN d[side]
    <2>1. <<side, f>> \in DOMAIN SideArtifacts(d) /\ SideArtifacts(d)[<<side, f>>] = d[side][f]
      BY SideArtifactsAre
    <2>2. Has(now, side, f) /\ now[side][f] = d[side][f]
      BY <2>1
    <2> QED
      BY <2>2 DEF Has
  <1>2. \A side \in Sides : \A f \in DOMAIN now[side] : f \in DOMAIN d[side]
    <2> TAKE side \in Sides
    <2> TAKE f \in DOMAIN now[side]
    <2>1. <<side, f>> \in {<<"oracle", g>> : g \in DOMAIN d["oracle"]}
                         \cup {<<"candidate", g>> : g \in DOMAIN d["candidate"]}
      BY SideArtifactsAre
    <2> QED
      BY <2>1
  <1>3. \A side \in Sides : now[side] = d[side]
    <2> TAKE side \in Sides
    <2>1. DOMAIN now[side] = DOMAIN d[side]
      BY <1>1, <1>2
    <2> QED
      BY <1>1, <2>1 DEF IsDirs
  <1> QED
    BY <1>3 DEF IsDirs

(* The invariant is enough for the property.                               *)
LEMMA VouchedPass ==
    ASSUME VouchInv
    PROVE  VouchedPassAgrees
  <1> SUFFICES ASSUME IsWhole(evidence), evidence.result = "pass",
                      EvidenceVerify(evidence, dirs) = {}, Vouched
               PROVE  FindsNothing(evidence.how)
    BY DEF VouchedPassAgrees
  <1>1. PICK d : IsDirs(d) /\ evidence.artifacts = SideArtifacts(d) /\ FindsNothingIn(d, evidence.how)
    BY DEF VouchInv, PassWasFound
  <1>2. \A p \in DOMAIN SideArtifacts(d) : Has(dirs, p[1], p[2]) /\ dirs[p[1]][p[2]] = SideArtifacts(d)[p]
    BY <1>1 DEF EvidenceVerify
  <1>3. \A side \in Sides : \A f \in DOMAIN dirs[side] : <<side, f>> \in DOMAIN SideArtifacts(d)
    BY <1>1 DEF Vouched
  <1>4. dirs = d
    BY <1>1, <1>2, <1>3, VerifiedIsSame DEF VouchInv
  <1> QED
    BY <1>1, <1>4 DEF FindsNothingIn, FindsNothing

LEMMA VouchInit == Init => VouchInv
  <1> SUFFICES ASSUME Init PROVE VouchInv
    OBVIOUS
  <1>1. RunnerCarries
    BY IdleShape DEF Init, RunnerCarries
  <1>2. PassWasFound
    BY DEF Init, PassWasFound, IsWhole
  <1>3. IsDirs(dirs)
    BY DEF Init, IsDirs, NoFiles
  <1> QED
    BY <1>1, <1>2, <1>3 DEF VouchInv

(* A step that neither compares nor records.                               *)
LEMMA VouchKept ==
    ASSUME VouchInv, UNCHANGED <<case, evidence>>, IsDirs(dirs'),
           \/ runner'.pc \notin {"start", "cleanup", "script", "reboot", "rename", "compare", "ledger", "evidence"}
           \/ /\ runner'.pc \in {"start", "cleanup", "script", "reboot", "rename", "compare"}
              /\ runner'.how = "vm"
    PROVE  VouchInv'
  <1>1. RunnerCarries'
    BY DEF RunnerCarries
  <1>2. PassWasFound'
    BY DEF VouchInv, PassWasFound, FindsNothingIn
  <1> QED
    BY <1>1, <1>2 DEF VouchInv, IsDirs

(* A directory over which files are laid is one still.                     *)
LEMMA LaidOver ==
    ASSUME IsDirs(dirs), NEW side \in Sides, NEW files,
           dirs' = [dirs EXCEPT ![side] = files @@ @]
    PROVE  IsDirs(dirs')
  <1> DEFINE laid == files @@ dirs[side]
  <1>1. laid = [f \in DOMAIN laid |-> laid[f]]
    BY DEF @@
  <1> HIDE DEF laid
  <1>2. dirs' = [dirs EXCEPT ![side] = laid]
    BY DEF laid
  <1> QED
    BY <1>1, <1>2 DEF IsDirs

LEMMA VouchNext ==
    ASSUME VouchInv, RunnerShape, [Next]_vars
    PROVE  VouchInv'
  <1> USE IdleShape DEF RunnerShape
  <1> IsDirs(dirs)
    BY DEF VouchInv
  <1>0. runner.pc \in {"start", "cleanup", "script", "reboot", "rename", "compare"} => runner.how = "vm"
    BY DEF VouchInv, RunnerCarries
  <1>1. CASE Builds
    <2>1. UNCHANGED <<case, evidence, dirs, runner>> /\ runner.pc = "idle"
      BY <1>1 DEF Builds, records
    <2> QED
      BY <2>1, VouchKept
  <1>2. CASE VmStarts
    <2>1. /\ UNCHANGED <<case, evidence, dirs>>
          /\ runner'.pc = "idle" \/ (runner'.pc = "start" /\ runner'.how = "vm")
      BY <1>2 DEF VmStarts, records, Idle
    <2> QED
      BY <2>1, VouchKept
  <1>3. CASE EmptiesOut
    <2>1. UNCHANGED <<case, evidence, dirs>> /\ runner'.pc = "cleanup" /\ runner'.how = "vm"
      BY <1>0, <1>3 DEF EmptiesOut, records
    <2> QED
      BY <2>1, VouchKept
  <1>18. CASE StaleMachineWrites
    <2>1. UNCHANGED <<case, evidence, dirs>> /\ runner'.pc = "cleanup" /\ runner'.how = "vm"
      BY <1>0, <1>18 DEF StaleMachineWrites, records
    <2> QED
      BY <2>1, VouchKept
  <1>19. CASE MachineStarts
    <2>1. UNCHANGED <<case, evidence, dirs>> /\ runner'.pc = "script" /\ runner'.how = "vm"
      BY <1>0, <1>19 DEF MachineStarts, records
    <2> QED
      BY <2>1, VouchKept
  <1>4. CASE ScriptRuns
    <2>1. UNCHANGED <<case, evidence, dirs>> /\ runner'.pc = "reboot" /\ runner'.how = "vm"
      BY <1>0, <1>4 DEF ScriptRuns, records
    <2> QED
      BY <2>1, VouchKept
  <1>5. CASE MachineFails
    <2>1. UNCHANGED <<case, evidence, dirs>> /\ runner'.pc = "idle"
      BY <1>5 DEF MachineFails, Ends, records
    <2> QED
      BY <2>1, VouchKept
  <1>6. CASE RebootsAndChecks
    <2>1. UNCHANGED <<case, evidence, dirs>> /\ runner'.pc = "reboot" /\ runner'.how = "vm"
      BY <1>0, <1>6 DEF RebootsAndChecks, records
    <2> QED
      BY <2>1, VouchKept
  <1>7. CASE CopiesOut
    <2>1. /\ UNCHANGED <<case, evidence>> /\ runner'.how = "vm"
          /\ runner'.pc \in {"start", "rename"}
      BY <1>0, <1>7 DEF CopiesOut, records
    <2>2. dirs' = [dirs EXCEPT ![runner.side] = share @@ @]
      BY <1>7 DEF CopiesOut
    <2>3. IsDirs(dirs')
      BY <2>2, LaidOver
    <2> QED
      BY <2>1, <2>3, VouchKept
  <1>8. CASE RenamesResidual
    <2>1. UNCHANGED <<case, evidence>> /\ runner'.how = "vm" /\ runner'.pc = "compare"
      BY <1>0, <1>8 DEF RenamesResidual, records
    <2>2. \/ dirs' = dirs
          \/ \E renamed : /\ dirs' = [dirs EXCEPT !["candidate"] = renamed]
                          /\ renamed = [f \in DOMAIN renamed |-> renamed[f]]
      <3> DEFINE mine == dirs.candidate
                 renamed == [f \in (DOMAIN mine \cup {"candidate-residual.json"}) \ {"residual.json"} |->
                                IF f = "candidate-residual.json" THEN mine["residual.json"] ELSE mine[f]]
      <3>1. renamed = [f \in DOMAIN renamed |-> renamed[f]]
        OBVIOUS
      <3>2. dirs' = dirs \/ dirs' = [dirs EXCEPT !["candidate"] = renamed]
        BY <1>8 DEF RenamesResidual
      <3> QED
        BY <3>1, <3>2
    <2>3. IsDirs(dirs')
      BY <2>2 DEF IsDirs
    <2> QED
      BY <2>1, <2>3, VouchKept
  <1>9. CASE Compares
    <2> DEFINE outcome == CompareVm(dirs, case.modes, case.model)
    <2>1. UNCHANGED <<case, evidence, dirs>> /\ runner.how = "vm"
      BY <1>0, <1>9 DEF Compares, records
    <2>2. CASE outcome.ok
      <3>1. runner' = [runner EXCEPT !.pc = "ledger", !.residuals = outcome.residuals]
        BY <1>9, <2>2 DEF Compares
      <3>2. outcome = Found(outcome.residuals)
        BY <2>2, ComparisonIsErrorOrFound
      <3> HIDE DEF outcome
      <3>3. runner'.pc = "ledger" /\ runner'.how = "vm" /\ runner'.residuals = outcome.residuals
        BY <2>1, <3>1
      <3>4. RunnerCarries'
        BY <2>1, <3>2, <3>3 DEF RunnerCarries, outcome
      <3>5. PassWasFound'
        BY <2>1 DEF VouchInv, PassWasFound, FindsNothingIn
      <3> QED
        BY <2>1, <3>4, <3>5 DEF VouchInv, IsDirs
    <2>3. CASE ~outcome.ok
      <3>1. runner'.pc = "idle"
        BY <1>9, <2>3 DEF Compares, Ends
      <3> QED
        BY <2>1, <3>1, VouchKept
    <2> QED
      BY <2>2, <2>3
  <1>10. CASE WitnessStarts
    <2>1. UNCHANGED <<case, evidence, dirs>> /\ runner'.pc = "witness"
      BY <1>10 DEF WitnessStarts, records, Idle
    <2> QED
      BY <2>1, VouchKept
  <1>20. CASE WitnessWrites
    <2>1. UNCHANGED <<case, evidence>> /\ runner'.pc \in {"witness", "idle"}
      BY <1>20 DEF WitnessWrites, records
    <2>2. \E files : dirs' = [dirs EXCEPT ![runner.side] = files @@ @]
      BY <1>20 DEF WitnessWrites
    <2>3. IsDirs(dirs')
      BY <2>2, LaidOver
    <2> QED
      BY <2>1, <2>3, VouchKept
  <1>11. CASE PlainRun
    <2> DEFINE found == CaseCompare(dirs, case.ignore).residuals
    <2>1. UNCHANGED <<case, evidence, dirs>>
      BY <1>11 DEF PlainRun, records
    <2>2. \E at \in {"evidence", "ledger"} :
             runner' = [Idle EXCEPT !.pc = at, !.how = "plain", !.residuals = found]
      BY <1>11 DEF PlainRun
    <2> HIDE DEF found
    <2>3. runner'.pc \in {"evidence", "ledger"} /\ runner'.how = "plain" /\ runner'.residuals = found
      BY <2>2 DEF Idle
    <2>4. RunnerCarries'
      BY <2>1, <2>3 DEF RunnerCarries, found
    <2>5. PassWasFound'
      BY <2>1 DEF VouchInv, PassWasFound, FindsNothingIn
    <2> QED
      BY <2>1, <2>4, <2>5 DEF VouchInv, IsDirs
  <1>12. CASE WritesLedger
    <2>1. UNCHANGED <<case, evidence, dirs>> /\ runner.pc = "ledger"
      BY <1>12 DEF WritesLedger
    <2>2. runner'.pc = "idle"
          \/ (runner'.pc = "evidence" /\ runner'.how = runner.how /\ runner'.residuals = runner.residuals)
      BY <1>12 DEF WritesLedger
    <2>3. RunnerCarries'
      BY <2>1, <2>2 DEF VouchInv, RunnerCarries
    <2>4. PassWasFound'
      BY <2>1 DEF VouchInv, PassWasFound, FindsNothingIn
    <2> QED
      BY <2>1, <2>3, <2>4 DEF VouchInv, IsDirs
  <1>13. CASE WritesEvidence
    <2>1. /\ UNCHANGED <<case, dirs>> /\ runner.pc = "evidence" /\ runner'.pc = "idle"
          /\ evidence' = EvidenceRecord(runner.residuals, runner.how, SideArtifacts(dirs))
      BY <1>13 DEF WritesEvidence, Ends
    <2>2. /\ evidence'.artifacts = SideArtifacts(dirs) /\ evidence'.how = runner.how
          /\ evidence'.result = "pass" => runner.residuals = {}
      BY <2>1 DEF EvidenceRecord
    <2>3. runner.residuals = {} => FindsNothingIn(dirs, runner.how)
      BY <2>1 DEF VouchInv, RunnerCarries, FindsNothingIn
    <2>4. PassWasFound'
      BY <2>1, <2>2, <2>3 DEF PassWasFound, FindsNothingIn
    <2>5. RunnerCarries'
      BY <2>1 DEF RunnerCarries
    <2> QED
      BY <2>1, <2>4, <2>5 DEF VouchInv, IsDirs
  <1>14. CASE StartsRelease
    <2>1. UNCHANGED <<case, evidence, dirs>> /\ runner'.pc = "release"
      BY <1>14 DEF StartsRelease, records, Idle
    <2> QED
      BY <2>1, VouchKept
  <1>15. CASE WritesReleaseFile
    <2>1. UNCHANGED <<case, evidence, dirs>> /\ runner'.pc \in {"release", "idle"}
      BY <1>15 DEF WritesReleaseFile
    <2> QED
      BY <2>1, VouchKept
  <1>16. CASE Killed
    <2>1. UNCHANGED case /\ runner'.pc = "idle"
      BY <1>16 DEF Killed, Ends
    <2>2. RunnerCarries'
      BY <2>1 DEF RunnerCarries
    <2>3. evidence' = evidence \/ evidence' = Cut
      BY <1>16 DEF Killed, CutsShort, records
    <2>4. PassWasFound'
      BY <2>1, <2>3 DEF VouchInv, PassWasFound, FindsNothingIn, IsWhole
    <2>5. dirs' = dirs \/ \E files : dirs' = [dirs EXCEPT ![runner.side] = files @@ @]
      BY <1>16 DEF Killed, CutsShort
    <2>6. IsDirs(dirs')
      BY <2>5, LaidOver
    <2> QED
      BY <2>2, <2>4, <2>6 DEF VouchInv, IsDirs
  <1>17. CASE UNCHANGED vars
    <2>1. UNCHANGED <<case, evidence, dirs, runner>>
      BY <1>17 DEF vars, records
    <2>2. RunnerCarries'
      BY <2>1 DEF VouchInv, RunnerCarries
    <2>3. PassWasFound'
      BY <2>1 DEF VouchInv, PassWasFound, FindsNothingIn
    <2> QED
      BY <2>1, <2>2, <2>3 DEF VouchInv, IsDirs
  <1> QED
    BY <1>1, <1>2, <1>3, <1>4, <1>5, <1>6, <1>7, <1>8, <1>9, <1>10, <1>11, <1>12, <1>13,
       <1>14, <1>15, <1>16, <1>17, <1>18, <1>19, <1>20 DEF Next

(* Evidence of a pass that verifies, where it vouches for every file, is   *)
(* of what is there: the comparison it was recorded of finds nothing in    *)
(* the directories of now, whatever was run or killed since (evidence.rs,  *)
(* vm_court.rs).                                                           *)
THEOREM VouchedPassesAgree == Spec => []VouchedPassAgrees
  <1>1. VouchInv /\ RunnerShape /\ [Next]_vars => VouchInv'
    BY VouchNext
  <1>2. VouchInv => VouchedPassAgrees
    BY VouchedPass
  <1> QED
    BY VouchInit, <1>1, <1>2, RunnerAlwaysShaped, PTL DEF Spec

(***************************************************************************)
(* What a release stands for: it holds the evidence record it speaks of,   *)
(* so that verifying it finds any other.                                   *)
(***************************************************************************)
Record == <<"case", "evidence.json">>
SpeaksOfItsRecord(receipt) ==
    (IsWhole(receipt) /\ receipt.result # "unrecorded") =>
        /\ Record \in DOMAIN receipt.artifacts
        /\ IsWhole(receipt.artifacts[Record])
        /\ receipt.result = receipt.artifacts[Record].result
        /\ receipt.count = receipt.artifacts[Record].count
ReleaseInv ==
    /\ DOMAIN release = Range(ReleaseFiles)
    /\ SpeaksOfItsRecord(release["COURTS.json"])

(* Among the artifacts of a receipt the evidence record is the one of the  *)
(* case directory.                                                         *)
LEMMA RecordOfReceipt ==
    ASSUME NEW d, NEW l, NEW e
    PROVE  /\ Record \in DOMAIN ReceiptArtifacts(d, l, e) <=> e # None
           /\ Record \in DOMAIN ReceiptArtifacts(d, l, e) => ReceiptArtifacts(d, l, e)[Record] = e
  <1>1. Record \notin DOMAIN SideArtifacts(d)
    <2>1. DOMAIN SideArtifacts(d) = {<<"oracle", f>> : f \in DOMAIN d["oracle"]}
                                    \cup {<<"candidate", f>> : f \in DOMAIN d["candidate"]}
      BY SideArtifactsAre
    <2>2. \A f : Record # <<"oracle", f>> /\ Record # <<"candidate", f>>
      BY DEF Record
    <2> QED
      BY <2>1, <2>2
  <1>2. /\ Record \in DOMAIN RecordArtifacts(l, e) <=> e # None
        /\ Record \in DOMAIN RecordArtifacts(l, e) => RecordArtifacts(l, e)[Record] = e
    BY DEF RecordArtifacts, Record
  <1> QED
    BY <1>1, <1>2 DEF ReceiptArtifacts, @@

(* A receipt says what the record among its artifacts says.                *)
LEMMA ReceiptSpeaksOfItsRecord ==
    ASSUME NEW d, NEW l, NEW e
    PROVE  SpeaksOfItsRecord(CourtReceipt(d, l, e))
  <1> SUFFICES ASSUME CourtReceipt(d, l, e).result # "unrecorded"
               PROVE  SpeaksOfItsRecord(CourtReceipt(d, l, e))
    BY DEF SpeaksOfItsRecord
  <1>1. /\ CourtReceipt(d, l, e).artifacts = ReceiptArtifacts(d, l, e) /\ IsWhole(e)
        /\ CourtReceipt(d, l, e).result = e.result /\ CourtReceipt(d, l, e).count = e.count
    BY DEF CourtReceipt
  <1>2. Record \in DOMAIN ReceiptArtifacts(d, l, e) /\ ReceiptArtifacts(d, l, e)[Record] = e
    BY <1>1, RecordOfReceipt DEF IsWhole
  <1> QED
    BY <1>1, <1>2 DEF SpeaksOfItsRecord

LEMMA ReleaseInit == Init => ReleaseInv
  <1>1. "COURTS.json" \in Range(ReleaseFiles)
    BY DEF Range, ReleaseFiles
  <1> QED
    BY <1>1 DEF Init, ReleaseInv, SpeaksOfItsRecord, IsWhole

LEMMA ReleaseNext ==
    ASSUME ReleaseInv, [Next]_vars
    PROVE  ReleaseInv'
  <1>0. "COURTS.json" \in Range(ReleaseFiles)
    BY DEF Range, ReleaseFiles
  <1>1. CASE WritesReleaseFile
    <2> DEFINE file == ReleaseFiles[runner.left]
               receipt == CourtReceipt(dirs, ledger, evidence)
    <2>1. release' = [release EXCEPT ![file] = Assemble(receipt)[file]]
      BY <1>1 DEF WritesReleaseFile
    <2>2. Assemble(receipt)["COURTS.json"] = receipt
      BY <1>0 DEF Assemble
    <2>3. SpeaksOfItsRecord(receipt)
      BY ReceiptSpeaksOfItsRecord
    <2> HIDE DEF file, receipt
    <2>4. release'["COURTS.json"] \in {release["COURTS.json"], receipt} /\ DOMAIN release' = DOMAIN release
      BY <1>0, <2>1, <2>2 DEF ReleaseInv
    <2> QED
      BY <2>3, <2>4 DEF ReleaseInv
  <1>2. CASE Killed
    <2>1. release' = release \/ release' = [release EXCEPT ![ReleaseFiles[runner.left]] = Cut]
      BY <1>2 DEF Killed, CutsShort, records
    <2>2. SpeaksOfItsRecord(Cut)
      BY DEF SpeaksOfItsRecord, IsWhole
    <2>3. release'["COURTS.json"] \in {release["COURTS.json"], Cut} /\ DOMAIN release' = DOMAIN release
      BY <1>0, <2>1 DEF ReleaseInv
    <2> QED
      BY <2>2, <2>3 DEF ReleaseInv
  <1>3. CASE ~(WritesReleaseFile \/ Killed)
    <2>1. release' = release
      BY <1>3 DEF Next, vars, records, Builds, VmStarts, EmptiesOut, StaleMachineWrites,
                  MachineStarts, ScriptRuns, MachineFails, RebootsAndChecks, CopiesOut,
                  RenamesResidual, Compares, WitnessStarts, WitnessWrites, PlainRun,
                  WritesLedger, WritesEvidence, StartsRelease
    <2> QED
      BY <2>1 DEF ReleaseInv
  <1> QED
    BY <1>1, <1>2, <1>3

(* A release that verifies says of its court what the evidence of the      *)
(* court says now, whatever was recorded, run or killed since the release  *)
(* was made (evidence_release.rs).                                         *)
THEOREM ReleasesSpeakTrue == Spec => []ReleaseSpeaksTrue
  <1>1. ReleaseInv /\ [Next]_vars => ReleaseInv'
    BY ReleaseNext
  <1>2. ReleaseInv => ReleaseSpeaksTrue
    <2> DEFINE receipt == release["COURTS.json"]
    <2> SUFFICES ASSUME ReleaseInv, ReleaseVerifies(release, dirs, ledger, evidence),
                        receipt.result # "unrecorded"
                 PROVE  /\ IsWhole(evidence)
                        /\ receipt.result = evidence.result /\ receipt.count = evidence.count
      BY DEF ReleaseSpeaksTrue
    <2>1. /\ Record \in DOMAIN receipt.artifacts /\ IsWhole(receipt.artifacts[Record])
          /\ receipt.result = receipt.artifacts[Record].result
          /\ receipt.count = receipt.artifacts[Record].count
      BY DEF ReleaseInv, SpeaksOfItsRecord, ReleaseVerifies
    <2>2. \A p \in DOMAIN receipt.artifacts :
             /\ p \in DOMAIN ReceiptArtifacts(dirs, ledger, evidence)
             /\ ReceiptArtifacts(dirs, ledger, evidence)[p] = receipt.artifacts[p]
      BY DEF ReleaseVerifies, VerifyRelease
    <2> HIDE DEF receipt
    <2>3. receipt.artifacts[Record] = evidence
      BY <2>1, <2>2, RecordOfReceipt
    <2> QED
      BY <2>1, <2>3
  <1> QED
    BY ReleaseInit, <1>1, <1>2, PTL DEF Spec

(***************************************************************************)
(* The courts of the corpora.  Nothing but the witness of its corpus ever  *)
(* writes the directories of such a case, so once it has left all its      *)
(* files its court passes exactly if the candidate computes what the       *)
(* reference does, but for what the case says not to look at.              *)
(***************************************************************************)
Content(side) == IF side = "oracle" THEN Reference(case.corpus) ELSE Model(case.corpus)
CorpusDirs ==
    DOMAIN dirs = Sides /\
    \A side \in Sides : \A f \in DOMAIN dirs[side] :
        f \in Range(CorpusFiles) /\ dirs[side][f] \in {Cut, Content(side)[f]}
SameCorpus ==
    \A f \in Range(CorpusFiles) \ case.ignore : Reference(case.corpus)[f] = Model(case.corpus)[f]
CorpusTold == (runner.how = "plain" /\ Witnessed) => (runner.residuals = {} <=> SameCorpus)
CorpusInv ==
    case.corpus # "" =>
        /\ runner.pc \in {"idle", "witness", "ledger", "evidence", "release"}
        /\ runner.pc \in {"idle", "witness", "release"} => runner.how = ""
        /\ CorpusDirs
        /\ CorpusTold

LEMMA CorpusInit == Init => CorpusInv
  <1> SUFFICES ASSUME Init PROVE CorpusInv
    OBVIOUS
  <1>1. runner.pc = "idle" /\ runner.how = "" /\ dirs = [side \in Sides |-> NoFiles]
    BY IdleShape DEF Init
  <1>2. CorpusDirs
    BY <1>1 DEF CorpusDirs, NoFiles
  <1> QED
    BY <1>1, <1>2 DEF CorpusInv, CorpusTold

(* The plain comparison finds nothing exactly if every file it looks at is *)
(* the same on both sides.                                                 *)
LEMMA CaseFinds ==
    ASSUME NEW d, NEW ignore
    PROVE  CaseCompare(d, ignore).residuals = {} <=>
              \A f \in (DOMAIN d.oracle \cup DOMAIN d.candidate) \ ignore :
                  Has(d, "candidate", f) /\ Has(d, "oracle", f) /\ d.oracle[f] = d.candidate[f]
  <1> DEFINE files == (DOMAIN d.oracle \cup DOMAIN d.candidate) \ ignore
             found == [f \in files |->
                          IF ~Has(d, "candidate", f) THEN At("missing candidate", 0, f)
                          ELSE IF ~Has(d, "oracle", f) THEN At("missing oracle", 0, f)
                          ELSE If(d.oracle[f] # d.candidate[f], At("filesystem", 0, f))]
  <1>1. CaseCompare(d, ignore).residuals = UNION {found[f] : f \in files}
    BY DEF CaseCompare, Found
  <1>2. \A f \in files : found[f] = {} <=>
           (Has(d, "candidate", f) /\ Has(d, "oracle", f) /\ d.oracle[f] = d.candidate[f])
    <2>1. \A layer, f : At(layer, 0, f) # {}
      BY DEF At
    <2> QED BY <2>1 DEF If
  <1> HIDE DEF found
  <1>3. (UNION {found[f] : f \in files}) = {} <=> \A f \in files : found[f] = {}
    OBVIOUS
  <1> QED
    BY <1>1, <1>2, <1>3

(* What comparing the corpora finds.                                       *)
LEMMA CorpusCompared ==
    ASSUME CorpusDirs, Witnessed
    PROVE  CaseCompare(dirs, case.ignore).residuals = {} <=> SameCorpus
  <1>1. \A side \in Sides : DOMAIN dirs[side] = Range(CorpusFiles)
    BY DEF CorpusDirs, Witnessed
  <1>2. \A side \in Sides : \A f \in Range(CorpusFiles) : dirs[side][f] = Content(side)[f]
    BY <1>1 DEF CorpusDirs, Witnessed
  <1>3. \A f \in Range(CorpusFiles) : /\ dirs.oracle[f] = Reference(case.corpus)[f]
                                     /\ dirs.candidate[f] = Model(case.corpus)[f]
                                     /\ Has(dirs, "oracle", f) /\ Has(dirs, "candidate", f)
    BY <1>1, <1>2 DEF Sides, Content, Has
  <1>4. DOMAIN dirs.oracle \cup DOMAIN dirs.candidate = Range(CorpusFiles)
    BY <1>1 DEF Sides
  <1> QED
    BY <1>3, <1>4, CaseFinds DEF SameCorpus

(* A file of the corpus that is written, whole or cut short.               *)
LEMMA CorpusWritten ==
    ASSUME CorpusDirs, UNCHANGED case, NEW side \in Sides, NEW file \in Range(CorpusFiles),
           NEW content \in {Cut, Content(side)[file]},
           dirs' = [dirs EXCEPT ![side] = file :> content @@ @]
    PROVE  CorpusDirs'
  <1> DEFINE laid == file :> content @@ dirs[side]
  <1>1. DOMAIN laid = {file} \cup DOMAIN dirs[side]
    BY DEF @@, :>
  <1>2. laid[file] = content /\ \A f \in DOMAIN dirs[side] \ {file} : laid[f] = dirs[side][f]
    BY <1>1 DEF @@, :>
  <1>3. dirs' = [dirs EXCEPT ![side] = laid]
    OBVIOUS
  <1> HIDE DEF laid
  <1>4. Content(side)' = Content(side) /\ \A other \in Sides : Content(other)' = Content(other)
    BY DEF Content
  <1>5. \A f \in DOMAIN laid : f \in Range(CorpusFiles) /\ laid[f] \in {Cut, Content(side)[f]}
    BY <1>1, <1>2 DEF CorpusDirs
  <1>6. dirs'[side] = laid /\ \A other \in Sides \ {side} : dirs'[other] = dirs[other]
    BY <1>3 DEF CorpusDirs
  <1>7. DOMAIN dirs' = Sides
    BY <1>3 DEF CorpusDirs
  <1>8. ASSUME NEW other \in Sides, NEW f \in DOMAIN dirs'[other]
        PROVE  f \in Range(CorpusFiles) /\ dirs'[other][f] \in {Cut, Content(other)'[f]}
    <2>1. CASE other = side
      BY <1>4, <1>5, <1>6, <1>8, <2>1
    <2>2. CASE other # side
      BY <1>4, <1>6, <1>8, <2>2 DEF CorpusDirs
    <2> QED
      BY <2>1, <2>2
  <1> QED
    BY <1>7, <1>8 DEF CorpusDirs

LEMMA CorpusKept == CorpusDirs /\ UNCHANGED <<case, dirs>> => CorpusDirs'
  BY DEF CorpusDirs, Content

LEMMA CorpusNext ==
    ASSUME CorpusInv, RunnerShape, [Next]_vars
    PROVE  CorpusInv'
  <1>c. case' = case
    BY DEF Next, vars, Builds, VmStarts, EmptiesOut, StaleMachineWrites, MachineStarts, ScriptRuns,
           MachineFails, RebootsAndChecks, CopiesOut, RenamesResidual, Compares, WitnessStarts,
           WitnessWrites, PlainRun, WritesLedger, WritesEvidence, StartsRelease, WritesReleaseFile,
           Killed
  <1> SUFFICES ASSUME case.corpus # "" PROVE CorpusInv'
    BY <1>c DEF CorpusInv
  <1>s. SameCorpus' = SameCorpus
    BY <1>c DEF SameCorpus
  <1>0. /\ runner.pc \in {"idle", "witness", "ledger", "evidence", "release"}
        /\ runner.pc \in {"idle", "witness", "release"} => runner.how = ""
        /\ CorpusDirs
        /\ CorpusTold
    BY DEF CorpusInv
  <1>d. dirs' = dirs => Witnessed' = Witnessed /\ CorpusDirs'
    BY <1>0, <1>c, CorpusKept DEF Witnessed
  <1>1. CASE UNCHANGED <<runner, dirs>>
    BY <1>0, <1>1, <1>s, <1>d DEF CorpusInv, CorpusTold
  <1>2. CASE runner' = Idle /\ CorpusDirs'
    <2>1. runner'.pc = "idle" /\ runner'.how = ""
      BY <1>2, IdleShape
    <2> QED BY <1>2, <2>1 DEF CorpusInv, CorpusTold
  <1>3. CASE WitnessStarts
    <2>1. dirs' = dirs /\ runner'.pc = "witness" /\ runner'.how = ""
      BY <1>3, IdleShape DEF WitnessStarts
    <2> QED BY <1>d, <2>1 DEF CorpusInv, CorpusTold
  <1>10. CASE WitnessWrites
    <2> DEFINE content == IF runner.side = "oracle" THEN Reference(case.corpus) ELSE Model(case.corpus)
    <2>1. /\ dirs' = [dirs EXCEPT ![runner.side] = WitnessFile :> content[WitnessFile] @@ @]
          /\ runner.pc = "witness"
      BY <1>10 DEF WitnessWrites
    <2>2. content = Content(runner.side)
      BY DEF Content
    <2> HIDE DEF content
    <2>3. CorpusDirs'
      BY <1>0, <1>c, <2>1, <2>2, WitnessFileIs, CorpusWritten DEF RunnerShape
    <2>4. runner'.pc \in {"idle", "witness"} /\ runner'.how = ""
      BY <1>0, <1>10, <2>1, IdleShape DEF WitnessWrites, RunnerShape
    <2> QED BY <2>3, <2>4 DEF CorpusInv, CorpusTold
  <1>4. CASE PlainRun
    <2> DEFINE residuals == CaseCompare(dirs, case.ignore).residuals
    <2>1. runner' = [Idle EXCEPT !.pc = IF residuals = {} THEN "evidence" ELSE "ledger",
                                 !.how = "plain", !.residuals = residuals]
      BY <1>4 DEF PlainRun
    <2>2. dirs' = dirs
      BY <1>4 DEF PlainRun
    <2>4. Witnessed => (residuals = {} <=> SameCorpus)
      BY <1>0, CorpusCompared
    <2> HIDE DEF residuals
    <2>3. runner'.pc \in {"evidence", "ledger"} /\ runner'.residuals = residuals
      BY <2>1, IdleShape
    <2> QED BY <1>s, <1>d, <2>2, <2>3, <2>4 DEF CorpusInv, CorpusTold
  <1>5. CASE WritesLedger /\ runner' # Idle
    <2>1. runner'.pc = "evidence" /\ runner'.how = runner.how /\ runner'.residuals = runner.residuals /\ dirs' = dirs
      BY <1>5 DEF WritesLedger, RunnerShape
    <2> QED BY <1>0, <1>s, <1>d, <2>1 DEF CorpusInv, CorpusTold
  <1>6. CASE StartsRelease
    <2>1. runner'.pc = "release" /\ runner'.how = "" /\ dirs' = dirs
      BY <1>6, IdleShape DEF StartsRelease
    <2> QED BY <1>d, <2>1 DEF CorpusInv, CorpusTold
  <1>7. CASE WritesReleaseFile /\ runner' # Idle
    <2>1. /\ runner.pc = "release" /\ runner'.pc = "release" /\ runner'.how = runner.how
          /\ dirs' = dirs
      BY <1>7 DEF WritesReleaseFile, RunnerShape
    <2> QED BY <1>0, <1>d, <2>1 DEF CorpusInv, CorpusTold
  <1>8. CASE VmStarts \/ EmptiesOut \/ StaleMachineWrites \/ MachineStarts \/ ScriptRuns
             \/ MachineFails \/ RebootsAndChecks \/ CopiesOut \/ RenamesResidual \/ Compares
    BY <1>0, <1>8 DEF VmStarts, EmptiesOut, StaleMachineWrites, MachineStarts, ScriptRuns,
                      MachineFails, RebootsAndChecks, CopiesOut, RenamesResidual, Compares
  <1>9. CASE Killed
    <2>1. runner' = Idle
      BY <1>9 DEF Killed, Ends
    <2>2. \/ dirs' = dirs
          \/ /\ runner.pc = "witness"
             /\ dirs' = [dirs EXCEPT ![runner.side] = WitnessFile :> Cut @@ @]
      BY <1>0, <1>9 DEF Killed, CutsShort
    <2>3. CorpusDirs'
      BY <1>0, <1>c, <1>d, <2>2, WitnessFileIs, CorpusWritten DEF RunnerShape
    <2> QED BY <1>2, <2>1, <2>3
  <1> QED
    BY <1>1, <1>2, <1>3, <1>4, <1>5, <1>6, <1>7, <1>8, <1>9, <1>10, <1>d
    DEF Next, vars, Builds, WritesLedger, WritesEvidence, WritesReleaseFile, Ends

(* The court of a corpus whose witness left all its files passes exactly   *)
(* if what the crates compute is what the reference computes, in every     *)
(* file that the case does not say to ignore.                              *)
CorpusCourtTells == case.corpus # "" => CorpusTold
THEOREM CorpusCourtsTell == Spec => []CorpusCourtTells
  <1>1. CorpusInv /\ RunnerShape /\ [Next]_vars => CorpusInv'
    BY CorpusNext
  <1>2. CorpusInv => CorpusCourtTells
    BY DEF CorpusInv, CorpusCourtTells
  <1> QED
    BY CorpusInit, RunnerInit, RunnerNext, <1>1, <1>2, PTL DEF Spec

(* Where the crates compute what the references compute, every corpus's    *)
(* court passes whenever its witness has left all its files, whatever was  *)
(* killed or run again: the courts raise no false alarm (case_runner.rs,   *)
(* compare.rs).                                                            *)
THEOREM CorporaAgree ==
    ASSUME \A c \in Cases : c.corpus # "" =>
               \A f \in Range(CorpusFiles) : Reference(c.corpus)[f] = Model(c.corpus)[f]
    PROVE  Spec => []EveryCorpusAgrees
  <1>1. CorpusInv /\ RunnerShape /\ [Next]_vars => CorpusInv'
    BY CorpusNext
  <1>2. Init => case \in Cases
    BY DEF Init
  <1>3. case \in Cases /\ [Next]_vars => (case \in Cases)'
    BY DEF Next, vars, Builds, VmStarts, EmptiesOut, StaleMachineWrites, MachineStarts, ScriptRuns,
           MachineFails, RebootsAndChecks, CopiesOut, RenamesResidual, Compares, WitnessStarts,
           WitnessWrites, PlainRun, WritesLedger, WritesEvidence, StartsRelease, WritesReleaseFile,
           Killed
  <1>4. CorpusInv /\ case \in Cases => EveryCorpusAgrees
    BY DEF CorpusInv, CorpusTold, SameCorpus, EveryCorpusAgrees
  <1> QED
    BY CorpusInit, RunnerInit, RunnerNext, <1>1, <1>2, <1>3, <1>4, PTL DEF Spec

(***************************************************************************)
(* What a comparison finds is finitely many residuals, each of a row that  *)
(* is counted, as long as the directories hold finitely many files and the *)
(* scripts' own files in them are whole or cut short.                      *)
(***************************************************************************)
AreResiduals(found) == IsFiniteSet(found) /\ \A r \in found : r[2] \in Nat

(* A set that is written out has finitely many elements.                   *)
LEMMA FewElements ==
    ASSUME NEW a, NEW b, NEW c, NEW d, NEW e, NEW f
    PROVE  /\ IsFiniteSet({a}) /\ IsFiniteSet({a, b}) /\ IsFiniteSet({a, b, c}) /\ IsFiniteSet({a, b, c, d})
           /\ IsFiniteSet({a, b, c, d, e}) /\ IsFiniteSet({a, b, c, d, e, f})
  <1>1. IsFiniteSet({a})
    BY FS_Singleton
  <1>2. IsFiniteSet({a, b})
    <2>1. {a, b} = {a} \cup {b}
      OBVIOUS
    <2> QED BY <1>1, <2>1, FS_AddElement
  <1>3. IsFiniteSet({a, b, c})
    <2>1. {a, b, c} = {a, b} \cup {c}
      OBVIOUS
    <2> QED BY <1>2, <2>1, FS_AddElement
  <1>4. IsFiniteSet({a, b, c, d})
    <2>1. {a, b, c, d} = {a, b, c} \cup {d}
      OBVIOUS
    <2> QED BY <1>3, <2>1, FS_AddElement
  <1>5. IsFiniteSet({a, b, c, d, e})
    <2>1. {a, b, c, d, e} = {a, b, c, d} \cup {e}
      OBVIOUS
    <2> QED BY <1>4, <2>1, FS_AddElement
  <1>6. IsFiniteSet({a, b, c, d, e, f})
    <2>1. {a, b, c, d, e, f} = {a, b, c, d, e} \cup {f}
      OBVIOUS
    <2> QED BY <1>5, <2>1, FS_AddElement
  <1> QED
    BY <1>1, <1>2, <1>3, <1>4, <1>5, <1>6

LEMMA NoResiduals == AreResiduals({})
  BY FS_EmptySet DEF AreResiduals

LEMMA OneResidual ==
    ASSUME NEW differs, NEW layer, NEW row \in Nat, NEW field
    PROVE  AreResiduals(At(layer, row, field)) /\ AreResiduals(If(differs, At(layer, row, field)))
  <1>1. AreResiduals(At(layer, row, field))
    <2>1. IsFiniteSet(At(layer, row, field))
      BY FewElements DEF At
    <2>2. \A r \in At(layer, row, field) : r[2] = row
      BY DEF At
    <2> QED BY <2>1, <2>2 DEF AreResiduals
  <1> QED
    BY <1>1, NoResiduals DEF If

LEMMA MoreResiduals ==
    ASSUME NEW a, NEW b, AreResiduals(a), AreResiduals(b)
    PROVE  AreResiduals(a \cup b)
  BY FS_Union DEF AreResiduals

(* Those of finitely many things.                                          *)
LEMMA AllResiduals ==
    ASSUME NEW S, IsFiniteSet(S), NEW f, DOMAIN f = S, \A x \in S : AreResiduals(f[x])
    PROVE  AreResiduals(UNION {f[x] : x \in S})
  <1> DEFINE T == {f[x] : x \in S}
  <1>1. [x \in S |-> f[x]] \in Surjection(S, T)
    BY DEF Surjection
  <1>2. IsFiniteSet(T)
    BY <1>1, FS_Surjection
  <1>3. \A t \in T : IsFiniteSet(t)
    BY DEF AreResiduals
  <1>4. IsFiniteSet(UNION T)
    BY <1>2, <1>3, FS_UNION
  <1>5. \A r \in UNION T : r[2] \in Nat
    BY DEF AreResiduals
  <1> QED
    BY <1>4, <1>5 DEF AreResiduals

(* The comparisons of files as they are.                                   *)
LEMMA ByteExactResiduals ==
    ASSUME NEW d, NEW files, IsFiniteSet(files), NEW layer
    PROVE  AreResiduals(ByteExact(d, files, layer))
  <1> DEFINE f == [x \in files |-> If(d.oracle[x] # d.candidate[x], At(layer, 0, x))]
  <1>1. \A x \in files : AreResiduals(f[x])
    BY OneResidual
  <1>2. UNION {f[x] : x \in files} = ByteExact(d, files, layer)
    BY DEF ByteExact
  <1>3. DOMAIN f = files
    OBVIOUS
  <1> HIDE DEF f
  <1> QED
    BY <1>1, <1>2, <1>3, AllResiduals

LEMMA CaseResiduals ==
    ASSUME NEW d, IsFiniteSet(DOMAIN d.oracle), IsFiniteSet(DOMAIN d.candidate), NEW ignore
    PROVE  AreResiduals(CaseCompare(d, ignore).residuals)
  <1> DEFINE files == (DOMAIN d.oracle \cup DOMAIN d.candidate) \ ignore
             f == [x \in files |->
                      IF ~Has(d, "candidate", x) THEN At("missing candidate", 0, x)
                      ELSE IF ~Has(d, "oracle", x) THEN At("missing oracle", 0, x)
                      ELSE If(d.oracle[x] # d.candidate[x], At("filesystem", 0, x))]
  <1>1. IsFiniteSet(files)
    <2>1. IsFiniteSet(DOMAIN d.oracle \cup DOMAIN d.candidate)
      BY FS_Union
    <2> QED BY <2>1, FS_Subset
  <1>2. \A x \in files : AreResiduals(f[x])
    BY OneResidual
  <1>3. CaseCompare(d, ignore).residuals = UNION {f[x] : x \in files}
    BY DEF CaseCompare, Found
  <1>4. DOMAIN f = files
    OBVIOUS
  <1> HIDE DEF f, files
  <1> QED
    BY <1>1, <1>2, <1>3, <1>4, AllResiduals

(* The outcome of a comparison.                                            *)
IsOutcome(outcome) == AreResiduals(outcome.residuals)
LEMMA Outcomes ==
    ASSUME NEW a, NEW b
    PROVE  /\ IsOutcome(Error) /\ IsOutcome(Found({}))
           /\ AreResiduals(a) => IsOutcome(Found(a))
           /\ IsOutcome(a) /\ IsOutcome(b) => IsOutcome(Both(a, b))
  <1>1. Error.residuals = {} /\ \A x : Found(x).residuals = x
    BY DEF Error, Found
  <1>2. IsOutcome(Error) /\ IsOutcome(Found({}))
    BY <1>1, NoResiduals DEF IsOutcome
  <1>3. AreResiduals(a) => IsOutcome(Found(a))
    BY <1>1 DEF IsOutcome
  <1>4. IsOutcome(a) /\ IsOutcome(b) => IsOutcome(Both(a, b))
    <2>1. Both(a, b).residuals \in {{}, a.residuals \cup b.residuals}
      BY <1>1 DEF Both
    <2> QED BY <2>1, NoResiduals, MoreResiduals DEF IsOutcome
  <1> QED
    BY <1>2, <1>3, <1>4

LEMMA MakepkgOutcome == ASSUME NEW d PROVE IsOutcome(CompareMakepkg(d))
  <1> DEFINE execs == {"commands.txt", "scf-execs.txt", "sicf-execs.txt", "aurfail-execs.txt",
                       "makepkg-version.txt"}
  <1>1. IsFiniteSet({"packages.txt"}) /\ IsFiniteSet(execs)
    BY FewElements
  <1>2. AreResiduals(ByteExact(d, {"packages.txt"}, "machine-residual") \cup ByteExact(d, execs, "exec-chain"))
    BY <1>1, ByteExactResiduals, MoreResiduals
  <1> QED
    BY <1>2, Outcomes DEF CompareMakepkg

LEMMA SurfacesOutcome ==
    ASSUME NEW d, IsFiniteSet(DOMAIN d.oracle), NEW raw, NEW layer
    PROVE  IsOutcome(CompareSurfaces(d, raw, layer))
  <1> DEFINE files == (DOMAIN d.oracle) \ (raw \cup {"packages.txt"})
  <1>1. IsFiniteSet({"packages.txt"}) /\ IsFiniteSet(files)
    BY FewElements, FS_Subset
  <1>2. AreResiduals(ByteExact(d, {"packages.txt"}, "machine-residual") \cup ByteExact(d, files, layer))
    BY <1>1, ByteExactResiduals, MoreResiduals
  <1> QED
    BY <1>2, Outcomes DEF CompareSurfaces

LEMMA RenderedOutcome ==
    ASSUME NEW d, NEW files, IsFiniteSet(files), NEW layer
    PROVE  IsOutcome(CompareRendered(d, files, layer))
  <1> DEFINE residual == CandidateResidual(d)
             drift == If(d.oracle["residual.json"] # d.candidate[residual], At("machine-residual", 0, "drift"))
  <1>1. AreResiduals(drift \cup ByteExact(d, files, layer))
    <2>1. AreResiduals(drift)
      BY OneResidual
    <2> HIDE DEF drift
    <2> QED BY <2>1, ByteExactResiduals, MoreResiduals
  <1> QED
    BY <1>1, Outcomes DEF CompareRendered

LEMMA CloseOutcome == ASSUME NEW d PROVE IsOutcome(CompareCloseTransaction(d))
  <1> DEFINE machines == CompareRendered(d, {}, "")
             o == If(d.oracle["close-outcome.json"].exit # "crash", At("gap-010-oracle", 0, "exit"))
             c == If(d.candidate["close-outcome.json"].exit # "clean", At("gap-010-candidate", 0, "exit"))
  <1>1. AreResiduals(machines.residuals)
    BY RenderedOutcome, FS_EmptySet DEF IsOutcome
  <1>2. AreResiduals(o) /\ AreResiduals(c)
    BY OneResidual
  <1>3. CompareCloseTransaction(d) \in {Error, Found(machines.residuals \cup o \cup c)}
    BY DEF CompareCloseTransaction
  <1> HIDE DEF machines, o, c
  <1>4. AreResiduals(machines.residuals \cup o \cup c)
    BY <1>1, <1>2, MoreResiduals
  <1> QED
    BY <1>3, <1>4, Outcomes

LEMMA ChainsOutcome == ASSUME NEW d PROVE IsOutcome(CompareVmTransactions(d))
  <1> DEFINE o == OracleTransaction(d.oracle["oracle-transaction.json"])
             c == CandidateTransaction(d.candidate["candidate-transaction.json"])
             S == {"probes", "execs", "terminal"}
             f == [x \in S |-> If(o[x] # c[x], At("transaction-chain", 0, x))]
  <1>1. IsFiniteSet(S)
    BY FewElements
  <1>2. \A x \in S : AreResiduals(f[x])
    BY OneResidual
  <1>3. DOMAIN f = S
    OBVIOUS
  <1>4. CompareTransactionObservations(o, c) = UNION {f[x] : x \in S}
    BY DEF CompareTransactionObservations
  <1>5. CompareVmTransactions(d) \in {Error, Found(CompareTransactionObservations(o, c))}
    BY DEF CompareVmTransactions
  <1> HIDE DEF f, S, o, c
  <1>6. AreResiduals(CompareTransactionObservations(o, c))
    BY <1>1, <1>2, <1>3, <1>4, AllResiduals
  <1> QED
    BY <1>5, <1>6, Outcomes

LEMMA MutationOutcome == ASSUME NEW d PROVE IsOutcome(CompareMutation(d))
  <1> DEFINE a == If(d.oracle["pkgbuild-before.txt"] # d.candidate["candidate-pkgbuild-before.txt"],
                     At("pkgbuild-mutation", 0, "before"))
             b == If(d.oracle["pkgbuild-after.txt"] # d.candidate["candidate-pkgbuild-after.txt"],
                     At("pkgbuild-mutation", 0, "after"))
  <1>1. AreResiduals(a) /\ AreResiduals(b)
    BY OneResidual
  <1>2. CompareMutation(d) \in {Error, Found(a \cup b)}
    BY DEF CompareMutation
  <1> HIDE DEF a, b
  <1> QED
    BY <1>1, <1>2, MoreResiduals, Outcomes

LEMMA MatrixOutcome == ASSUME NEW d PROVE IsOutcome(CompareTerminalMatrix(d))
  <1> DEFINE a == If(TerminalMatrixObservation(d.oracle["terminal-matrix.json"].scenarios)
                       # TerminalMatrixObservation(d.candidate["terminal-matrix.json"].scenarios),
                     At("terminal-matrix", 0, "scenarios"))
  <1>1. AreResiduals(a)
    BY OneResidual
  <1>2. CompareTerminalMatrix(d) \in {Error, Found(a)}
    BY DEF CompareTerminalMatrix
  <1> HIDE DEF a
  <1> QED
    BY <1>1, <1>2, Outcomes

(* The members that a dump of the interface lists are finitely many.       *)
LEMMA ScxOutcome ==
    ASSUME NEW d,
           "candidate-interface.json" \in DOMAIN d.candidate => 
              \/ d.candidate["candidate-interface.json"] = Cut
              \/ IsFiniteSet(d.candidate["candidate-interface.json"].members)
    PROVE  IsOutcome(CompareScxInterface(d))
  <1> DEFINE real == IF d.oracle["introspect.txt"] = Cut THEN {} ELSE d.oracle["introspect.txt"].members
             mine == d.candidate["candidate-interface.json"].members
             loader == d.oracle["oracle-properties.json"].values
             readback == d.candidate["candidate-readback.json"].values
             Same(m, r) == /\ m.kind = r.kind /\ m.name = r.name /\ m.sig = r.sig
                           /\ m.kind = "property" => m.writable = r.writable
             keys == {"current_scheduler", "scheduler_mode", "supported_schedulers"}
             Reads(values, k) == IF k \in DOMAIN values THEN {values[k]} ELSE {}
             f == [m \in mine |-> If(\A r \in real : ~Same(m, r), At("scx-interface", 0, m.name))]
             g == [k \in keys |-> If(Reads(loader, k) # Reads(readback, k), At("scx-readback", 0, k))]
             failed == \/ ~Readable(d, {"introspect.txt"}, {})
                       \/ ~Parses(d, {"oracle-properties.json"},
                                    {"candidate-interface.json", "candidate-readback.json"})
  <1>1. (\A m \in mine : AreResiduals(f[m])) /\ (\A k \in keys : AreResiduals(g[k]))
    BY OneResidual
  <1>2. DOMAIN f = mine /\ DOMAIN g = keys /\ IsFiniteSet(keys)
    BY FewElements
  <1> DEFINE U == UNION {If(\A r \in real : ~Same(m, r), At("scx-interface", 0, m.name)) : m \in mine}
             V == UNION {If(Reads(loader, k) # Reads(readback, k), At("scx-readback", 0, k)) : k \in keys}
  <1>7. CompareScxInterface(d) = IF failed THEN Error ELSE Found(U \cup V)
    BY Zenon DEF CompareScxInterface
  <1>8. U = UNION {f[m] : m \in mine}
    BY Zenon
  <1>9. V = UNION {g[k] : k \in keys}
    BY Zenon
  <1> HIDE DEF U, V
  <1>3. CompareScxInterface(d) =
          IF failed THEN Error ELSE Found((UNION {f[m] : m \in mine}) \cup (UNION {g[k] : k \in keys}))
    BY <1>7, <1>8, <1>9
  <1>4. ~failed => IsFiniteSet(mine)
    BY DEF Parses, Readable
  <1> HIDE DEF f, g, mine, keys, failed
  <1>5. CASE failed
    BY <1>3, <1>5, Outcomes
  <1>6. CASE ~failed
    <2>1. AreResiduals(UNION {f[m] : m \in mine}) /\ AreResiduals(UNION {g[k] : k \in keys})
      BY <1>1, <1>2, <1>4, <1>6, AllResiduals
    <2>2. AreResiduals((UNION {f[m] : m \in mine}) \cup (UNION {g[k] : k \in keys}))
      BY <2>1, MoreResiduals
    <2> QED BY <1>3, <1>6, <2>2, Outcomes
  <1> QED
    BY <1>5, <1>6

(* A window that an original or a candidate may show.                      *)
Shown(view) ==
    /\ view.rows \in Seq({view.rows[i] : i \in DOMAIN view.rows})
    /\ \A i \in DOMAIN view.rows : IsRow(view.rows[i]) /\ (view.layout = "nested" => ToldApart(view.rows[i]))

(* What is in a file that a script wrote, whole or cut short.              *)
Viewed(view) ==
    Shown(view) /\ \A i \in DOMAIN view.rows : IsFiniteSet(DOMAIN Companions(view.rows[i].raw))
SoundFile(name, content) ==
    \/ content = Cut
    \/ /\ name = "oracle-state.json" => \E view : Viewed(view) /\ content = Tree(view)
       /\ name = "candidate-state.json" => \E view : Viewed(view) /\ content = State(view)
       /\ name = "candidate-interface.json" => IsFiniteSet(content.members)
Sound(files) == IsFiniteSet(DOMAIN files) /\ \A f \in DOMAIN files : SoundFile(f, files[f])

LEMMA SoundNothing == Sound(NoFiles) /\ Sound(<< >>)
  <1>1. DOMAIN NoFiles = {} /\ DOMAIN << >> = {}
    BY DEF NoFiles
  <1> QED
    BY <1>1, FS_EmptySet DEF Sound

LEMMA SoundOne ==
    ASSUME NEW name, NEW content, SoundFile(name, content)
    PROVE  Sound(name :> content)
  <1>1. DOMAIN (name :> content) = {name} /\ (name :> content)[name] = content
    BY DEF :>
  <1> QED
    BY <1>1, FS_Singleton DEF Sound

LEMMA SoundOver ==
    ASSUME NEW more, NEW files, Sound(more), Sound(files)
    PROVE  Sound(more @@ files)
  <1>1. /\ DOMAIN (more @@ files) = DOMAIN more \cup DOMAIN files
        /\ \A f \in DOMAIN (more @@ files) :
              (more @@ files)[f] = IF f \in DOMAIN more THEN more[f] ELSE files[f]
    BY DEF @@
  <1>2. IsFiniteSet(DOMAIN (more @@ files))
    BY <1>1, FS_Union DEF Sound
  <1>3. \A f \in DOMAIN (more @@ files) : SoundFile(f, (more @@ files)[f])
    BY <1>1 DEF Sound
  <1> QED
    BY <1>2, <1>3 DEF Sound

LEMMA SoundPart ==
    ASSUME NEW files, Sound(files), NEW some, DOMAIN some \subseteq DOMAIN files,
           \A f \in DOMAIN some : some[f] = files[f]
    PROVE  Sound(some)
  <1>1. IsFiniteSet(DOMAIN some)
    BY FS_Subset DEF Sound
  <1> QED
    BY <1>1 DEF Sound

LEMMA SoundOuts ==
    ASSUME NEW names, IsFiniteSet(names), NEW view,
           names \cap {"oracle-state.json", "candidate-state.json", "candidate-interface.json"} = {}
    PROVE  Sound(Outs(names, view))
  <1>1. DOMAIN Outs(names, view) = names
    BY DEF Outs
  <1>2. \A f \in names : SoundFile(f, Outs(names, view)[f])
    BY DEF SoundFile
  <1> QED
    BY <1>1, <1>2 DEF Sound

(* Whatever the script of a side writes is sound.                          *)
LEMMA SoundMachine == ASSUME NEW view PROVE Sound(Machine(view)) /\ Sound(Machine(view) @@ After(view))
  <1>1. Sound(Machine(view)) /\ Sound(After(view))
    BY SoundOne DEF Machine, After, SoundFile
  <1> QED
    BY <1>1, SoundOver

LEMMA SoundOutFiles ==
    ASSUME NEW view
    PROVE  /\ Sound(Outs({"i18n-de_DE.json", "i18n-zh_CN.json"}, view))
           /\ Sound(Outs({"drive-semantic.json"}, view))
           /\ Sound(Outs({"pkgbuild-before.txt", "pkgbuild-after.txt"}, view))
           /\ Sound(Outs(BootOuts, view)) /\ Sound(Outs(MakepkgOuts, view)) /\ Sound(Outs(PackagingOuts, view))
  <1>1. Sound(Outs({"i18n-de_DE.json", "i18n-zh_CN.json"}, view))
    BY FewElements, SoundOuts
  <1>2. Sound(Outs({"drive-semantic.json"}, view))
    BY FewElements, SoundOuts
  <1>3. Sound(Outs({"pkgbuild-before.txt", "pkgbuild-after.txt"}, view))
    BY FewElements, SoundOuts
  <1>4. Sound(Outs(BootOuts, view))
    <2>1. IsFiniteSet(BootOuts)
      BY FewElements DEF BootOuts
    <2> QED BY <2>1, SoundOuts DEF BootOuts
  <1>5. Sound(Outs(MakepkgOuts, view))
    <2>1. IsFiniteSet(MakepkgOuts)
      BY FewElements DEF MakepkgOuts
    <2> QED BY <2>1, SoundOuts DEF MakepkgOuts
  <1>6. Sound(Outs(PackagingOuts, view))
    <2>1. IsFiniteSet(PackagingOuts)
      BY FewElements DEF PackagingOuts
    <2> QED BY <2>1, SoundOuts DEF PackagingOuts
  <1> QED
    BY <1>1, <1>2, <1>3, <1>4, <1>5, <1>6

LEMMA SoundInterface ==
    ASSUME NEW view
    PROVE  Sound("candidate-interface.json" :> [members |-> Members(view)])
  <1> DEFINE a == {Member("mode", IF view.odd = "signature" THEN "s" ELSE "u", view.odd = "access")}
             b == {Member("more", "s", FALSE)}
             content == [members |-> Members(view)]
  <1>1. IsFiniteSet(a) /\ IsFiniteSet(b) /\ IsFiniteSet({})
    BY FewElements, FS_EmptySet
  <1>2. Members(view) = (IF view.odd = "without member" THEN {} ELSE a)
                        \cup (IF view.odd = "with member" THEN b ELSE {})
    BY DEF Members
  <1> HIDE DEF a, b
  <1>3. IsFiniteSet(Members(view))
    BY <1>1, <1>2, FS_Union
  <1>4. content.members = Members(view)
    OBVIOUS
  <1> HIDE DEF content
  <1>5. SoundFile("candidate-interface.json", content)
    BY <1>3, <1>4 DEF SoundFile
  <1> QED
    BY <1>5, SoundOne DEF content

LEMMA SoundTree == ASSUME NEW view, Viewed(view) PROVE Sound("oracle-state.json" :> Tree(view))
  <1>1. SoundFile("oracle-state.json", Tree(view))
    BY DEF SoundFile
  <1> QED
    BY <1>1, SoundOne
LEMMA SoundState == ASSUME NEW view, Viewed(view) PROVE Sound("candidate-state.json" :> State(view))
  <1>1. SoundFile("candidate-state.json", State(view))
    BY DEF SoundFile
  <1> QED
    BY <1>1, SoundOne

SpecialFiles == {"oracle-state.json", "candidate-state.json", "candidate-interface.json"}
LEMMA SoundOther ==
    ASSUME NEW name, name \notin SpecialFiles, NEW content
    PROVE  Sound(name :> content)
  BY SoundOne DEF SoundFile, SpecialFiles

LEMMA SoundOracleScript ==
    ASSUME NEW modes, NEW view, Viewed(view)
    PROVE  Sound(OracleScript(modes, view))
  <1> DEFINE m == Machine(view) @@ After(view)
             a1 == "terminal-matrix.json" :> ScenariosFile(view)
             c2 == "close-outcome.json" :> [exit |-> IF view.odd = "exit" THEN "clean" ELSE "crash"]
             o3 == Outs({"i18n-de_DE.json", "i18n-zh_CN.json"}, view)
             o4 == Outs({"drive-semantic.json"}, view)
             i5 == "introspect.txt" :> [members |-> Members(view)]
             p5 == "oracle-properties.json" :> [values |-> Values(view)]
             o6 == Outs(BootOuts, view)
             t6 == RawTrace(modes) :> [text |-> "oracle's"]
             o7 == Outs(MakepkgOuts, view)
             o8 == Outs(PackagingOuts, view)
             s9 == "oracle-state.json" :> Tree(view)
             x9 == IF "mutate" \in modes THEN Outs({"pkgbuild-before.txt", "pkgbuild-after.txt"}, view)
                   ELSE IF modes \cap {"configure", "transaction"} # {}
                        THEN "oracle-transaction.json" :> Chain(view) ELSE << >>
  <1>1. OracleScript(modes, view) \in
          {a1, m @@ c2, m @@ o3, m @@ o4, i5 @@ p5, o6 @@ t6, o7, o8, m @@ s9 @@ x9}
    BY DEF OracleScript
  <1>2. Sound(m)
    BY SoundMachine
  <1>3. Sound(o3) /\ Sound(o4) /\ Sound(o6) /\ Sound(o7) /\ Sound(o8)
    BY SoundOutFiles
  <1>4. Sound(a1)
    BY SoundOther DEF SpecialFiles
  <1>5. Sound(c2)
    BY SoundOther DEF SpecialFiles
  <1>6. Sound(i5)
    BY SoundOther DEF SpecialFiles
  <1>7. Sound(p5)
    BY SoundOther DEF SpecialFiles
  <1>8. Sound(t6)
    BY SoundOther DEF SpecialFiles, RawTrace
  <1>9. Sound(s9)
    BY SoundTree
  <1>10. Sound(x9)
    <2>1. Sound("oracle-transaction.json" :> Chain(view))
      BY SoundOther DEF SpecialFiles
    <2> QED BY <2>1, SoundOutFiles, SoundNothing
  <1> HIDE DEF m, a1, c2, o3, o4, i5, p5, o6, t6, o7, o8, s9, x9
  <1>11. Sound(m @@ c2) /\ Sound(m @@ o3) /\ Sound(m @@ o4) /\ Sound(i5 @@ p5) /\ Sound(o6 @@ t6)
    BY <1>2, <1>3, <1>5, <1>6, <1>7, <1>8, SoundOver
  <1>12. Sound(m @@ s9 @@ x9)
    <2>1. Sound(m @@ s9)
      BY <1>2, <1>9, SoundOver
    <2> QED BY <1>10, <2>1, SoundOver
  <1> QED
    BY <1>1, <1>3, <1>4, <1>11, <1>12

LEMMA SoundCandidateScript ==
    ASSUME NEW modes, NEW view, Viewed(view)
    PROVE  Sound(CandidateScript(modes, view))
  <1> DEFINE m == Machine(view)
             a == After(view)
             c1 == "close-outcome.json" :> [exit |-> IF view.odd = "exit" THEN "crash" ELSE "clean"]
             i2 == "candidate-interface.json" :> [members |-> Members(view)]
             r2 == "candidate-readback.json" :> [values |-> Values(view)]
             o3 == Outs(BootOuts, view)
             t3 == RawTrace(modes) :> [text |-> "candidate's"]
             s4 == "candidate-state.json" :> State(view)
             b4 == "candidate-pkgbuild-before.txt" :> Text(view, "pkgbuild-before.txt")
             a4 == "candidate-pkgbuild-after.txt" :> Text(view, "pkgbuild-after.txt")
             n4 == "candidate-transaction.json" :> Chain(view)
             x4 == IF "mutate" \in modes THEN b4 @@ a4
                   ELSE IF modes \cap {"configure", "transaction"} # {} THEN n4 ELSE << >>
             o5 == OracleScript(modes, view)
  <1>1. CandidateScript(modes, view) \in {m @@ a @@ c1, i2 @@ r2, o3 @@ t3, o5, m @@ s4 @@ x4}
    BY DEF CandidateScript
  <1>2. Sound(m) /\ Sound(m @@ a)
    BY SoundMachine
  <1>3. Sound(o3) /\ Sound(o5)
    BY SoundOutFiles, SoundOracleScript
  <1>4. Sound(c1)
    BY SoundOther DEF SpecialFiles
  <1>5. Sound(i2)
    BY SoundInterface
  <1>6. Sound(r2)
    BY SoundOther DEF SpecialFiles
  <1>7. Sound(t3)
    BY SoundOther DEF SpecialFiles, RawTrace
  <1>8. Sound(s4)
    BY SoundState
  <1>9. Sound(b4) /\ Sound(a4) /\ Sound(n4)
    BY SoundOther DEF SpecialFiles
  <1>x. x4 \in {b4 @@ a4, n4, << >>}
    OBVIOUS
  <1> HIDE DEF m, a, c1, i2, r2, o3, t3, s4, b4, a4, n4, x4, o5
  <1>10. Sound(m @@ a @@ c1) /\ Sound(i2 @@ r2) /\ Sound(o3 @@ t3)
    BY <1>2, <1>3, <1>4, <1>5, <1>6, <1>7, SoundOver
  <1>11. Sound(x4)
    BY <1>9, <1>x, SoundOver, SoundNothing
  <1>12. Sound(m @@ s4 @@ x4)
    <2>1. Sound(m @@ s4)
      BY <1>2, <1>8, SoundOver
    <2> QED BY <1>11, <2>1, SoundOver
  <1> QED
    BY <1>1, <1>3, <1>10, <1>12

(* A view of a side shows no rows or one of the kernel lists.              *)
LEMMA ViewsAre ==
    ASSUME NEW side, NEW view \in Views(side)
    PROVE  \E rows, layout, odd : /\ view = View(rows, layout, odd)
                                  /\ rows = << >> \/ rows \in RowLists
                                  /\ layout = "nested" => rows = << >> \/ "nested" \in Layouts
  <1>1. CASE \E o : view = View(<< >>, "headers", o)
    BY <1>1
  <1>2. CASE \E rows \in RowLists, layout \in Layouts : view = View(rows, layout, "nothing")
    BY <1>2
  <1>3. CASE \E rows \in RowLists, o \in {"nothing", "companions"} : view = View(rows, "headers", o)
    BY <1>3
  <1> QED
    BY <1>1, <1>2, <1>3 DEF Views

LEMMA ShownViews ==
    ASSUME NEW side, NEW view \in Views(side)
    PROVE  Shown(view)
  <1>1. PICK rows, layout, odd : /\ view = View(rows, layout, odd)
                                 /\ rows = << >> \/ rows \in RowLists
                                 /\ layout = "nested" => rows = << >> \/ "nested" \in Layouts
    BY ViewsAre
  <1>2. view.rows = rows /\ view.layout = layout
    BY <1>1 DEF View
  <1>3. CASE rows = << >>
    <2>1. DOMAIN view.rows = {} /\ view.rows = << >>
      BY <1>2, <1>3
    <2>2. << >> \in Seq({<< >>[i] : i \in DOMAIN << >>})
      OBVIOUS
    <2> QED
      BY <2>1, <2>2 DEF Shown
  <1>4. CASE rows # << >>
    <2>1. rows \in RowLists /\ (view.layout = "nested" => "nested" \in Layouts)
      BY <1>1, <1>2, <1>4
    <2>2. rows \in Seq({rows[i] : i \in DOMAIN rows})
      BY <2>1, RowListsAssumption, Zenon
    <2>3. \A i \in DOMAIN rows : IsRow(rows[i]) /\ ("nested" \in Layouts => ToldApart(rows[i]))
      BY <2>1, RowListsAssumption, Zenon
    <2> QED
      BY <1>2, <2>1, <2>2, <2>3, Zenon DEF Shown
  <1> QED
    BY <1>3, <1>4

LEMMA ViewedViews == ASSUME NEW side, NEW view \in Views(side) PROVE Viewed(view)
  <1>1. PICK rows, layout, odd : view = View(rows, layout, odd) /\ (rows = << >> \/ rows \in RowLists)
    BY ViewsAre
  <1>2. view.rows = rows
    BY <1>1 DEF View
  <1>3. rows = << >> => DOMAIN rows = {}
    OBVIOUS
  <1>4. \A i \in DOMAIN rows : IsFiniteSet(DOMAIN Companions(rows[i].raw))
    BY <1>1, <1>3, CompanionsAssumption, Zenon
  <1> QED
    BY <1>2, <1>4, ShownViews DEF Viewed

LEMMA ViewedPlain == Viewed(Plain)
  <1>1. Plain.rows = << >> /\ DOMAIN Plain.rows = {}
    BY DEF Plain, View
  <1>2. << >> \in Seq({<< >>[i] : i \in DOMAIN << >>})
    OBVIOUS
  <1> QED
    BY <1>1, <1>2 DEF Viewed, Shown

LEMMA SoundScript == ASSUME NEW side, NEW view, Viewed(view) PROVE Sound(Script(side, view))
  BY SoundOracleScript, SoundCandidateScript DEF Script

(* What a check after a reboot leaves is sound, as long as there was one   *)
(* to come.                                                                *)
LEMMA SoundChecks ==
    ASSUME NEW modes, NEW view, NEW up, NEW n \in 1..3
    PROVE  Sound(BootCheck(modes, view, n)) /\ Sound(BootAttempt(up))
  <1> DEFINE name == IF "boot_drift" \in modes
                     THEN <<"boot-status-1.txt", "boot-status-2.txt", "boot-status-3.txt">>[n]
                     ELSE "boot-status.txt"
  <1>1. name \in {"boot-status-1.txt", "boot-status-2.txt", "boot-status-3.txt", "boot-status.txt"}
    <2>1. n \in {1, 2, 3}
      OBVIOUS
    <2> QED BY <2>1
  <1>2. BootCheck(modes, view, n) = name :> Text(view, "boot-status.txt")
    BY DEF BootCheck
  <1> HIDE DEF name
  <1>3. Sound(name :> Text(view, "boot-status.txt"))
    <2>1. name \notin SpecialFiles
      BY <1>1 DEF SpecialFiles
    <2> QED BY <2>1, SoundOther
  <1>4. Sound(BootAttempt(up))
    BY SoundOther DEF BootAttempt, SpecialFiles
  <1> QED
    BY <1>2, <1>3, <1>4

(***************************************************************************)
(* The types of the state, and what they rest on: the residuals that the   *)
(* runner carries, and what is in the files it finds them in.              *)
(***************************************************************************)
RunnerTyped ==
    /\ runner.how \in {"", "vm", "plain"} /\ AreResiduals(runner.residuals)
    /\ runner.pc # "witness" => runner.left \in 0..4
    /\ runner.pc = "release" => runner.left \in 1..4
    /\ runner.pc = "reboot" => runner.left \in 0..Reboots(case.modes)
FilesTyped == DOMAIN dirs = Sides /\ Sound(share) /\ \A side \in Sides : Sound(dirs[side])
LedgerTyped(l) == IsWhole(l) => \A r \in l.residuals : r[2] \in Nat
EvidenceTyped(e) ==
    IsWhole(e) => /\ e.result \in {"pass", "fail"} /\ (e.result = "pass" <=> e.count = 0)
                  /\ \A p \in DOMAIN e.artifacts : p[1] \in Sides
ManifestTyped(m) == IsWhole(m) => m.pass + m.fail + m.unrecorded = 1
ReleaseTyped == DOMAIN release = Range(ReleaseFiles) /\ ManifestTyped(release["MANIFEST.json"])
BudgetTyped == \A counter \in DOMAIN budget : budget[counter] \in Nat
TypeInv ==
    /\ case \in Cases /\ missing \in {"nothing"} \cup Required(case.modes)
    /\ RunnerTyped /\ FilesTyped /\ Sound(stale) /\ LedgerTyped(ledger) /\ EvidenceTyped(evidence) /\ ReleaseTyped /\ BudgetTyped

LEMMA TypeInvIsEnough == TypeInv /\ RunnerShape => TypeOK
  BY DEF TypeInv, RunnerTyped, LedgerTyped, EvidenceTyped, ReleaseTyped, ManifestTyped, BudgetTyped,
         RunnerShape, TypeOK

(* The runner at rest is typed, and so is one that goes on at a new step   *)
(* of the same run.                                                        *)
LEMMA IdleTypedNow == runner = Idle => RunnerTyped
  <1> SUFFICES ASSUME runner = Idle PROVE RunnerTyped
    OBVIOUS
  <1>1. runner.pc = "idle" /\ runner.left = 0 /\ runner.how = "" /\ runner.residuals = {}
    BY IdleShape
  <1>2. AreResiduals(runner.residuals)
    BY <1>1, NoResiduals
  <1>3. runner.left \in 0..4
    <2>1. runner.left = 0
      BY IdleShape
    <2> QED BY <2>1
  <1> QED
    BY <1>1, <1>2, <1>3, Zenon DEF RunnerTyped
LEMMA IdleTyped == runner' = Idle => RunnerTyped'
  <1> SUFFICES ASSUME runner' = Idle PROVE RunnerTyped'
    OBVIOUS
  <1>1. runner'.pc = "idle" /\ runner'.left = 0 /\ runner'.how = "" /\ runner'.residuals = {}
    BY IdleShape
  <1>2. AreResiduals(runner'.residuals)
    BY <1>1, NoResiduals
  <1>3. runner'.left \in 0..4
    <2>1. runner'.left = 0
      BY IdleShape
    <2> QED BY <2>1
  <1> QED
    BY <1>1, <1>2, <1>3, Zenon DEF RunnerTyped

LEMMA TypeInit == Init => TypeInv
  <1> SUFFICES ASSUME Init PROVE TypeInv
    OBVIOUS
  <1>1. case \in Cases /\ missing \in {"nothing"} \cup Required(case.modes)
    BY DEF Init
  <1>2. RunnerTyped
    BY IdleTypedNow DEF Init
  <1>3. FilesTyped /\ Sound(stale)
    <2>1. Sound("leftover.txt" :> [text |-> "another court's"])
      BY SoundOther DEF SpecialFiles
    <2>2. Sound(share)
      BY <2>1, SoundNothing DEF Init
    <2> QED BY <2>2, SoundNothing DEF Init, FilesTyped
  <1>4. LedgerTyped(ledger) /\ EvidenceTyped(evidence)
    BY DEF Init, LedgerTyped, EvidenceTyped, IsWhole
  <1>5. ReleaseTyped
    <2>1. "MANIFEST.json" \in Range(ReleaseFiles)
      BY DEF Range, ReleaseFiles
    <2>2. DOMAIN release = Range(ReleaseFiles)
      BY DEF Init
    <2>3. release["MANIFEST.json"] = None
      BY <2>1 DEF Init
    <2> QED BY <2>2, <2>3 DEF ReleaseTyped, ManifestTyped, IsWhole
  <1>6. BudgetTyped
    <2>1. budget \in Budgets(case)
      BY DEF Init
    <2> QED BY <1>1, <2>1, BudgetsAssumption, Zenon DEF BudgetTyped
  <1> QED
    BY <1>1, <1>2, <1>3, <1>4, <1>5, <1>6 DEF TypeInv

LEMMA SpentTyped ==
    ASSUME BudgetTyped, NEW counter, budget[counter] > 0, budget' = Spent(counter)
    PROVE  BudgetTyped'
  <1>1. DOMAIN budget' = DOMAIN budget /\ \A c \in DOMAIN budget :
           budget'[c] = IF c = counter THEN budget[counter] - 1 ELSE budget[c]
    BY DEF Spent
  <1> QED
    BY <1>1 DEF BudgetTyped

LEMMA RecordTyped ==
    ASSUME NEW residuals, AreResiduals(residuals), NEW how, NEW d
    PROVE  EvidenceTyped(EvidenceRecord(residuals, how, SideArtifacts(d)))
  <1> DEFINE e == EvidenceRecord(residuals, how, SideArtifacts(d))
             a == SideArtifacts(d)
  <1>1. /\ e.result = IF residuals = {} THEN "pass" ELSE "fail"
        /\ e.count = Cardinality(residuals) /\ e.artifacts = a
    BY DEF EvidenceRecord
  <1>2. Cardinality(residuals) = 0 <=> residuals = {}
    BY FS_EmptySet DEF AreResiduals
  <1>3. \A p \in DOMAIN a : p[1] \in Sides
    <2>1. DOMAIN a = {<<"oracle", f>> : f \in DOMAIN d["oracle"]}
                      \cup {<<"candidate", f>> : f \in DOMAIN d["candidate"]}
      BY SideArtifactsAre
    <2> QED BY <2>1 DEF Sides
  <1> HIDE DEF e, a
  <1>4. EvidenceTyped(e)
    BY <1>1, <1>2, <1>3 DEF EvidenceTyped
  <1> QED
    BY <1>4 DEF e

(* The manifest counts the one court under the result of its receipt.      *)
ManifestOf(receipt) ==
    [root |-> receipt, pass |-> IF receipt.result = "pass" THEN 1 ELSE 0,
     fail |-> IF receipt.result = "fail" THEN 1 ELSE 0,
     unrecorded |-> IF receipt.result = "unrecorded" THEN 1 ELSE 0]
LEMMA AssembledManifest == \A receipt : Assemble(receipt)["MANIFEST.json"] = ManifestOf(receipt)
  <1>1. "MANIFEST.json" \in Range(ReleaseFiles)
    BY DEF Range, ReleaseFiles
  <1> QED
    BY <1>1 DEF Assemble, ManifestOf

LEMMA AssembledTyped ==
    ASSUME NEW d, NEW l, NEW e, EvidenceTyped(e)
    PROVE  ManifestTyped(Assemble(CourtReceipt(d, l, e))["MANIFEST.json"])
  <1> DEFINE receipt == CourtReceipt(d, l, e)
             m == ManifestOf(receipt)
  <1>1. receipt.result \in {"pass", "fail", "unrecorded"}
    BY DEF CourtReceipt, EvidenceTyped
  <1>2. Assemble(receipt)["MANIFEST.json"] = m
    BY AssembledManifest
  <1> HIDE DEF receipt
  <1>3. m.pass + m.fail + m.unrecorded = 1
    BY <1>1 DEF ManifestOf
  <1> QED
    BY <1>2, <1>3 DEF ManifestTyped, receipt

(* What one action does to the files; the other parts are unchanged.       *)
LEMMA FilesKept == FilesTyped /\ UNCHANGED <<dirs, share>> => FilesTyped'
  BY DEF FilesTyped

LEMMA FilesWritten ==
    ASSUME FilesTyped, NEW files, Sound(files), share' = files @@ share, UNCHANGED dirs
    PROVE  FilesTyped'
  <1>1. Sound(files @@ share)
    BY SoundOver DEF FilesTyped
  <1> QED
    BY <1>1 DEF FilesTyped

LEMMA FilesCopied ==
    ASSUME FilesTyped, NEW files, Sound(files), NEW side \in Sides,
           dirs' = [dirs EXCEPT ![side] = files @@ @], UNCHANGED share
    PROVE  FilesTyped'
  <1>1. Sound(files @@ dirs[side])
    BY SoundOver DEF FilesTyped
  <1> DEFINE after == files @@ dirs[side]
  <1>2. dirs' = [dirs EXCEPT ![side] = after]
    OBVIOUS
  <1> HIDE DEF after
  <1>3. DOMAIN dirs' = Sides /\ \A other \in Sides : dirs'[other] = IF other = side THEN after ELSE dirs[other]
    BY <1>2 DEF FilesTyped
  <1> QED
    BY <1>1, <1>3 DEF FilesTyped, after

LEMMA FilesRenamed ==
    ASSUME FilesTyped, RenamesResidual
    PROVE  FilesTyped'
  <1> DEFINE mine == dirs.candidate
             names == (DOMAIN mine \cup {"candidate-residual.json"}) \ {"residual.json"}
             renamed == [f \in names |-> IF f = "candidate-residual.json" THEN mine["residual.json"] ELSE mine[f]]
  <1>1. dirs' = dirs \/ dirs' = [dirs EXCEPT !.candidate = renamed]
    BY DEF RenamesResidual
  <1>2. share' = share
    BY DEF RenamesResidual
  <1>3. Sound(mine)
    BY DEF FilesTyped, Sides
  <1>4. Sound(renamed)
    <2>1. IsFiniteSet({"candidate-residual.json"})
      BY FS_Singleton
    <2>2. IsFiniteSet(DOMAIN mine)
      BY <1>3 DEF Sound
    <2>3. IsFiniteSet(DOMAIN mine \cup {"candidate-residual.json"})
      BY <2>1, <2>2, FS_Union
    <2>4. IsFiniteSet(names)
      BY <2>3, FS_Subset
    <2>5. \A f \in names : SoundFile(f, renamed[f])
      <3> SUFFICES ASSUME NEW f \in names PROVE SoundFile(f, renamed[f])
        OBVIOUS
      <3>1. CASE f = "candidate-residual.json"
        BY <3>1 DEF SoundFile
      <3>2. CASE f # "candidate-residual.json"
        <4>1. f \in DOMAIN mine /\ renamed[f] = mine[f]
          BY <3>2
        <4> QED BY <1>3, <4>1 DEF Sound
      <3> QED BY <3>1, <3>2
    <2>6. DOMAIN renamed = names
      OBVIOUS
    <2> HIDE DEF renamed, names
    <2> QED BY <2>4, <2>5, <2>6 DEF Sound
  <1> HIDE DEF renamed
  <1>5. CASE dirs' = [dirs EXCEPT !.candidate = renamed]
    <2>1. DOMAIN dirs' = Sides /\ dirs'["candidate"] = renamed /\ dirs'["oracle"] = dirs["oracle"]
      BY <1>5 DEF FilesTyped, Sides
    <2> QED BY <1>2, <1>4, <2>1 DEF FilesTyped, Sides
  <1> QED
    BY <1>1, <1>2, <1>5 DEF FilesTyped

LEMMA SoundInCorpus ==
    ASSUME NEW file \in Range(CorpusFiles), NEW content
    PROVE  Sound(file :> content)
  BY CorpusFilesAssumption, SoundOther DEF SpecialFiles

LEMMA FilesOfTheCorpus ==
    ASSUME FilesTyped, RunnerShape, runner.pc = "witness", NEW content,
           dirs' = [dirs EXCEPT ![runner.side] = WitnessFile :> content @@ @], UNCHANGED share
    PROVE  FilesTyped'
  <1> DEFINE files == WitnessFile :> content
  <1>1. Sound(files)
    BY WitnessFileIs, SoundInCorpus
  <1>2. dirs' = [dirs EXCEPT ![runner.side] = files @@ @]
    OBVIOUS
  <1> HIDE DEF files
  <1> QED
    BY <1>1, <1>2, FilesCopied DEF RunnerShape

(* A copy that is cut short leaves a file that does not parse.             *)
LEMMA FilesCutShort ==
    ASSUME FilesTyped, RunnerShape, UNCHANGED <<dirs, records>> \/ CutsShort, UNCHANGED share
    PROVE  FilesTyped'
  <1>1. CASE UNCHANGED dirs
    BY <1>1, FilesKept
  <1>3. CASE runner.pc = "witness" /\ dirs' = [dirs EXCEPT ![runner.side] = WitnessFile :> Cut @@ @]
    BY <1>3, FilesOfTheCorpus
  <1>2. CASE dirs' # dirs /\ runner.pc # "witness"
    <2> PICK f \in DOMAIN share :
             \E copied \in {NoFiles, Restrict(share, DOMAIN share \ {f})} :
                 dirs' = [dirs EXCEPT ![runner.side] = f :> Cut @@ copied @@ @]
      BY <1>2 DEF CutsShort
    <2>1. PICK copied \in {NoFiles, Restrict(share, DOMAIN share \ {f})} :
             dirs' = [dirs EXCEPT ![runner.side] = f :> Cut @@ copied @@ @]
      OBVIOUS
    <2>2. Sound(copied)
      <3>1. CASE copied = NoFiles
        BY <3>1, SoundNothing
      <3>2. CASE copied = Restrict(share, DOMAIN share \ {f})
        <4>1. DOMAIN copied \subseteq DOMAIN share /\ \A x \in DOMAIN copied : copied[x] = share[x]
          BY <3>2 DEF Restrict
        <4> QED BY <4>1, SoundPart DEF FilesTyped
      <3> QED BY <3>1, <3>2
    <2>3. Sound(f :> Cut)
      BY SoundOne DEF SoundFile
    <2> DEFINE files == f :> Cut @@ copied
    <2>4. Sound(files)
      BY <2>2, <2>3, SoundOver
    <2>5. dirs' = [dirs EXCEPT ![runner.side] = files @@ @]
      BY <2>1
    <2> HIDE DEF files
    <2> QED BY <2>4, <2>5, FilesCopied DEF RunnerShape
  <1> QED
    BY <1>1, <1>2, <1>3 DEF CutsShort

LEMMA RebootsFew == Reboots(case.modes) \in 0..3
  BY DEF Reboots

(* A machine that goes on after its command, and a directory that cannot   *)
(* be removed, leave some of what is sound.                                *)
LEMMA SoundFew ==
    ASSUME NEW files, Sound(files), NEW some \in Few(files)
    PROVE  Sound(some)
  <1>1. PICK fs \in SUBSET DOMAIN files : some = Restrict(files, fs)
    BY DEF Few
  <1>2. DOMAIN some \subseteq DOMAIN files /\ \A f \in DOMAIN some : some[f] = files[f]
    BY <1>1 DEF Restrict
  <1> QED
    BY <1>2, SoundPart

LEMMA OutlivesSoundly ==
    ASSUME case \in Cases, RunnerTyped, RunnerShape, Sound(stale), NEW left \in Outlives
    PROVE  Sound(left)
  <1>1. CASE left \in {stale, NoFiles}
    BY <1>1, SoundNothing
  <1>2. CASE runner.pc = "script" /\ left \notin {stale, NoFiles}
    <2>1. left \in UNION {Few(Script(runner.side, view)) : view \in Views(runner.side)}
      BY <1>2 DEF Outlives
    <2>2. PICK view \in Views(runner.side) : left \in Few(Script(runner.side, view))
      BY <2>1
    <2>3. Sound(Script(runner.side, view))
      BY <2>2, ViewedViews, SoundScript
    <2> QED
      BY <2>2, <2>3, SoundFew
  <1>3. CASE runner.pc = "reboot" /\ runner.left > 0 /\ left \notin {stale, NoFiles}
    <2> DEFINE n == Reboots(case.modes) + 1 - runner.left
    <2>1. n \in 1..3
      <3>1. runner.left > 0 /\ runner.left \in 0..Reboots(case.modes)
        BY <1>3 DEF RunnerTyped
      <3> QED BY <3>1, RebootsFew
    <2>2. left \in Few(BootCheck(case.modes, seen[runner.side].view, n))
      BY <1>3 DEF Outlives
    <2> HIDE DEF n
    <2>3. Sound(BootCheck(case.modes, seen[runner.side].view, n))
      BY <2>1, SoundChecks
    <2> QED
      BY <2>2, <2>3, SoundFew
  <1> QED
    BY <1>1, <1>2, <1>3 DEF Outlives

(* The runner goes on with what it carries.                                *)
LEMMA StepTyped ==
    ASSUME RunnerTyped, runner'.left = runner.left, runner'.how = runner.how,
           runner'.residuals = runner.residuals, runner.pc # "witness",
           runner'.pc \notin {"release", "reboot"}
    PROVE  RunnerTyped'
  BY Zenon DEF RunnerTyped

LEMMA WitnessTyped ==
    ASSUME runner'.how \in {"", "vm", "plain"}, AreResiduals(runner'.residuals), runner'.pc = "witness"
    PROVE  RunnerTyped'
  <1>1. runner'.pc # "release" /\ runner'.pc # "reboot"
    OBVIOUS
  <1> QED
    BY <1>1, Zenon DEF RunnerTyped

LEMMA StartsTyped ==
    ASSUME runner'.left = Idle.left, runner'.how \in {"vm", "plain"}, AreResiduals(runner'.residuals),
           runner'.pc \notin {"release", "reboot"}
    PROVE  RunnerTyped'
  <1>1. runner'.left \in 0..4
    <2>1. runner'.left = 0
      BY IdleShape
    <2> QED BY <2>1
  <1> QED
    BY <1>1, Zenon DEF RunnerTyped

LEMMA GoesOnTyped ==
    ASSUME RunnerTyped, runner'.left \in 0..4, runner'.left \in 0..Reboots(case'.modes),
           runner'.how = runner.how, runner'.residuals = runner.residuals, runner'.pc = "reboot"
    PROVE  RunnerTyped'
  <1>1. runner'.pc # "release"
    OBVIOUS
  <1> QED
    BY <1>1, Zenon DEF RunnerTyped

LEMMA OneOfFour == \A n \in 1..4 : n \in 0..4
  OBVIOUS
LEMMA GoesOnReleasing ==
    ASSUME runner'.left \in 1..4, runner'.how \in {"", "vm", "plain"}, AreResiduals(runner'.residuals),
           runner'.pc = "release"
    PROVE  RunnerTyped'
  <1>1. runner'.left \in 0..4
    BY OneOfFour, Zenon
  <1>2. runner'.pc # "reboot"
    OBVIOUS
  <1> QED
    BY <1>1, <1>2, Zenon DEF RunnerTyped

LEMMA RunnerKept == RunnerTyped /\ UNCHANGED <<runner, case>> => RunnerTyped'
  BY DEF RunnerTyped

(* What the comparison found is what the runner goes on with.              *)
ComparesTyped == Compares => AreResiduals(runner'.residuals)

LEMMA RunnerStaysTyped ==
    ASSUME RunnerTyped, RunnerShape, FilesTyped, [Next]_vars, ComparesTyped
    PROVE  RunnerTyped'
  <1>c. case' = case
    BY DEF Next, vars, Builds, VmStarts, EmptiesOut, StaleMachineWrites, MachineStarts, ScriptRuns,
           MachineFails, RebootsAndChecks, CopiesOut, RenamesResidual, Compares, WitnessStarts,
           WitnessWrites, PlainRun, WritesLedger, WritesEvidence, StartsRelease, WritesReleaseFile,
           Killed
  <1>1. CASE UNCHANGED runner
    BY <1>c, <1>1, RunnerKept
  <1>2. CASE runner' = Idle
    BY <1>2, IdleTyped
  <1>3. CASE VmStarts /\ runner' # runner
    <2>1. /\ runner'.pc = "start" /\ runner'.how = "vm"
          /\ runner'.left = Idle.left /\ runner'.residuals = Idle.residuals
      BY <1>3, IdleShape DEF VmStarts
    <2>2. AreResiduals(runner'.residuals)
      BY <2>1, IdleShape, NoResiduals
    <2> QED BY <2>1, <2>2, StartsTyped
  <1>4. CASE EmptiesOut \/ MachineStarts
    <2>1. /\ runner'.left = runner.left /\ runner'.how = runner.how /\ runner'.residuals = runner.residuals
          /\ runner'.pc \in {"cleanup", "script"} /\ runner.pc \in {"start", "cleanup"}
      BY <1>4 DEF EmptiesOut, MachineStarts, RunnerShape
    <2> QED BY <2>1, StepTyped
  <1>14. CASE WitnessStarts
    <2>1. /\ runner'.pc = "witness" /\ runner'.how = Idle.how /\ runner'.residuals = Idle.residuals
      BY <1>14, IdleShape DEF WitnessStarts
    <2>2. AreResiduals(runner'.residuals) /\ runner'.how = ""
      BY <2>1, IdleShape, NoResiduals
    <2> QED BY <2>1, <2>2, WitnessTyped
  <1>15. CASE WitnessWrites /\ runner' # Idle
    <2>1. runner'.pc = "witness" /\ runner'.how = runner.how /\ runner'.residuals = runner.residuals
      BY <1>15 DEF WitnessWrites, RunnerShape
    <2>2. runner'.how \in {"", "vm", "plain"} /\ AreResiduals(runner'.residuals)
      BY <2>1 DEF RunnerTyped
    <2> QED BY <2>1, <2>2, WitnessTyped
  <1>5. CASE ScriptRuns
    <2>1. /\ runner'.left = Reboots(case.modes) /\ runner'.how = runner.how
          /\ runner'.residuals = runner.residuals /\ runner'.pc = "reboot"
      BY <1>5 DEF ScriptRuns, RunnerShape
    <2>2. runner'.left \in 0..4 /\ runner'.left \in 0..Reboots(case'.modes)
      BY <1>c, <2>1, RebootsFew
    <2> QED BY <2>1, <2>2, GoesOnTyped
  <1>6. CASE RebootsAndChecks
    <2>1. /\ runner'.left = runner.left - 1 /\ runner'.how = runner.how
          /\ runner'.residuals = runner.residuals /\ runner'.pc = "reboot"
      BY <1>6 DEF RebootsAndChecks, RunnerShape
    <2>2. runner.left > 0 /\ runner.left \in 0..Reboots(case.modes)
      BY <1>6 DEF RebootsAndChecks, RunnerTyped
    <2>3. runner'.left \in 0..4 /\ runner'.left \in 0..Reboots(case'.modes)
      BY <1>c, <2>1, <2>2, RebootsFew
    <2> QED BY <2>1, <2>3, GoesOnTyped
  <1>7. CASE CopiesOut
    <2>1. /\ runner'.left = runner.left /\ runner'.how = runner.how /\ runner'.residuals = runner.residuals
          /\ runner'.pc \in {"start", "rename"} /\ runner.pc = "reboot"
      BY <1>7 DEF CopiesOut, RunnerShape
    <2> QED BY <2>1, StepTyped
  <1>8. CASE RenamesResidual
    <2>1. /\ runner'.left = runner.left /\ runner'.how = runner.how /\ runner'.residuals = runner.residuals
          /\ runner'.pc = "compare" /\ runner.pc = "rename"
      BY <1>8 DEF RenamesResidual, RunnerShape
    <2> QED BY <2>1, StepTyped
  <1>9. CASE Compares /\ runner' # Idle
    <2>1. runner' = [runner EXCEPT !.pc = "ledger",
                                   !.residuals = CompareVm(dirs, case.modes, case.model).residuals]
      BY <1>9 DEF Compares, Ends
    <2>2. /\ runner'.left = runner.left /\ runner'.how = runner.how /\ runner'.pc = "ledger"
          /\ runner.pc = "compare"
      BY <1>9, <2>1 DEF Compares, RunnerShape
    <2>3. AreResiduals(runner'.residuals)
      BY <1>9 DEF ComparesTyped
    <2> QED BY <2>2, <2>3, Zenon DEF RunnerTyped
  <1>10. CASE PlainRun
    <2> DEFINE residuals == CaseCompare(dirs, case.ignore).residuals
    <2>1. AreResiduals(residuals)
      BY CaseResiduals DEF FilesTyped, Sound, Sides
    <2> HIDE DEF residuals
    <2>2. runner' = [Idle EXCEPT !.pc = IF residuals = {} THEN "evidence" ELSE "ledger",
                                 !.how = "plain", !.residuals = residuals]
      BY <1>10 DEF PlainRun, residuals
    <2>3. /\ runner'.pc \in {"evidence", "ledger"} /\ runner'.how = "plain"
          /\ runner'.left = Idle.left /\ runner'.residuals = residuals
      BY <2>2, IdleShape
    <2> QED BY <2>1, <2>3, StartsTyped
  <1>11. CASE WritesLedger /\ runner' # Idle
    <2>1. /\ runner'.left = runner.left /\ runner'.how = runner.how /\ runner'.residuals = runner.residuals
          /\ runner'.pc = "evidence" /\ runner.pc = "ledger"
      BY <1>11 DEF WritesLedger, RunnerShape
    <2> QED BY <2>1, StepTyped
  <1>12. CASE StartsRelease
    <2>1. /\ runner'.left = 1 /\ runner'.pc = "release"
          /\ runner'.how = Idle.how /\ runner'.residuals = Idle.residuals
      BY <1>12, IdleShape DEF StartsRelease
    <2>2. AreResiduals(runner'.residuals) /\ runner'.how = ""
      BY <2>1, IdleShape, NoResiduals
    <2>3. runner'.left \in 1..4
      BY <2>1
    <2> QED BY <2>1, <2>2, <2>3, GoesOnReleasing
  <1>13. CASE WritesReleaseFile /\ runner' # Idle
    <2>1. /\ runner'.left = runner.left + 1 /\ runner.left # 4 /\ runner'.how = runner.how
          /\ runner'.residuals = runner.residuals /\ runner'.pc = "release" /\ runner.pc = "release"
      <3>1. Len(ReleaseFiles) = 4
        BY DEF ReleaseFiles
      <3>2. runner' = [runner EXCEPT !.left = @ + 1] /\ runner.left # 4 /\ runner.pc = "release"
        BY <1>13, <3>1 DEF WritesReleaseFile
      <3> QED BY <3>2 DEF RunnerShape
    <2>2. runner.left \in 1..4
      BY <2>1 DEF RunnerTyped
    <2>3. runner'.left \in 1..4
      BY <2>1, <2>2
    <2>4. runner'.how \in {"", "vm", "plain"} /\ AreResiduals(runner'.residuals)
      BY <2>1 DEF RunnerTyped
    <2> QED BY <2>1, <2>3, <2>4, GoesOnReleasing
  <1> QED
    BY <1>1, <1>2, <1>3, <1>4, <1>5, <1>6, <1>7, <1>8, <1>9, <1>10, <1>11, <1>12, <1>13, <1>14, <1>15
    DEF Next, vars, Ends, Builds, VmStarts, StaleMachineWrites, MachineFails, Compares, WritesLedger,
        WritesEvidence, WritesReleaseFile, Killed

LEMMA FilesStayTyped ==
    ASSUME case \in Cases, RunnerTyped, RunnerShape, FilesTyped, Sound(stale), [Next]_vars
    PROVE  FilesTyped' /\ Sound(stale')
  <1>s. Sound(stale')
    <2>1. stale' \in {stale, NoFiles} \/ (Killed /\ stale' \in Outlives)
      BY DEF Next, vars, Builds, VmStarts, EmptiesOut, StaleMachineWrites, MachineStarts,
             ScriptRuns, MachineFails, RebootsAndChecks, CopiesOut, RenamesResidual, Compares,
             WitnessStarts, WitnessWrites, PlainRun, WritesLedger, WritesEvidence, StartsRelease,
             WritesReleaseFile, Killed
    <2> QED
      BY <2>1, SoundNothing, OutlivesSoundly
  <1> SUFFICES FilesTyped'
    BY <1>s
  <1>1. CASE UNCHANGED <<dirs, share>>
    BY <1>1, FilesKept
  <1>2. CASE EmptiesOut
    <2>1. share' \in Few(share) /\ dirs' = dirs
      BY <1>2 DEF EmptiesOut
    <2> QED BY <2>1, SoundFew DEF FilesTyped
  <1>10. CASE StaleMachineWrites
    <2>1. PICK f \in DOMAIN stale : share' = f :> stale[f] @@ share
      BY <1>10 DEF StaleMachineWrites
    <2>2. dirs' = dirs
      BY <1>10 DEF StaleMachineWrites
    <2> DEFINE file == f :> stale[f]
    <2>3. Sound(file)
      BY SoundOne DEF Sound
    <2>4. share' = file @@ share
      BY <2>1
    <2> HIDE DEF file
    <2> QED BY <2>2, <2>3, <2>4, FilesWritten
  <1>3. CASE ScriptRuns
    <2>1. PICK view \in Views(runner.side) : share' = Script(runner.side, view) @@ share
      BY <1>3 DEF ScriptRuns
    <2>2. dirs' = dirs
      BY <1>3 DEF ScriptRuns
    <2> QED BY <2>1, <2>2, ViewedViews, SoundScript, FilesWritten
  <1>4. CASE MachineFails /\ share' # share
    <2>1. share' = Script(runner.side, Plain) @@ share /\ dirs' = dirs
      BY <1>4 DEF MachineFails
    <2> QED BY <2>1, ViewedPlain, SoundScript, FilesWritten
  <1>5. CASE RebootsAndChecks
    <2> DEFINE n == Reboots(case.modes) + 1 - runner.left
    <2>1. PICK up : share' = ((IF up THEN BootCheck(case.modes, seen[runner.side].view, n) ELSE NoFiles)
                              @@ (IF "boot_failure" \in case.modes THEN BootAttempt(up) ELSE NoFiles)) @@ share
      BY <1>5 DEF RebootsAndChecks
    <2>2. n \in 1..3
      <3>1. runner.left > 0 /\ runner.left \in 0..Reboots(case.modes)
        BY <1>5 DEF RebootsAndChecks, RunnerTyped
      <3> QED BY <3>1, RebootsFew
    <2> HIDE DEF n
    <2> DEFINE check == IF up THEN BootCheck(case.modes, seen[runner.side].view, n) ELSE NoFiles
               attempt == IF "boot_failure" \in case.modes THEN BootAttempt(up) ELSE NoFiles
    <2>3. Sound(check) /\ Sound(attempt)
      BY <2>2, SoundChecks, SoundNothing
    <2>4. share' = (check @@ attempt) @@ share
      BY <2>1
    <2>5. dirs' = dirs
      BY <1>5 DEF RebootsAndChecks
    <2> HIDE DEF check, attempt
    <2> QED BY <2>3, <2>4, <2>5, SoundOver, FilesWritten
  <1>6. CASE CopiesOut
    <2>1. dirs' = [dirs EXCEPT ![runner.side] = share @@ @] /\ share' = share
      BY <1>6 DEF CopiesOut
    <2>2. Sound(share) /\ runner.side \in Sides
      BY DEF FilesTyped, RunnerShape
    <2> QED BY <2>1, <2>2, FilesCopied
  <1>7. CASE RenamesResidual
    BY <1>7, FilesRenamed
  <1>8. CASE WitnessWrites
    <2>1. PICK content : dirs' = [dirs EXCEPT ![runner.side] = WitnessFile :> content @@ @]
      BY <1>8 DEF WitnessWrites
    <2>2. runner.pc = "witness" /\ share' = share
      BY <1>8 DEF WitnessWrites
    <2> QED BY <2>1, <2>2, FilesOfTheCorpus
  <1>9. CASE Killed
    <2>1. (UNCHANGED <<dirs, records>> \/ CutsShort) /\ share' = share
      BY <1>9 DEF Killed
    <2> QED BY <2>1, FilesCutShort
  <1> QED
    BY <1>1, <1>2, <1>3, <1>4, <1>5, <1>6, <1>7, <1>8, <1>9, <1>10
    DEF Next, vars, Builds, VmStarts, MachineStarts, MachineFails, Compares, WitnessStarts, PlainRun,
        WritesLedger, WritesEvidence, StartsRelease, WritesReleaseFile

LEMMA RecordsStayTyped ==
    ASSUME LedgerTyped(ledger), EvidenceTyped(evidence), ReleaseTyped, RunnerTyped, [Next]_vars
    PROVE  LedgerTyped(ledger') /\ EvidenceTyped(evidence') /\ ReleaseTyped'
  <1>1. AreResiduals(runner.residuals)
    BY DEF RunnerTyped
  <1>2. LedgerTyped(Cut) /\ EvidenceTyped(Cut) /\ ManifestTyped(Cut)
    BY DEF LedgerTyped, EvidenceTyped, ManifestTyped, IsWhole
  <1>3. ledger' \in {ledger, Cut, [residuals |-> runner.residuals]}
    BY DEF Next, vars, records, Builds, VmStarts, EmptiesOut, StaleMachineWrites, MachineStarts,
           ScriptRuns, MachineFails, RebootsAndChecks, CopiesOut, RenamesResidual, Compares,
           WitnessStarts, WitnessWrites, PlainRun, WritesLedger, WritesEvidence, StartsRelease,
           WritesReleaseFile, Killed, CutsShort
  <1>4. evidence' \in {evidence, Cut, EvidenceRecord(runner.residuals, runner.how, SideArtifacts(dirs))}
    BY DEF Next, vars, records, Builds, VmStarts, EmptiesOut, StaleMachineWrites, MachineStarts,
           ScriptRuns, MachineFails, RebootsAndChecks, CopiesOut, RenamesResidual, Compares,
           WitnessStarts, WitnessWrites, PlainRun, WritesLedger, WritesEvidence, StartsRelease,
           WritesReleaseFile, Killed, CutsShort
  <1>5. LedgerTyped(ledger')
    <2>1. LedgerTyped([residuals |-> runner.residuals])
      BY <1>1 DEF LedgerTyped, AreResiduals
    <2> QED BY <1>2, <1>3, <2>1
  <1>6. EvidenceTyped(evidence')
    <2>1. EvidenceTyped(EvidenceRecord(runner.residuals, runner.how, SideArtifacts(dirs)))
      BY <1>1, RecordTyped
    <2> QED BY <1>2, <1>4, <2>1
  <1>7. ReleaseTyped'
    <2> DEFINE receipt == CourtReceipt(dirs, ledger, evidence)
               whole == Assemble(receipt)
    <2>1. release' = release \/ \E file : release' = [release EXCEPT ![file] = Cut]
                                         \/ release' = [release EXCEPT ![file] = whole[file]]
      BY DEF Next, vars, records, Builds, VmStarts, EmptiesOut, StaleMachineWrites, MachineStarts,
             ScriptRuns, MachineFails, RebootsAndChecks, CopiesOut, RenamesResidual, Compares,
             WitnessStarts, WitnessWrites, PlainRun, WritesLedger, WritesEvidence, StartsRelease,
             WritesReleaseFile, Killed, CutsShort
    <2>2. ManifestTyped(whole["MANIFEST.json"])
      BY AssembledTyped
    <2> HIDE DEF whole
    <2>3. "MANIFEST.json" \in Range(ReleaseFiles)
      BY DEF Range, ReleaseFiles
    <2>4. /\ DOMAIN release' = DOMAIN release
          /\ release'["MANIFEST.json"] \in {release["MANIFEST.json"], Cut, whole["MANIFEST.json"]}
      BY <2>1, <2>3 DEF ReleaseTyped
    <2> QED BY <1>2, <2>2, <2>4 DEF ReleaseTyped
  <1> QED
    BY <1>5, <1>6, <1>7

LEMMA BudgetStaysTyped ==
    ASSUME BudgetTyped, [Next]_vars
    PROVE  BudgetTyped'
  <1>1. \/ budget' = budget
        \/ \E counter : budget[counter] > 0 /\ budget' = Spent(counter)
    BY DEF Next, vars, Builds, VmStarts, EmptiesOut, StaleMachineWrites, MachineStarts, ScriptRuns,
           MachineFails, RebootsAndChecks, CopiesOut, RenamesResidual, Compares, WitnessStarts,
           WitnessWrites, PlainRun, WritesLedger, WritesEvidence, StartsRelease, WritesReleaseFile,
           Killed
  <1> QED
    BY <1>1, SpentTyped DEF BudgetTyped

LEMMA TypeNext ==
    ASSUME TypeInv, RunnerShape, [Next]_vars, ComparesTyped
    PROVE  TypeInv'
  <1>1. case' = case /\ missing' \in {missing, "nothing"}
    BY DEF Next, vars, Builds, VmStarts, EmptiesOut, StaleMachineWrites, MachineStarts, ScriptRuns,
           MachineFails, RebootsAndChecks, CopiesOut, RenamesResidual, Compares, WitnessStarts,
           WitnessWrites, PlainRun, WritesLedger, WritesEvidence, StartsRelease, WritesReleaseFile,
           Killed
  <1>2. RunnerTyped' /\ FilesTyped' /\ Sound(stale')
    BY RunnerStaysTyped, FilesStayTyped DEF TypeInv
  <1>3. LedgerTyped(ledger') /\ EvidenceTyped(evidence') /\ ReleaseTyped' /\ BudgetTyped'
    BY RecordsStayTyped, BudgetStaysTyped DEF TypeInv
  <1> QED
    BY <1>1, <1>2, <1>3 DEF TypeInv

(***************************************************************************)
(* What a pass in the machines has seen.  What the machine of a side wrote *)
(* in this run is in its share, and later in its directory, under the name *)
(* that residual.json goes by, whatever other files are there.             *)
(***************************************************************************)
Holds(files, part) == \A f \in DOMAIN part : f \in DOMAIN files /\ files[f] = part[f]
HoldsScript(files, part, residual) ==
    \A f \in DOMAIN part :
        LET name == IF f = "residual.json" THEN residual ELSE f
        IN  name \in DOMAIN files /\ files[name] = part[f]

(* Of the reboots so far what was noted is there; but where a machine may  *)
(* have lost its kernel, every one of them succeeded.                      *)
HoldsBoots(files, modes, looked, left) ==
    LET check == BootCheck(modes, looked.view, 1)
    IN  IF modes = {"boot_failure"}
        THEN IF left = 1 THEN looked.boots = << >>
             ELSE \E up \in BOOLEAN : /\ looked.boots = <<up>>
                                      /\ Holds(files, BootAttempt(up))
                                      /\ up => Holds(files, check)
        ELSE LET n == Reboots(modes) - left
             IN  /\ looked.boots = [i \in 1..n |-> TRUE]
                 /\ n > 0 => Holds(files, check)

ScriptBy(side, modes, view) ==
    IF side = "oracle" THEN OracleScript(modes, view) ELSE CandidateScript(modes, view)
LeftBy(side, modes, looked, files, left, residual) ==
    /\ left \in 0..Reboots(modes)
    /\ HoldsScript(files, ScriptBy(side, modes, looked.view), residual)
    /\ HoldsBoots(files, modes, looked, left)
OracleIsDone == LeftBy("oracle", case.modes, seen["oracle"], dirs["oracle"], 0, "residual.json")
CandidateIsDone(residual) ==
    LeftBy("candidate", case.modes, seen["candidate"], dirs["candidate"], 0, residual)

SeenShape ==
    seen = [side \in Sides |-> [view |-> seen[side].view, boots |-> seen[side].boots]]
SeenByPhase ==
    /\ IF runner.pc \in {"start", "cleanup", "script", "reboot", "rename", "compare"}
       THEN runner.how = "vm"
       ELSE runner.pc \notin {"ledger", "evidence"} => runner.how # "vm"
    /\ runner.how # "vm" => seen = Unseen
    /\ runner.pc \in {"start", "cleanup", "script"} => seen[runner.side].boots = << >>
    /\ (runner.pc \in {"start", "cleanup", "script", "reboot"} /\ runner.side = "oracle") =>
          seen["candidate"].boots = << >>
    /\ runner.pc = "reboot" =>
          LeftBy(runner.side, case.modes, seen[runner.side], share, runner.left, "residual.json")
    /\ (runner.pc \in {"start", "cleanup", "script", "reboot"} /\ runner.side = "candidate")
           \/ runner.pc \in {"rename", "compare"} => OracleIsDone
    /\ runner.pc = "rename" => CandidateIsDone("residual.json")
    /\ runner.pc = "compare" => CandidateIsDone("candidate-residual.json")
    /\ (runner.pc \in {"ledger", "evidence"} /\ runner.how = "vm" /\ runner.residuals = {}) => SidesAgree
PassInv == case \in Cases /\ SeenShape /\ SeenByPhase

(* The modes of a case.                                                    *)
Modal(modes) == modes = {} \/ \E mode \in Modes : modes = {mode}

(* A mode's script writes nothing that a reboot or the renaming writes.    *)
Later == {"candidate-residual.json", "boot-status.txt", "boot-status-1.txt", "boot-status-2.txt",
          "boot-status-3.txt", "boot-attempt.txt"}

Wrote(script, name, content) == name \in DOMAIN script /\ script[name] = content

(* What lies under the residual of a machine and the one it takes after.   *)
LEMMA MachineFiles ==
    ASSUME NEW view, NEW files
    PROVE  LET script == Machine(view) @@ After(view) @@ files
           IN  /\ DOMAIN script = {"residual.json", "residual.json.after"} \cup DOMAIN files
               /\ Wrote(script, "residual.json", Residual(view, "machine"))
               /\ \A f \in DOMAIN files \ {"residual.json", "residual.json.after"} : Wrote(script, f, files[f])
  <1> DEFINE both == Machine(view) @@ After(view)
  <1>1. /\ DOMAIN both = {"residual.json", "residual.json.after"}
        /\ both["residual.json"] = Residual(view, "machine")
    BY DEF Machine, After, @@, :>
  <1> HIDE DEF both
  <1>2. DOMAIN (both @@ files) = {"residual.json", "residual.json.after"} \cup DOMAIN files
    BY <1>1 DEF @@
  <1>3. Wrote(both @@ files, "residual.json", Residual(view, "machine"))
    BY <1>1 DEF Wrote, @@
  <1>4. \A f \in DOMAIN files \ {"residual.json", "residual.json.after"} : Wrote(both @@ files, f, files[f])
    BY <1>1 DEF Wrote, @@
  <1> QED
    BY <1>2, <1>3, <1>4 DEF both

(* The outs of a script are texts of what was seen.                        *)
LEMMA OutFiles ==
    ASSUME NEW view, NEW names
    PROVE  /\ DOMAIN Outs(names, view) = names
           /\ \A f \in names : Wrote(Outs(names, view), f, Text(view, f))
  BY DEF Outs, Wrote

(* Both of them.                                                           *)
LEMMA OutMachineFiles ==
    ASSUME NEW view, NEW names, names \cap {"residual.json", "residual.json.after"} = {}
    PROVE  LET script == Machine(view) @@ After(view) @@ Outs(names, view)
           IN  /\ DOMAIN script = {"residual.json", "residual.json.after"} \cup names
               /\ Wrote(script, "residual.json", Residual(view, "machine"))
               /\ \A f \in names : Wrote(script, f, Text(view, f))
  <1> DEFINE outs == Outs(names, view)
  <1>1. DOMAIN outs = names /\ \A f \in names : outs[f] = Text(view, f)
    BY OutFiles DEF Wrote
  <1> HIDE DEF outs
  <1>2. LET script == Machine(view) @@ After(view) @@ outs
        IN  /\ DOMAIN script = {"residual.json", "residual.json.after"} \cup names
            /\ Wrote(script, "residual.json", Residual(view, "machine"))
            /\ \A f \in names : Wrote(script, f, outs[f])
    BY <1>1, MachineFiles
  <1> QED
    BY <1>1, <1>2 DEF outs

(* What the scripts write, mode by mode, of what the comparison reads.     *)
LEMMA CloseWrites ==
    ASSUME NEW view
    PROVE  LET o == OracleScript({"close_transaction"}, view)
               c == CandidateScript({"close_transaction"}, view)
           IN  /\ (DOMAIN o \cup DOMAIN c) \cap Later = {}
               /\ Wrote(o, "residual.json", Residual(view, "machine"))
               /\ Wrote(c, "residual.json", Residual(view, "machine"))
               /\ Wrote(o, "close-outcome.json", [exit |-> IF view.odd = "exit" THEN "clean" ELSE "crash"])
               /\ Wrote(c, "close-outcome.json", [exit |-> IF view.odd = "exit" THEN "crash" ELSE "clean"])
  <1> DEFINE o == "close-outcome.json" :> [exit |-> IF view.odd = "exit" THEN "clean" ELSE "crash"]
             c == "close-outcome.json" :> [exit |-> IF view.odd = "exit" THEN "crash" ELSE "clean"]
  <1>1. /\ DOMAIN o = {"close-outcome.json"} /\ DOMAIN c = {"close-outcome.json"}
        /\ o["close-outcome.json"] = [exit |-> IF view.odd = "exit" THEN "clean" ELSE "crash"]
        /\ c["close-outcome.json"] = [exit |-> IF view.odd = "exit" THEN "crash" ELSE "clean"]
    BY DEF :>
  <1>2. /\ OracleScript({"close_transaction"}, view) = Machine(view) @@ After(view) @@ o
        /\ CandidateScript({"close_transaction"}, view) = Machine(view) @@ After(view) @@ c
    BY DEF OracleScript, CandidateScript, BootModes
  <1> HIDE DEF o, c
  <1>3. \A files \in {o, c} :
           LET script == Machine(view) @@ After(view) @@ files
           IN  /\ DOMAIN script = {"residual.json", "residual.json.after", "close-outcome.json"}
               /\ Wrote(script, "residual.json", Residual(view, "machine"))
               /\ Wrote(script, "close-outcome.json", files["close-outcome.json"])
    BY <1>1, MachineFiles
  <1> QED
    BY <1>1, <1>2, <1>3 DEF Later

LEMMA RenderedWrites ==
    ASSUME NEW view, NEW mode \in {"i18n_rendered", "gui_drive"}
    PROVE  LET o == OracleScript({mode}, view)
           IN  /\ CandidateScript({mode}, view) = o /\ DOMAIN o \cap Later = {}
               /\ Wrote(o, "residual.json", Residual(view, "machine"))
               /\ mode = "gui_drive" => Wrote(o, "drive-semantic.json", Text(view, "drive-semantic.json"))
               /\ mode = "i18n_rendered" => Wrote(o, "i18n-zh_CN.json", Text(view, "i18n-zh_CN.json"))
  <1>1. CandidateScript({mode}, view) = OracleScript({mode}, view)
    BY DEF CandidateScript, BootModes
  <1>2. CASE mode = "gui_drive"
    <2>1. OracleScript({mode}, view) = Machine(view) @@ After(view) @@ Outs({"drive-semantic.json"}, view)
      BY <1>2 DEF OracleScript, BootModes
    <2>2. {"drive-semantic.json"} \cap {"residual.json", "residual.json.after"} = {}
      OBVIOUS
    <2>3. LET script == Machine(view) @@ After(view) @@ Outs({"drive-semantic.json"}, view)
          IN  /\ DOMAIN script = {"residual.json", "residual.json.after"} \cup {"drive-semantic.json"}
              /\ Wrote(script, "residual.json", Residual(view, "machine"))
              /\ \A f \in {"drive-semantic.json"} : Wrote(script, f, Text(view, f))
      BY <2>2, OutMachineFiles
    <2> QED
      BY <1>1, <1>2, <2>1, <2>3 DEF Later
  <1>3. CASE mode = "i18n_rendered"
    <2>1. OracleScript({mode}, view)
            = Machine(view) @@ After(view) @@ Outs({"i18n-de_DE.json", "i18n-zh_CN.json"}, view)
      BY <1>3 DEF OracleScript, BootModes
    <2>2. {"i18n-de_DE.json", "i18n-zh_CN.json"} \cap {"residual.json", "residual.json.after"} = {}
      OBVIOUS
    <2>3. LET script == Machine(view) @@ After(view) @@ Outs({"i18n-de_DE.json", "i18n-zh_CN.json"}, view)
          IN  /\ DOMAIN script = {"residual.json", "residual.json.after"} \cup {"i18n-de_DE.json", "i18n-zh_CN.json"}
              /\ Wrote(script, "residual.json", Residual(view, "machine"))
              /\ \A f \in {"i18n-de_DE.json", "i18n-zh_CN.json"} : Wrote(script, f, Text(view, f))
      BY <2>2, OutMachineFiles
    <2> QED
      BY <1>1, <1>3, <2>1, <2>3 DEF Later
  <1> QED
    BY <1>2, <1>3

LEMMA ScxWrites ==
    ASSUME NEW view
    PROVE  LET o == OracleScript({"scx"}, view)  c == CandidateScript({"scx"}, view)
           IN  /\ (DOMAIN o \cup DOMAIN c) \cap Later = {}
               /\ Wrote(o, "introspect.txt", [members |-> Members(view)])
               /\ Wrote(o, "oracle-properties.json", [values |-> Values(view)])
               /\ Wrote(c, "candidate-interface.json", [members |-> Members(view)])
               /\ Wrote(c, "candidate-readback.json", [values |-> Values(view)])
  <1>1. /\ OracleScript({"scx"}, view) = "introspect.txt" :> [members |-> Members(view)]
                                         @@ "oracle-properties.json" :> [values |-> Values(view)]
        /\ CandidateScript({"scx"}, view) = "candidate-interface.json" :> [members |-> Members(view)]
                                         @@ "candidate-readback.json" :> [values |-> Values(view)]
    BY DEF OracleScript, CandidateScript, BootModes
  <1> QED
    BY <1>1 DEF Later, Wrote, @@, :>

LEMMA BootWrites ==
    ASSUME NEW view, NEW mode \in BootModes,
           NEW script \in {OracleScript({mode}, view), CandidateScript({mode}, view)}
    PROVE  /\ DOMAIN script \cap (Later \cup {"residual.json"}) = {}
           /\ \A f \in BootOuts : Wrote(script, f, Text(view, f))
  <1>1. \E raw : script = Outs(BootOuts, view) @@ RawTrace({mode}) :> raw
    BY DEF OracleScript, CandidateScript, BootModes
  <1>2. RawTrace({mode}) \in {"remove-raw.trace", "install-raw.trace"}
    BY DEF RawTrace
  <1> QED
    BY <1>1, <1>2, OutFiles DEF Later, Wrote, BootOuts, @@, :>

LEMMA SurfacesWrite ==
    ASSUME NEW view, NEW mode \in {"makepkg", "packaging"}
    PROVE  LET o == OracleScript({mode}, view)
               outs == IF mode = "makepkg" THEN MakepkgOuts ELSE PackagingOuts
           IN  /\ CandidateScript({mode}, view) = o /\ DOMAIN o \cap Later = {}
               /\ \A f \in outs : Wrote(o, f, Text(view, f))
  <1>1. CandidateScript({mode}, view) = OracleScript({mode}, view)
    BY DEF CandidateScript, BootModes
  <1>2. OracleScript({mode}, view) = Outs(IF mode = "makepkg" THEN MakepkgOuts ELSE PackagingOuts, view)
    BY DEF OracleScript, BootModes
  <1> QED
    BY <1>1, <1>2, OutFiles DEF Later, MakepkgOuts, PackagingOuts

LEMMA MatrixWrites ==
    ASSUME NEW view
    PROVE  LET o == OracleScript({"terminal_matrix"}, view)
           IN  /\ CandidateScript({"terminal_matrix"}, view) = o /\ DOMAIN o \cap Later = {}
               /\ Wrote(o, "terminal-matrix.json", ScenariosFile(view))
  <1>1. CandidateScript({"terminal_matrix"}, view) = OracleScript({"terminal_matrix"}, view)
    BY DEF CandidateScript, BootModes
  <1>2. OracleScript({"terminal_matrix"}, view) = "terminal-matrix.json" :> ScenariosFile(view)
    BY DEF OracleScript, BootModes
  <1> QED
    BY <1>1, <1>2 DEF Later, Wrote, :>

(* The files of a mode that is planned, beside the window and the model.   *)
LEMMA PlannedFiles ==
    ASSUME NEW view, NEW files
    PROVE  LET o == Machine(view) @@ After(view) @@ "oracle-state.json" :> Tree(view) @@ files
               c == Machine(view) @@ "candidate-state.json" :> State(view) @@ files
               mine == {"residual.json", "residual.json.after", "oracle-state.json", "candidate-state.json"}
           IN  /\ DOMAIN o \subseteq mine \cup DOMAIN files
               /\ DOMAIN c \subseteq mine \cup DOMAIN files
               /\ \A f \in DOMAIN files \ mine : Wrote(o, f, files[f]) /\ Wrote(c, f, files[f])
  <1> DEFINE o == Machine(view) @@ After(view) @@ "oracle-state.json" :> Tree(view)
             c == Machine(view) @@ "candidate-state.json" :> State(view)
  <1>1. DOMAIN o = {"residual.json", "residual.json.after", "oracle-state.json"}
    BY DEF Machine, After, @@, :>
  <1>2. DOMAIN c = {"residual.json", "candidate-state.json"}
    BY DEF Machine, @@, :>
  <1> HIDE DEF o, c
  <1>3. /\ DOMAIN (o @@ files) = DOMAIN o \cup DOMAIN files
        /\ \A f \in DOMAIN files \ DOMAIN o : Wrote(o @@ files, f, files[f])
    BY DEF Wrote, @@
  <1>4. /\ DOMAIN (c @@ files) = DOMAIN c \cup DOMAIN files
        /\ \A f \in DOMAIN files \ DOMAIN c : Wrote(c @@ files, f, files[f])
    BY DEF Wrote, @@
  <1> QED
    BY <1>1, <1>2, <1>3, <1>4 DEF o, c

LEMMA MutateWrites ==
    ASSUME NEW view
    PROVE  LET o == OracleScript({"mutate"}, view)  c == CandidateScript({"mutate"}, view)
           IN  /\ (DOMAIN o \cup DOMAIN c) \cap Later = {}
               /\ \A f \in {"pkgbuild-before.txt", "pkgbuild-after.txt"} : Wrote(o, f, Text(view, f))
               /\ Wrote(c, "candidate-pkgbuild-before.txt", Text(view, "pkgbuild-before.txt"))
               /\ Wrote(c, "candidate-pkgbuild-after.txt", Text(view, "pkgbuild-after.txt"))
  <1> DEFINE x == Outs({"pkgbuild-before.txt", "pkgbuild-after.txt"}, view)
             y == "candidate-pkgbuild-before.txt" :> Text(view, "pkgbuild-before.txt")
                  @@ "candidate-pkgbuild-after.txt" :> Text(view, "pkgbuild-after.txt")
  <1>1. /\ DOMAIN x = {"pkgbuild-before.txt", "pkgbuild-after.txt"}
        /\ \A f \in {"pkgbuild-before.txt", "pkgbuild-after.txt"} : x[f] = Text(view, f)
    BY OutFiles DEF Wrote
  <1>2. /\ DOMAIN y = {"candidate-pkgbuild-before.txt", "candidate-pkgbuild-after.txt"}
        /\ y["candidate-pkgbuild-before.txt"] = Text(view, "pkgbuild-before.txt")
        /\ y["candidate-pkgbuild-after.txt"] = Text(view, "pkgbuild-after.txt")
    BY DEF @@, :>
  <1>3. /\ OracleScript({"mutate"}, view) = Machine(view) @@ After(view) @@ "oracle-state.json" :> Tree(view) @@ x
        /\ CandidateScript({"mutate"}, view) = Machine(view) @@ "candidate-state.json" :> State(view) @@ y
    BY DEF OracleScript, CandidateScript, BootModes
  <1> HIDE DEF x, y
  <1>4. /\ DOMAIN OracleScript({"mutate"}, view) \cap Later = {}
        /\ \A f \in {"pkgbuild-before.txt", "pkgbuild-after.txt"} :
              Wrote(OracleScript({"mutate"}, view), f, Text(view, f))
    BY <1>1, <1>3, PlannedFiles DEF Later
  <1>5. /\ DOMAIN CandidateScript({"mutate"}, view) \cap Later = {}
        /\ Wrote(CandidateScript({"mutate"}, view), "candidate-pkgbuild-before.txt", Text(view, "pkgbuild-before.txt"))
        /\ Wrote(CandidateScript({"mutate"}, view), "candidate-pkgbuild-after.txt", Text(view, "pkgbuild-after.txt"))
    BY <1>2, <1>3, PlannedFiles DEF Later
  <1> QED
    BY <1>4, <1>5

LEMMA ChainWrites ==
    ASSUME NEW view, NEW mode \in {"configure", "transaction"}
    PROVE  LET o == OracleScript({mode}, view)  c == CandidateScript({mode}, view)
           IN  /\ (DOMAIN o \cup DOMAIN c) \cap Later = {}
               /\ Wrote(o, "oracle-transaction.json", Chain(view))
               /\ Wrote(c, "candidate-transaction.json", Chain(view))
  <1> DEFINE x == "oracle-transaction.json" :> Chain(view)
             y == "candidate-transaction.json" :> Chain(view)
  <1>1. /\ DOMAIN x = {"oracle-transaction.json"} /\ x["oracle-transaction.json"] = Chain(view)
        /\ DOMAIN y = {"candidate-transaction.json"} /\ y["candidate-transaction.json"] = Chain(view)
    BY DEF :>
  <1>2. /\ OracleScript({mode}, view) = Machine(view) @@ After(view) @@ "oracle-state.json" :> Tree(view) @@ x
        /\ CandidateScript({mode}, view) = Machine(view) @@ "candidate-state.json" :> State(view) @@ y
    BY DEF OracleScript, CandidateScript, BootModes
  <1> HIDE DEF x, y
  <1> QED
    BY <1>1, <1>2, PlannedFiles DEF Later

(* The files of a case of no mode.                                         *)
LEMMA PlainWrites ==
    ASSUME NEW view
    PROVE  LET o == OracleScript({}, view)  c == CandidateScript({}, view)
           IN  /\ (DOMAIN o \cup DOMAIN c) \cap Later = {}
               /\ Wrote(o, "residual.json", Residual(view, "machine"))
               /\ Wrote(c, "residual.json", Residual(view, "machine"))
               /\ Wrote(o, "oracle-state.json", Tree(view))
               /\ Wrote(c, "candidate-state.json", State(view))
  <1> DEFINE x == Machine(view) @@ After(view) @@ "oracle-state.json" :> Tree(view)
             y == Machine(view) @@ "candidate-state.json" :> State(view)
  <1>1. /\ DOMAIN x = {"residual.json", "residual.json.after", "oracle-state.json"}
        /\ x["residual.json"] = Residual(view, "machine") /\ x["oracle-state.json"] = Tree(view)
    BY DEF Machine, After, @@, :>
  <1>2. /\ DOMAIN y = {"residual.json", "candidate-state.json"}
        /\ y["residual.json"] = Residual(view, "machine") /\ y["candidate-state.json"] = State(view)
    BY DEF Machine, @@, :>
  <1>3. OracleScript({}, view) = x @@ << >> /\ CandidateScript({}, view) = y @@ << >>
    BY DEF OracleScript, CandidateScript
  <1> HIDE DEF x, y
  <1>4. \A script : DOMAIN (script @@ << >>) = DOMAIN script /\ \A f \in DOMAIN script : (script @@ << >>)[f] = script[f]
    <2>1. DOMAIN << >> = {}
      OBVIOUS
    <2> QED BY <2>1 DEF @@
  <1> QED
    BY <1>1, <1>2, <1>3, <1>4 DEF Later, Wrote

(* Only the courts of a boot reboot.                                       *)
LEMMA ModeWritesNothingLater ==
    ASSUME NEW side \in Sides, NEW view, NEW mode \in Modes
    PROVE  /\ DOMAIN ScriptBy(side, {mode}, view) \cap Later = {}
           /\ mode \in BootModes => "residual.json" \notin DOMAIN ScriptBy(side, {mode}, view)
  <1>1. \/ ScriptBy(side, {mode}, view) = OracleScript({mode}, view)
        \/ ScriptBy(side, {mode}, view) = CandidateScript({mode}, view)
    BY DEF ScriptBy
  <1>2. CASE mode \in BootModes
    <2>1. ScriptBy(side, {mode}, view) \in {OracleScript({mode}, view), CandidateScript({mode}, view)}
      BY <1>1
    <2> QED
      BY <1>2, <2>1, BootWrites
  <1>3. CASE mode = "close_transaction"
    BY <1>1, <1>3, CloseWrites DEF BootModes
  <1>4. CASE mode \in {"i18n_rendered", "gui_drive"}
    BY <1>1, <1>4, RenderedWrites DEF BootModes
  <1>5. CASE mode = "scx"
    BY <1>1, <1>5, ScxWrites DEF BootModes
  <1>6. CASE mode \in {"makepkg", "packaging"}
    BY <1>1, <1>6, SurfacesWrite DEF BootModes
  <1>7. CASE mode = "terminal_matrix"
    BY <1>1, <1>7, MatrixWrites DEF BootModes
  <1>8. CASE mode = "mutate"
    BY <1>1, <1>8, MutateWrites DEF BootModes
  <1>9. CASE mode \in {"configure", "transaction"}
    BY <1>1, <1>9, ChainWrites DEF BootModes
  <1> QED
    BY <1>2, <1>3, <1>4, <1>5, <1>6, <1>7, <1>8, <1>9 DEF Modes

LEMMA ScriptWritesNothingLater ==
    ASSUME NEW side \in Sides, NEW view, NEW modes, Modal(modes)
    PROVE  DOMAIN ScriptBy(side, modes, view) \cap Later = {}
  <1>1. CASE modes = {}
    <2>1. \/ ScriptBy(side, modes, view) = OracleScript({}, view)
          \/ ScriptBy(side, modes, view) = CandidateScript({}, view)
      BY <1>1 DEF ScriptBy
    <2> QED BY <2>1, PlainWrites
  <1>2. CASE \E mode \in Modes : modes = {mode}
    BY <1>2, ModeWritesNothingLater
  <1> QED
    BY <1>1, <1>2 DEF Modal

Passes(outcome) == outcome.ok /\ outcome.residuals = {}

(* Two comparisons one after the other pass only if each of them does.     *)
LEMMA BothPass ==
    ASSUME NEW a, NEW b, Passes(Both(a, b))
    PROVE  Passes(a) /\ Passes(b)
  <1>1. a.ok /\ b.ok
    BY DEF Passes, Both, Error
  <1>2. Both(a, b).residuals = a.residuals \cup b.residuals
    BY <1>1 DEF Both, Found
  <1> QED
    BY <1>1, <1>2 DEF Passes

LEMMA IfFindsNothing ==
    ASSUME NEW differs, NEW layer, NEW row, NEW field, If(differs, At(layer, row, field)) = {}
    PROVE  ~differs
  BY DEF If, At

LEMMA ByteExactFindsNothing ==
    ASSUME NEW files, NEW layer, ByteExact(dirs, files, layer) = {}
    PROVE  \A f \in files : dirs.oracle[f] = dirs.candidate[f]
  <1> TAKE f \in files
  <1>1. If(dirs.oracle[f] # dirs.candidate[f], At(layer, 0, f)) = {}
    BY DEF ByteExact
  <1> QED
    BY <1>1, IfFindsNothing

(* Which comparison a mode calls for.                                      *)
LEMMA ModeCompares ==
    ASSUME NEW mode \in Modes, Passes(CompareVm(dirs, {mode}, case.model))
    PROVE  /\ mode = "scx" => Passes(CompareScxInterface(dirs))
           /\ mode = "packaging" => Passes(ComparePackaging(dirs))
           /\ mode \in BootModes => Passes(CompareBoot(dirs))
           /\ mode = "makepkg" => Passes(CompareMakepkg(dirs))
           /\ mode = "gui_drive" => Passes(CompareGuiDrive(dirs))
           /\ mode = "i18n_rendered" => Passes(CompareI18nRendered(dirs))
           /\ mode = "close_transaction" => Passes(CompareCloseTransaction(dirs))
           /\ mode = "terminal_matrix" => Passes(CompareTerminalMatrix(dirs))
           /\ mode \in {"transaction", "configure"} => Passes(CompareVmTransactions(dirs))
           /\ mode = "mutate" => Passes(CompareMutation(dirs))
  <1> DEFINE first ==
                IF "scx" \in {mode} THEN CompareScxInterface(dirs)
                ELSE IF "packaging" \in {mode} THEN ComparePackaging(dirs)
                ELSE IF {mode} \cap BootModes # {} THEN CompareBoot(dirs)
                ELSE IF "makepkg" \in {mode} THEN CompareMakepkg(dirs)
                ELSE IF "gui_drive" \in {mode} THEN CompareGuiDrive(dirs)
                ELSE IF "i18n_rendered" \in {mode} THEN CompareI18nRendered(dirs)
                ELSE IF "close_transaction" \in {mode} THEN CompareCloseTransaction(dirs)
                ELSE IF "terminal_matrix" \notin {mode} THEN CompareVmObservations(dirs, case.model)
                ELSE Found({})
             matrix == IF {mode} \cap {"terminal_matrix"} # {} THEN CompareTerminalMatrix(dirs) ELSE Found({})
             chain == IF {mode} \cap {"transaction", "configure"} # {} THEN CompareVmTransactions(dirs) ELSE Found({})
             mutation == IF {mode} \cap {"mutate"} # {} THEN CompareMutation(dirs) ELSE Found({})
  <1>1. CompareVm(dirs, {mode}, case.model) = Both(Both(first, matrix), Both(chain, mutation))
    BY DEF CompareVm
  <1>2. Passes(first) /\ Passes(matrix) /\ Passes(chain) /\ Passes(mutation)
    <2> HIDE DEF first, matrix, chain, mutation
    <2>1. Passes(Both(first, matrix)) /\ Passes(Both(chain, mutation))
      BY <1>1, BothPass
    <2> QED
      BY <2>1, BothPass
  <1>3. (mode \in BootModes) <=> ({mode} \cap BootModes # {})
    OBVIOUS
  <1>4. /\ mode = "scx" => first = CompareScxInterface(dirs)
        /\ mode = "packaging" => first = ComparePackaging(dirs)
        /\ mode \in BootModes => first = CompareBoot(dirs)
        /\ mode = "makepkg" => first = CompareMakepkg(dirs)
        /\ mode = "gui_drive" => first = CompareGuiDrive(dirs)
        /\ mode = "i18n_rendered" => first = CompareI18nRendered(dirs)
        /\ mode = "close_transaction" => first = CompareCloseTransaction(dirs)
    BY <1>3 DEF BootModes
  <1>5. /\ mode = "terminal_matrix" => matrix = CompareTerminalMatrix(dirs)
        /\ mode \in {"transaction", "configure"} => chain = CompareVmTransactions(dirs)
        /\ mode = "mutate" => mutation = CompareMutation(dirs)
    OBVIOUS
  <1> HIDE DEF first, matrix, chain, mutation
  <1> QED
    BY <1>2, <1>4, <1>5

LEMMA PlainCompares ==
    ASSUME Passes(CompareVm(dirs, {}, case.model))
    PROVE  Passes(CompareVmObservations(dirs, case.model))
  <1> DEFINE first == CompareVmObservations(dirs, case.model)
  <1>1. CompareVm(dirs, {}, case.model) = Both(Both(first, Found({})), Both(Found({}), Found({})))
    BY DEF CompareVm
  <1> HIDE DEF first
  <1>2. Passes(Both(first, Found({})))
    BY <1>1, BothPass
  <1>3. Passes(first)
    BY <1>2, BothPass
  <1> QED
    BY <1>3 DEF first

(* What the sides of a run have left where the comparison looks for it.    *)
SidesLeft == OracleIsDone /\ CandidateIsDone("candidate-residual.json")
(* What a script wrote is in the directory when the sides are compared.    *)
LEMMA OracleLeft ==
    ASSUME SidesLeft, NEW f, NEW content,
           Wrote(OracleScript(case.modes, seen["oracle"].view), f, content)
    PROVE  Wrote(dirs.oracle, f, content)
  BY DEF SidesLeft, OracleIsDone, CandidateIsDone, LeftBy, HoldsScript, Wrote, ScriptBy

LEMMA CandidateLeft ==
    ASSUME SidesLeft, NEW f, NEW content,
           Wrote(CandidateScript(case.modes, seen["candidate"].view), f, content)
    PROVE  Wrote(dirs.candidate, IF f = "residual.json" THEN "candidate-residual.json" ELSE f, content)
  BY DEF SidesLeft, OracleIsDone, CandidateIsDone, LeftBy, HoldsScript, Wrote, ScriptBy

(* Machines that cannot be lost come up after each reboot.                 *)
LEMMA NoBoots ==
    ASSUME SidesLeft, case.modes # {"boot_failure"}
    PROVE  seen.oracle.boots = seen.candidate.boots
  <1>1. case.modes # {"boot_failure"}
    OBVIOUS
  <1> QED
    BY <1>1 DEF SidesLeft, OracleIsDone, CandidateIsDone, LeftBy, HoldsBoots

(* What was seen of a machine, or of a text, can be told from what is      *)
(* left.                                                                   *)
LEMMA ResidualsDiffer ==
    ASSUME NEW o, NEW c, Residual(o, "machine") = Residual(c, "machine")
    PROVE  (o.odd = "machine") <=> (c.odd = "machine")
  <1>1. /\ Residual(o, "machine").packages = IF o.odd = "machine" THEN {"linux", "leftover"} ELSE {"linux"}
        /\ Residual(c, "machine").packages = IF c.odd = "machine" THEN {"linux", "leftover"} ELSE {"linux"}
    BY DEF Residual
  <1>2. {"linux", "leftover"} # {"linux"}
    OBVIOUS
  <1> QED
    BY <1>1, <1>2

LEMMA DigestsDiffer ==
    ASSUME NEW o, NEW c, ResidualDigest(Residual(o, "machine")) = ResidualDigest(Residual(c, "machine"))
    PROVE  (o.odd = "machine") <=> (c.odd = "machine")
  <1>1. \A view : (<<"pkg", "leftover">> \in ResidualDigest(Residual(view, "machine"))) <=> (view.odd = "machine")
    <2> SUFFICES ASSUME NEW view
                 PROVE  (<<"pkg", "leftover">> \in ResidualDigest(Residual(view, "machine"))) <=> (view.odd = "machine")
      OBVIOUS
    <2> DEFINE residual == Residual(view, "machine")
    <2>1. /\ residual.packages = IF view.odd = "machine" THEN {"linux", "leftover"} ELSE {"linux"}
          /\ residual.syncDbs = {"core"} /\ residual.localDb = {"linux"}
      BY DEF Residual
    <2> HIDE DEF residual
    <2>2. residual.packages # {Null}
      BY <2>1 DEF Null
    <2>3. ResidualDigest(residual) = {<<"pkg", p>> : p \in residual.packages} \cup {<<"db", d>> : d \in {"core"}}
                                     \cup {<<"local", p>> : p \in {"linux"}}
      BY <2>1, <2>2 DEF ResidualDigest
    <2>4. (<<"pkg", "leftover">> \in ResidualDigest(residual)) <=> "leftover" \in residual.packages
      BY <2>3
    <2> QED
      BY <2>1, <2>4 DEF residual
  <1> QED
    BY <1>1

LEMMA TextsDiffer ==
    ASSUME NEW o, NEW c, NEW surface, Text(o, surface) = Text(c, surface)
    PROVE  (o.odd = surface) <=> (c.odd = surface)
  BY DEF Text

LEMMA RenderedFindsNothing ==
    ASSUME NEW files, NEW layer, Passes(CompareRendered(dirs, files, layer)),
           SidesLeft, NEW x, NEW y,
           Wrote(OracleScript(case.modes, seen["oracle"].view), "residual.json", x),
           Wrote(CandidateScript(case.modes, seen["candidate"].view), "residual.json", y)
    PROVE  x = y /\ \A f \in files : dirs.oracle[f] = dirs.candidate[f]
  <1>1. Wrote(dirs.oracle, "residual.json", x) /\ Wrote(dirs.candidate, "candidate-residual.json", y)
    BY OracleLeft, CandidateLeft
  <1>2. CandidateResidual(dirs) = "candidate-residual.json"
    BY <1>1 DEF CandidateResidual, Has, Wrote
  <1> DEFINE drift == If(dirs.oracle["residual.json"] # dirs.candidate["candidate-residual.json"],
                         At("machine-residual", 0, "drift"))
             exact == ByteExact(dirs, files, layer)
  <1>3. CompareRendered(dirs, files, layer) \in {Error, Found(drift \cup exact)}
    BY <1>2 DEF CompareRendered
  <1> HIDE DEF drift, exact
  <1>4. drift = {} /\ exact = {}
    BY <1>3 DEF Passes, Error, Found
  <1>5. dirs.oracle["residual.json"] = dirs.candidate["candidate-residual.json"]
    BY <1>4, IfFindsNothing DEF drift
  <1>6. \A f \in files : dirs.oracle[f] = dirs.candidate[f]
    BY <1>4, ByteExactFindsNothing DEF exact
  <1> QED
    BY <1>1, <1>5, <1>6 DEF Wrote

(* Mode by mode: a comparison that finds nothing has seen both agree.      *)
LEMMA ClosePass ==
    ASSUME SidesLeft, case.modes = {"close_transaction"}, Passes(CompareCloseTransaction(dirs))
    PROVE  SidesAgree
  <1> DEFINE o == seen["oracle"].view  c == seen["candidate"].view
             outcome == "close-outcome.json"
             machines == CompareRendered(dirs, {}, "")
             crash == If(dirs.oracle[outcome].exit # "crash", At("gap-010-oracle", 0, "exit"))
             clean == If(dirs.candidate[outcome].exit # "clean", At("gap-010-candidate", 0, "exit"))
  <1>1. /\ Wrote(OracleScript(case.modes, o), "residual.json", Residual(o, "machine"))
        /\ Wrote(CandidateScript(case.modes, c), "residual.json", Residual(c, "machine"))
        /\ Wrote(OracleScript(case.modes, o), outcome, [exit |-> IF o.odd = "exit" THEN "clean" ELSE "crash"])
        /\ Wrote(CandidateScript(case.modes, c), outcome, [exit |-> IF c.odd = "exit" THEN "crash" ELSE "clean"])
    BY CloseWrites
  <1>2. /\ machines.ok
        /\ CompareCloseTransaction(dirs) = Found(machines.residuals \cup crash \cup clean)
    BY DEF CompareCloseTransaction, Passes, Error
  <1>3. Passes(machines) /\ crash = {} /\ clean = {}
    <2> HIDE DEF machines, crash, clean
    <2> QED
      BY <1>2 DEF Passes, Found
  <1>4. dirs.oracle[outcome].exit = "crash" /\ dirs.candidate[outcome].exit = "clean"
    BY <1>3, IfFindsNothing
  <1>5. /\ Wrote(dirs.oracle, outcome, [exit |-> IF o.odd = "exit" THEN "clean" ELSE "crash"])
        /\ Wrote(dirs.candidate, outcome, [exit |-> IF c.odd = "exit" THEN "crash" ELSE "clean"])
    BY <1>1, OracleLeft, CandidateLeft
  <1>6. o.odd # "exit" /\ c.odd # "exit"
    BY <1>4, <1>5 DEF Wrote
  <1>7. Residual(o, "machine") = Residual(c, "machine")
    BY <1>1, <1>3, RenderedFindsNothing
  <1>8. Alike("machine")
    BY <1>7, ResidualsDiffer DEF Alike
  <1>9. seen.oracle.boots = seen.candidate.boots
    BY NoBoots DEF Modes
  <1> QED
    BY <1>6, <1>8, <1>9 DEF SidesAgree

LEMMA RenderedPass ==
    ASSUME SidesLeft, NEW mode \in {"i18n_rendered", "gui_drive"}, case.modes = {mode},
           Passes(CompareI18nRendered(dirs)) \/ mode = "gui_drive",
           Passes(CompareGuiDrive(dirs)) \/ mode = "i18n_rendered"
    PROVE  SidesAgree
  <1> DEFINE o == seen["oracle"].view  c == seen["candidate"].view
             file == IF mode = "gui_drive" THEN "drive-semantic.json" ELSE "i18n-zh_CN.json"
  <1>1. /\ Wrote(OracleScript(case.modes, o), "residual.json", Residual(o, "machine"))
        /\ Wrote(CandidateScript(case.modes, c), "residual.json", Residual(c, "machine"))
        /\ Wrote(OracleScript(case.modes, o), file, Text(o, file))
        /\ Wrote(CandidateScript(case.modes, c), file, Text(c, file))
    BY RenderedWrites
  <1>2. PICK files, layer : file \in files /\ Passes(CompareRendered(dirs, files, layer))
    BY DEF CompareGuiDrive, CompareI18nRendered
  <1>3. Residual(o, "machine") = Residual(c, "machine") /\ dirs.oracle[file] = dirs.candidate[file]
    BY <1>1, <1>2, RenderedFindsNothing
  <1>4. Wrote(dirs.oracle, file, Text(o, file)) /\ Wrote(dirs.candidate, file, Text(c, file))
    <2>1. file # "residual.json"
      OBVIOUS
    <2> HIDE DEF file
    <2> QED
      BY <1>1, <2>1, OracleLeft, CandidateLeft
  <1>5. Alike("machine") /\ Alike(file)
    <2>1. Text(o, file) = Text(c, file)
      BY <1>3, <1>4 DEF Wrote
    <2> QED
      BY <1>3, <2>1, ResidualsDiffer, TextsDiffer DEF Alike
  <1>6. seen.oracle.boots = seen.candidate.boots
    BY NoBoots DEF Modes
  <1>7. Odds(case.modes) = {"machine", "after", file}
    BY DEF Odds, BootModes
  <1> QED
    BY <1>5, <1>6, <1>7 DEF SidesAgree

LEMMA ScxPass ==
    ASSUME SidesLeft, case.modes = {"scx"}, Passes(CompareScxInterface(dirs))
    PROVE  SidesAgree
  <1> DEFINE o == seen["oracle"].view  c == seen["candidate"].view
             real == IF dirs.oracle["introspect.txt"] = Cut THEN {} ELSE dirs.oracle["introspect.txt"].members
             mine == dirs.candidate["candidate-interface.json"].members
             loader == dirs.oracle["oracle-properties.json"].values
             readback == dirs.candidate["candidate-readback.json"].values
             Same(m, r) == /\ m.kind = r.kind /\ m.name = r.name /\ m.sig = r.sig
                           /\ m.kind = "property" => m.writable = r.writable
             Reads(values, k) == IF k \in DOMAIN values THEN {values[k]} ELSE {}
  <1>1. /\ Wrote(dirs.oracle, "introspect.txt", [members |-> Members(o)])
        /\ Wrote(dirs.oracle, "oracle-properties.json", [values |-> Values(o)])
        /\ Wrote(dirs.candidate, "candidate-interface.json", [members |-> Members(c)])
        /\ Wrote(dirs.candidate, "candidate-readback.json", [values |-> Values(c)])
    <2>1. /\ Wrote(OracleScript(case.modes, o), "introspect.txt", [members |-> Members(o)])
          /\ Wrote(OracleScript(case.modes, o), "oracle-properties.json", [values |-> Values(o)])
          /\ Wrote(CandidateScript(case.modes, c), "candidate-interface.json", [members |-> Members(c)])
          /\ Wrote(CandidateScript(case.modes, c), "candidate-readback.json", [values |-> Values(c)])
      BY ScxWrites
    <2> QED
      BY <2>1, OracleLeft, CandidateLeft
  <1>2. /\ \A m \in mine : \E r \in real : Same(m, r)
        /\ Reads(loader, "current_scheduler") = Reads(readback, "current_scheduler")
    <2> DEFINE Lacks(m) == If(\A r \in real : ~Same(m, r), At("scx-interface", 0, m.name))
               Drifts(k) == If(Reads(loader, k) # Reads(readback, k), At("scx-readback", 0, k))
               keys == {"current_scheduler", "scheduler_mode", "supported_schedulers"}
    <2>1. CompareScxInterface(dirs)
            \in {Error, Found((UNION {Lacks(m) : m \in mine}) \cup (UNION {Drifts(k) : k \in keys}))}
      BY DEF CompareScxInterface
    <2>2. (\A m \in mine : Lacks(m) = {}) /\ (\A k \in keys : Drifts(k) = {})
      <3> HIDE DEF Lacks, Drifts, keys, mine
      <3> DEFINE absences == {Lacks(m) : m \in mine}
                 drifts == {Drifts(k) : k \in keys}
      <3>1. \A part \in absences \cup drifts : part = {}
        <4>1. CompareScxInterface(dirs) \in {Error, Found((UNION absences) \cup (UNION drifts))}
          BY <2>1
        <4> HIDE DEF absences, drifts
        <4> QED
          BY <4>1 DEF Passes, Error, Found
      <3> QED
        BY <3>1
    <2>4. Drifts("current_scheduler") = {}
      BY <2>2
    <2>3. \A m \in mine : \E r \in real : Same(m, r)
      <3> SUFFICES ASSUME NEW m \in mine, \A r \in real : ~Same(m, r) PROVE FALSE
        OBVIOUS
      <3> DEFINE absent == \A r \in real : ~Same(m, r)
      <3>1. <<"scx-interface", 0, m.name>> \in If(absent, At("scx-interface", 0, m.name))
        <4>1. absent
          OBVIOUS
        <4> HIDE DEF absent
        <4> QED
          BY <4>1 DEF If, At
      <3>2. <<"scx-interface", 0, m.name>> \in Lacks(m)
        BY <3>1
      <3> HIDE DEF Lacks, mine
      <3> QED
        BY <2>2, <3>2
    <2> QED
      BY <2>3, <2>4, IfFindsNothing
  <1>3. mine = Members(c) /\ real \subseteq Members(o)
    BY <1>1 DEF Wrote
  <1>4. loader = Values(o) /\ readback = Values(c)
    BY <1>1 DEF Wrote
  <1>5. Members(c) \subseteq Members(o)
    <2> SUFFICES ASSUME NEW m \in Members(c) PROVE m \in Members(o)
      OBVIOUS
    <2>1. PICK r \in Members(o) : Same(m, r)
      BY <1>2, <1>3
    <2>2. \A view : \A n \in Members(view) : \E name, sig, writable : n = Member(name, sig, writable)
      <3> TAKE view
      <3> TAKE n \in Members(view)
      <3> DEFINE sig == IF view.odd = "signature" THEN "s" ELSE "u"
                 writable == view.odd = "access"
      <3>1. n = Member("mode", sig, writable) \/ n = Member("more", "s", FALSE)
        BY Zenon DEF Members
      <3> HIDE DEF sig, writable
      <3> QED
        BY <3>1
    <2>3. PICK name, sig, writable : m = Member(name, sig, writable)
      BY <2>2
    <2>4. PICK other, theirs, sets : r = Member(other, theirs, sets)
      BY <2>2
    <2>5. name = other /\ sig = theirs /\ writable = sets
      BY <2>1, <2>3, <2>4 DEF Member
    <2> QED
      BY <2>1, <2>3, <2>4, <2>5
  <1>6. Values(c) = Values(o)
    BY <1>2, <1>4 DEF Values
  <1>7. seen.oracle.boots = seen.candidate.boots
    BY NoBoots DEF Modes
  <1> QED
    BY <1>5, <1>6, <1>7 DEF SidesAgree

(* Texts that compare equal are odd together.                              *)
LEMMA TextsAlike ==
    ASSUME NEW f, NEW g, NEW surface,
           Wrote(dirs.oracle, f, Text(seen["oracle"].view, surface)),
           Wrote(dirs.candidate, g, Text(seen["candidate"].view, surface)),
           dirs.oracle[f] = dirs.candidate[g]
    PROVE  Alike(surface)
  <1>1. Text(seen["oracle"].view, surface) = Text(seen["candidate"].view, surface)
    BY DEF Wrote
  <1> QED
    BY <1>1, TextsDiffer DEF Alike

(* Files compared as they are.                                             *)
LEMMA SurfacesFindNothing ==
    ASSUME NEW raw, NEW layer, Passes(CompareSurfaces(dirs, raw, layer))
    PROVE  \A f \in (DOMAIN dirs.oracle) \ raw : dirs.oracle[f] = dirs.candidate[f]
  <1> DEFINE files == (DOMAIN dirs.oracle) \ (raw \cup {"packages.txt"})
             machine == ByteExact(dirs, {"packages.txt"}, "machine-residual")
             surfaces == ByteExact(dirs, files, layer)
  <1>1. CompareSurfaces(dirs, raw, layer) \in {Error, Found(machine \cup surfaces)}
    BY DEF CompareSurfaces
  <1>2. machine = {} /\ surfaces = {}
    <2> HIDE DEF machine, surfaces
    <2> QED
      BY <1>1 DEF Passes, Error, Found
  <1>3. dirs.oracle["packages.txt"] = dirs.candidate["packages.txt"]
    BY <1>2, ByteExactFindsNothing
  <1>4. \A f \in files : dirs.oracle[f] = dirs.candidate[f]
    BY <1>2, ByteExactFindsNothing
  <1> QED
    BY <1>3, <1>4

LEMMA OutsAlike ==
    ASSUME SidesLeft, NEW names, "residual.json" \notin names,
           \A f \in names : dirs.oracle[f] = dirs.candidate[f],
           \A f \in names :
              /\ Wrote(OracleScript(case.modes, seen["oracle"].view), f, Text(seen["oracle"].view, f))
              /\ Wrote(CandidateScript(case.modes, seen["candidate"].view), f, Text(seen["candidate"].view, f))
    PROVE  \A f \in names : Alike(f)
  <1> TAKE f \in names
  <1>1. f # "residual.json"
    OBVIOUS
  <1>2. /\ Wrote(dirs.oracle, f, Text(seen["oracle"].view, f))
        /\ Wrote(dirs.candidate, f, Text(seen["candidate"].view, f))
    BY <1>1, OracleLeft, CandidateLeft
  <1>3. dirs.oracle[f] = dirs.candidate[f]
    OBVIOUS
  <1> QED
    BY <1>2, <1>3, TextsAlike

LEMMA SurfacesPass ==
    ASSUME SidesLeft, NEW mode \in {"makepkg", "packaging"}, case.modes = {mode},
           mode = "makepkg" => Passes(CompareMakepkg(dirs)),
           mode = "packaging" => Passes(ComparePackaging(dirs))
    PROVE  SidesAgree
  <1> DEFINE outs == IF mode = "makepkg" THEN MakepkgOuts ELSE PackagingOuts
  <1>1. \A f \in outs :
           /\ Wrote(OracleScript(case.modes, seen["oracle"].view), f, Text(seen["oracle"].view, f))
           /\ Wrote(CandidateScript(case.modes, seen["candidate"].view), f, Text(seen["candidate"].view, f))
    <2>1. \A view : \A f \in outs :
             /\ Wrote(OracleScript({mode}, view), f, Text(view, f))
             /\ Wrote(CandidateScript({mode}, view), f, Text(view, f))
      <3> TAKE view
      <3>1. CandidateScript({mode}, view) = OracleScript({mode}, view)
        BY SurfacesWrite
      <3>2. \A f \in outs : Wrote(OracleScript({mode}, view), f, Text(view, f))
        BY SurfacesWrite
      <3> HIDE DEF outs
      <3> QED
        BY <3>1, <3>2
    <2> HIDE DEF outs
    <2> QED
      BY <2>1
  <1>2. "residual.json" \notin outs
    BY DEF MakepkgOuts, PackagingOuts
  <1>3. \A f \in outs : f \in DOMAIN dirs.oracle
    <2> HIDE DEF outs
    <2> QED
      BY <1>1, <1>2, OracleLeft DEF Wrote
  <1>4. \A f \in outs : dirs.oracle[f] = dirs.candidate[f]
    <2>1. CASE mode = "packaging"
      <3>1. \A f \in (DOMAIN dirs.oracle) \ {} : dirs.oracle[f] = dirs.candidate[f]
        BY <2>1, SurfacesFindNothing DEF ComparePackaging
      <3> HIDE DEF outs
      <3> QED
        BY <1>3, <3>1
    <2>2. CASE mode = "makepkg"
      <3> DEFINE execs == MakepkgOuts \ {"packages.txt"}
                 machine == ByteExact(dirs, {"packages.txt"}, "machine-residual")
                 chain == ByteExact(dirs, execs, "exec-chain")
      <3>1. execs = {"commands.txt", "scf-execs.txt", "sicf-execs.txt", "aurfail-execs.txt", "makepkg-version.txt"}
        BY DEF MakepkgOuts
      <3>2. CompareMakepkg(dirs) \in {Error, Found(machine \cup chain)}
        BY <3>1 DEF CompareMakepkg
      <3>3. machine = {} /\ chain = {}
        <4> HIDE DEF machine, chain
        <4> QED
          BY <2>2, <3>2 DEF Passes, Error, Found
      <3>4. dirs.oracle["packages.txt"] = dirs.candidate["packages.txt"]
        BY <3>3, ByteExactFindsNothing
      <3>5. \A f \in execs : dirs.oracle[f] = dirs.candidate[f]
        BY <3>3, ByteExactFindsNothing
      <3> QED
        BY <2>2, <3>4, <3>5
    <2> QED
      BY <2>1, <2>2
  <1>5. \A f \in outs : Alike(f)
    <2> HIDE DEF outs
    <2> QED
      BY <1>1, <1>2, <1>4, OutsAlike
  <1>6. seen.oracle.boots = seen.candidate.boots
    BY NoBoots DEF Modes
  <1>7. Odds(case.modes) = outs
    BY DEF Odds, BootModes
  <1> HIDE DEF outs
  <1> QED
    BY <1>5, <1>6, <1>7 DEF SidesAgree

LEMMA MutatePass ==
    ASSUME SidesLeft, case.modes = {"mutate"}, Passes(CompareMutation(dirs))
    PROVE  SidesAgree
  <1> DEFINE o == seen["oracle"].view  c == seen["candidate"].view
             before == If(dirs.oracle["pkgbuild-before.txt"] # dirs.candidate["candidate-pkgbuild-before.txt"],
                          At("pkgbuild-mutation", 0, "before"))
             after == If(dirs.oracle["pkgbuild-after.txt"] # dirs.candidate["candidate-pkgbuild-after.txt"],
                         At("pkgbuild-mutation", 0, "after"))
  <1>1. /\ \A f \in {"pkgbuild-before.txt", "pkgbuild-after.txt"} : Wrote(OracleScript(case.modes, o), f, Text(o, f))
        /\ Wrote(CandidateScript(case.modes, c), "candidate-pkgbuild-before.txt", Text(c, "pkgbuild-before.txt"))
        /\ Wrote(CandidateScript(case.modes, c), "candidate-pkgbuild-after.txt", Text(c, "pkgbuild-after.txt"))
    BY MutateWrites
  <1>2. /\ Wrote(dirs.oracle, "pkgbuild-before.txt", Text(o, "pkgbuild-before.txt"))
        /\ Wrote(dirs.oracle, "pkgbuild-after.txt", Text(o, "pkgbuild-after.txt"))
        /\ Wrote(dirs.candidate, "candidate-pkgbuild-before.txt", Text(c, "pkgbuild-before.txt"))
        /\ Wrote(dirs.candidate, "candidate-pkgbuild-after.txt", Text(c, "pkgbuild-after.txt"))
    BY <1>1, OracleLeft, CandidateLeft
  <1>3. CompareMutation(dirs) \in {Error, Found(before \cup after)}
    BY DEF CompareMutation
  <1>4. before = {} /\ after = {}
    <2> HIDE DEF before, after
    <2> QED
      BY <1>3 DEF Passes, Error, Found
  <1>5. /\ dirs.oracle["pkgbuild-before.txt"] = dirs.candidate["candidate-pkgbuild-before.txt"]
        /\ dirs.oracle["pkgbuild-after.txt"] = dirs.candidate["candidate-pkgbuild-after.txt"]
    BY <1>4, IfFindsNothing
  <1>6. Alike("pkgbuild-before.txt") /\ Alike("pkgbuild-after.txt")
    BY <1>2, <1>5, TextsAlike
  <1>7. seen.oracle.boots = seen.candidate.boots
    BY NoBoots DEF Modes
  <1>8. Odds(case.modes) = {"pkgbuild-before.txt", "pkgbuild-after.txt"}
    BY DEF Odds, BootModes
  <1> QED
    BY <1>6, <1>7, <1>8 DEF SidesAgree

LEMMA ChainPass ==
    ASSUME SidesLeft, NEW mode \in {"configure", "transaction"}, case.modes = {mode},
           Passes(CompareVmTransactions(dirs))
    PROVE  SidesAgree
  <1> DEFINE o == seen["oracle"].view  c == seen["candidate"].view
             x == OracleTransaction(Chain(o))  y == CandidateTransaction(Chain(c))
             Drifts(f) == If(x[f] # y[f], At("transaction-chain", 0, f))
             fields == {"probes", "execs", "terminal"}
  <1>1. /\ Wrote(dirs.oracle, "oracle-transaction.json", Chain(o))
        /\ Wrote(dirs.candidate, "candidate-transaction.json", Chain(c))
    <2>1. /\ Wrote(OracleScript(case.modes, o), "oracle-transaction.json", Chain(o))
          /\ Wrote(CandidateScript(case.modes, c), "candidate-transaction.json", Chain(c))
      BY ChainWrites
    <2> QED
      BY <2>1, OracleLeft, CandidateLeft
  <1>2. \A f \in fields : x[f] = y[f]
    <2>1. CompareVmTransactions(dirs) \in {Error, Found(CompareTransactionObservations(x, y))}
      BY <1>1 DEF CompareVmTransactions, Wrote
    <2>2. CompareTransactionObservations(x, y) = {}
      <3> HIDE DEF x, y
      <3> QED
        BY <2>1 DEF Passes, Error, Found
    <2>3. CompareTransactionObservations(x, y) = UNION {Drifts(f) : f \in fields}
      <3> HIDE DEF x, y
      <3> QED
        BY DEF CompareTransactionObservations
    <2>4. \A f \in fields : Drifts(f) = {}
      <3> HIDE DEF Drifts, fields, x, y
      <3> QED
        BY <2>2, <2>3
    <2> HIDE DEF x, y
    <2> QED
      BY <2>4, IfFindsNothing
  <1>3. /\ x.probes = IF o.odd = "probes" THEN <<"other">> ELSE <<"probe">>
        /\ x.execs = IF o.odd = "execs" THEN <<"other">> ELSE <<"pacman">>
        /\ x.terminal = IF o.odd = "terminal" THEN {"other"} ELSE {"terminal-helper"}
    BY DEF OracleTransaction, Chain, Null
  <1>4. /\ y.probes = IF c.odd = "probes" THEN <<"other">> ELSE <<"probe">>
        /\ y.execs = IF c.odd = "execs" THEN <<"other">> ELSE <<"pacman">>
        /\ y.terminal = IF c.odd = "terminal" THEN {"other"} ELSE {"terminal-helper"}
    BY DEF CandidateTransaction, Chain, Null
  <1>5. Alike("probes") /\ Alike("execs") /\ Alike("terminal")
    <2>1. <<"other">> # <<"probe">> /\ <<"other">> # <<"pacman">> /\ {"other"} # {"terminal-helper"}
      OBVIOUS
    <2>2. x.probes = y.probes /\ x.execs = y.execs /\ x.terminal = y.terminal
      BY <1>2
    <2> HIDE DEF x, y
    <2> QED
      BY <1>3, <1>4, <2>1, <2>2 DEF Alike
  <1>6. seen.oracle.boots = seen.candidate.boots
    BY NoBoots DEF Modes
  <1>7. Odds(case.modes) = fields
    BY DEF Odds, BootModes
  <1> QED
    BY <1>5, <1>6, <1>7 DEF SidesAgree

LEMMA MatrixPass ==
    ASSUME SidesLeft, case.modes = {"terminal_matrix"}, Passes(CompareTerminalMatrix(dirs))
    PROVE  SidesAgree
  <1> DEFINE o == seen["oracle"].view  c == seen["candidate"].view
             Scenes(view) == ScenariosFile(view).scenarios
             differ == If(TerminalMatrixObservation(Scenes(o)) # TerminalMatrixObservation(Scenes(c)),
                          At("terminal-matrix", 0, "scenarios"))
  <1>1. /\ Wrote(dirs.oracle, "terminal-matrix.json", ScenariosFile(o))
        /\ Wrote(dirs.candidate, "terminal-matrix.json", ScenariosFile(c))
    <2>1. /\ Wrote(OracleScript(case.modes, o), "terminal-matrix.json", ScenariosFile(o))
          /\ Wrote(CandidateScript(case.modes, c), "terminal-matrix.json", ScenariosFile(c))
      BY MatrixWrites
    <2> QED
      BY <2>1, OracleLeft, CandidateLeft
  <1>2. TerminalMatrixObservation(Scenes(o)) = TerminalMatrixObservation(Scenes(c))
    <2>1. CompareTerminalMatrix(dirs) \in {Error, Found(differ)}
      BY <1>1 DEF CompareTerminalMatrix, Wrote
    <2>2. differ = {}
      <3> HIDE DEF differ
      <3> QED
        BY <2>1 DEF Passes, Error, Found
    <2> QED
      BY <2>2, IfFindsNothing
  <1>3. \A view : TerminalMatrixObservation(Scenes(view))[1].stdout[3]
                    = IF view.odd = "scenarios" THEN "odd" ELSE "usual"
    <2> TAKE view
    <2> DEFINE tmp == IF view.odd = "tmp" THEN "/tmp/b" ELSE "/tmp/a"
               said == IF view.odd = "scenarios" THEN "odd" ELSE "usual"
    <2>1. Scenes(view) = <<[stdout |-> <<"wrote", tmp, said>>]>>
      BY DEF ScenariosFile
    <2>2. said \notin TmpPaths
      BY TmpPathsAssumption
    <2> HIDE DEF tmp, said, Scenes
    <2>3. TerminalMatrixObservation(Scenes(view))[1] = [Scenes(view)[1] EXCEPT !.stdout = NormalizeTmpPaths(@)]
      BY <2>1 DEF TerminalMatrixObservation
    <2>4. TerminalMatrixObservation(Scenes(view))[1].stdout = NormalizeTmpPaths(<<"wrote", tmp, said>>)
      BY <2>1, <2>3
    <2>5. NormalizeTmpPaths(<<"wrote", tmp, said>>)[3] = said
      BY <2>2 DEF NormalizeTmpPaths
    <2> QED
      BY <2>4, <2>5 DEF said
  <1>4. Alike("scenarios")
    <2> HIDE DEF Scenes
    <2> QED
      BY <1>2, <1>3 DEF Alike
  <1>5. seen.oracle.boots = seen.candidate.boots
    BY NoBoots DEF Modes
  <1>6. Odds(case.modes) = {"tmp", "scenarios"}
    BY DEF Odds, BootModes
  <1> QED
    BY <1>4, <1>5, <1>6 DEF SidesAgree

LEMMA BootPass ==
    ASSUME SidesLeft, NEW mode \in BootModes, case.modes = {mode}, Passes(CompareBoot(dirs))
    PROVE  SidesAgree
  <1> DEFINE o == seen["oracle"].view  c == seen["candidate"].view
             status == IF mode = "boot_drift" THEN "boot-status-1.txt" ELSE "boot-status.txt"
             raw == {"install-raw.trace", "remove-raw.trace"}
  <1>1. \A f \in (DOMAIN dirs.oracle) \ raw : dirs.oracle[f] = dirs.candidate[f]
    BY SurfacesFindNothing DEF CompareBoot
  <1>2. \A f \in BootOuts :
           /\ Wrote(OracleScript(case.modes, o), f, Text(o, f))
           /\ Wrote(CandidateScript(case.modes, c), f, Text(c, f))
    BY BootWrites
  <1>3. \A f \in BootOuts : Alike(f)
    <2>1. "residual.json" \notin BootOuts /\ BootOuts \cap raw = {}
      BY DEF BootOuts
    <2>2. \A f \in BootOuts : f \in DOMAIN dirs.oracle
      BY <1>2, <2>1, OracleLeft DEF Wrote
    <2>3. \A f \in BootOuts : dirs.oracle[f] = dirs.candidate[f]
      BY <1>1, <2>1, <2>2
    <2> QED
      BY <1>2, <2>1, <2>3, OutsAlike
  <1>4. \A view : /\ DOMAIN BootCheck({mode}, view, 1) = {status}
                  /\ BootCheck({mode}, view, 1)[status] = Text(view, "boot-status.txt")
    BY DEF BootCheck, :>
  <1>5. status \notin raw
    OBVIOUS
  <1> HIDE DEF status, raw
  <1>6. ASSUME Holds(dirs["oracle"], BootCheck({mode}, o, 1)), Holds(dirs["candidate"], BootCheck({mode}, c, 1))
        PROVE  Alike("boot-status.txt")
    <2>1. /\ Wrote(dirs.oracle, status, Text(o, "boot-status.txt"))
          /\ Wrote(dirs.candidate, status, Text(c, "boot-status.txt"))
      BY <1>4, <1>6 DEF Holds, Wrote
    <2>2. dirs.oracle[status] = dirs.candidate[status]
      BY <1>1, <1>5, <2>1 DEF Wrote
    <2> QED
      BY <2>1, <2>2, TextsAlike
  <1>7. /\ HoldsBoots(dirs["oracle"], case.modes, seen["oracle"], 0)
        /\ HoldsBoots(dirs["candidate"], case.modes, seen["candidate"], 0)
    BY DEF SidesLeft, OracleIsDone, CandidateIsDone, LeftBy
  <1>8. CASE mode # "boot_failure"
    <2>1. case.modes # {"boot_failure"} /\ Reboots(case.modes) > 0
      BY <1>8 DEF Reboots
    <2>2. Holds(dirs["oracle"], BootCheck({mode}, o, 1)) /\ Holds(dirs["candidate"], BootCheck({mode}, c, 1))
      BY <1>7, <2>1 DEF HoldsBoots, Reboots
    <2>3. seen.oracle.boots = seen.candidate.boots
      BY <1>8, NoBoots DEF BootModes, Modes
    <2>4. Alike("boot-status.txt")
      BY <1>6, <2>2
    <2>5. Odds(case.modes) = BootOuts \cup {"boot-status.txt"}
      BY DEF Odds, BootModes
    <2> QED
      BY <1>3, <2>3, <2>4, <2>5 DEF SidesAgree, BootModes
  <1>9. CASE mode = "boot_failure"
    <2>1. PICK x \in BOOLEAN : /\ seen["oracle"].boots = <<x>>
                               /\ Holds(dirs["oracle"], BootAttempt(x))
                               /\ x => Holds(dirs["oracle"], BootCheck({mode}, o, 1))
      BY <1>7, <1>9 DEF HoldsBoots
    <2>2. PICK y \in BOOLEAN : /\ seen["candidate"].boots = <<y>>
                               /\ Holds(dirs["candidate"], BootAttempt(y))
                               /\ y => Holds(dirs["candidate"], BootCheck({mode}, c, 1))
      BY <1>7, <1>9 DEF HoldsBoots
    <2>3. (IF x THEN "ready" ELSE "no ssh") = (IF y THEN "ready" ELSE "no ssh")
      <3> DEFINE attempt == "boot-attempt.txt"
      <3>1. \A up : /\ DOMAIN BootAttempt(up) = {attempt}
                    /\ BootAttempt(up)[attempt] = [text |-> IF up THEN "ready" ELSE "no ssh"]
        BY DEF BootAttempt, :>
      <3>2. dirs.oracle[attempt] = dirs.candidate[attempt]
        BY <1>1, <2>1, <3>1 DEF Holds, raw
      <3>3. dirs.oracle[attempt] = [text |-> IF x THEN "ready" ELSE "no ssh"]
        BY <2>1, <3>1 DEF Holds
      <3>4. dirs.candidate[attempt] = [text |-> IF y THEN "ready" ELSE "no ssh"]
        BY <2>2, <3>1 DEF Holds
      <3> DEFINE textx == IF x THEN "ready" ELSE "no ssh"
                 texty == IF y THEN "ready" ELSE "no ssh"
      <3>5. [text |-> textx] = [text |-> texty]
        BY <3>2, <3>3, <3>4
      <3>6. textx = texty
        <4> HIDE DEF textx, texty
        <4>1. [text |-> textx].text = [text |-> texty].text
          BY <3>5
        <4> QED
          BY <4>1
      <3> QED
        BY <3>6
    <2>4. x <=> y
      BY <2>3
    <2>5. seen.oracle.boots = seen.candidate.boots
      BY <2>1, <2>2, <2>4
    <2>6. Alike("boot-status.txt") \/ TRUE \notin Range(seen.oracle.boots)
      <3>1. CASE x
        BY <3>1, <1>6, <2>1, <2>2, <2>4
      <3>2. CASE ~x
        <4>1. \A z : Range(<<z>>) = {z}
          BY DEF Range
        <4>2. TRUE \notin {x}
          BY <3>2
        <4>3. Range(seen.oracle.boots) = {x}
          BY <2>1, <4>1
        <4> QED
          BY <4>2, <4>3
      <3> QED
        BY <3>1, <3>2
    <2>7. Odds(case.modes) = BootOuts \cup {"boot-status.txt"}
      BY DEF Odds, BootModes
    <2> QED
      BY <1>3, <1>9, <2>5, <2>6, <2>7 DEF SidesAgree
  <1> QED
    BY <1>8, <1>9

(* A comparison that finds nothing has seen the sides agree.               *)
LEMMA NothingFoundInItsMode ==
    ASSUME SidesLeft, NEW mode \in Modes, case.modes = {mode},
           Passes(CompareVm(dirs, case.modes, case.model))
    PROVE  SidesAgree
  <1>1. CASE mode = "close_transaction"
    BY <1>1, ModeCompares, ClosePass
  <1>2. CASE mode \in {"i18n_rendered", "gui_drive"}
    BY <1>2, ModeCompares, RenderedPass
  <1>3. CASE mode = "scx"
    BY <1>3, ModeCompares, ScxPass
  <1>4. CASE mode \in {"makepkg", "packaging"}
    BY <1>4, ModeCompares, SurfacesPass
  <1>5. CASE mode = "mutate"
    BY <1>5, ModeCompares, MutatePass
  <1>6. CASE mode \in {"configure", "transaction"}
    BY <1>6, ModeCompares, ChainPass
  <1>7. CASE mode = "terminal_matrix"
    BY <1>7, ModeCompares, MatrixPass
  <1>8. CASE mode \in BootModes
    BY <1>8, ModeCompares, BootPass
  <1> QED
    BY <1>1, <1>2, <1>3, <1>4, <1>5, <1>6, <1>7, <1>8 DEF Modes

(* What a machine left stays where nothing else is laid over it.           *)
LEMMA LeftStays ==
    ASSUME NEW side, NEW modes, NEW looked, NEW left, NEW residual, NEW files, NEW more,
           LeftBy(side, modes, looked, files, left, residual),
           \A f \in DOMAIN files : f \in DOMAIN more /\ more[f] = files[f]
    PROVE  LeftBy(side, modes, looked, more, left, residual)
  <1>1. HoldsScript(more, ScriptBy(side, modes, looked.view), residual)
    BY DEF LeftBy, HoldsScript
  <1>2. \A part : Holds(files, part) => Holds(more, part)
    BY DEF Holds
  <1>3. HoldsBoots(more, modes, looked, left)
    BY <1>2 DEF LeftBy, HoldsBoots
  <1> QED
    BY <1>1, <1>3 DEF LeftBy

(* The residual of the candidate is there under its other name after it    *)
(* has been renamed; nothing else of what the machine wrote has moved.     *)
LEMMA LeftIsRenamed ==
    ASSUME NEW modes, Modal(modes), NEW looked, NEW mine, NEW moved,
           LeftBy("candidate", modes, looked, mine, 0, "residual.json"),
           moved = IF "residual.json" \notin DOMAIN mine THEN mine
                   ELSE [f \in (DOMAIN mine \cup {"candidate-residual.json"}) \ {"residual.json"} |->
                            IF f = "candidate-residual.json" THEN mine["residual.json"] ELSE mine[f]]
    PROVE  LeftBy("candidate", modes, looked, moved, 0, "candidate-residual.json")
  <1> DEFINE script == ScriptBy("candidate", modes, looked.view)
  <1>1. "candidate-residual.json" \notin DOMAIN script
    BY ScriptWritesNothingLater DEF Later, Sides
  <1>2. HoldsScript(mine, script, "residual.json")
    BY DEF LeftBy
  <1>3. HoldsScript(moved, script, "candidate-residual.json")
    <2> HIDE DEF script
    <2> SUFFICES ASSUME NEW f \in DOMAIN script
                 PROVE  LET name == IF f = "residual.json" THEN "candidate-residual.json" ELSE f
                        IN  name \in DOMAIN moved /\ moved[name] = script[f]
      BY DEF HoldsScript
    <2>1. f \in DOMAIN mine /\ mine[f] = script[f] /\ f # "candidate-residual.json"
      BY <1>1, <1>2 DEF HoldsScript
    <2> QED
      BY <2>1
  <1>4. \A part : (Holds(mine, part) /\ DOMAIN part \cap {"residual.json", "candidate-residual.json"} = {})
                  => Holds(moved, part)
    BY DEF Holds
  <1>5. \A up : DOMAIN BootAttempt(up) = {"boot-attempt.txt"}
    BY DEF BootAttempt, :>
  <1>6. DOMAIN BootCheck(modes, looked.view, 1) \in {{"boot-status-1.txt"}, {"boot-status.txt"}}
    BY DEF BootCheck, :>
  <1>7. HoldsBoots(moved, modes, looked, 0)
    BY <1>4, <1>5, <1>6 DEF LeftBy, HoldsBoots
  <1> QED
    BY <1>3, <1>7 DEF LeftBy

(* The first thing a machine leaves is what its script wrote.              *)
LEMMA LeftByScript ==
    ASSUME NEW side, NEW modes, Modal(modes), NEW looked, NEW files, looked.boots = << >>
    PROVE  LeftBy(side, modes, looked, ScriptBy(side, modes, looked.view) @@ files,
                  Reboots(modes), "residual.json")
  <1> DEFINE script == ScriptBy(side, modes, looked.view)
             left == Reboots(modes)
  <1>1. left \in {0, 1, 3}
    BY DEF Reboots
  <1>2. HoldsScript(script @@ files, script, "residual.json")
    <2> HIDE DEF script
    <2> QED
      BY DEF HoldsScript, @@
  <1>3. HoldsBoots(script @@ files, modes, looked, left)
    <2>1. CASE modes = {"boot_failure"}
      <3>1. left = 1 /\ modes = {"boot_failure"}
        BY <2>1 DEF Reboots, BootModes
      <3> HIDE DEF left, script
      <3> QED
        BY <3>1 DEF HoldsBoots
    <2>2. CASE modes # {"boot_failure"}
      <3>1. modes # {"boot_failure"}
        BY <2>2
      <3>2. Reboots(modes) - left = 0
        BY <1>1
      <3>3. ~(Reboots(modes) - left > 0)
        BY <3>2
      <3> DEFINE none(x) == [i \in 1..0 |-> x]
      <3>4. \A x : none(x) = << >>
        OBVIOUS
      <3>5. looked.boots = none(TRUE)
        <4> HIDE DEF none
        <4> QED
          BY <3>4, Zenon
      <3>6. looked.boots = [i \in 1..(Reboots(modes) - left) |-> TRUE]
        BY <3>2, <3>5, Zenon
      <3> HIDE DEF left, script
      <3> QED
        BY ONLY <3>1, <3>3, <3>6 DEF HoldsBoots
    <2> QED
      BY <2>1, <2>2
  <1>4. left \in 0..Reboots(modes)
    BY <1>1
  <1> HIDE DEF left
  <1>5. LeftBy(side, modes, looked, script @@ files, left, "residual.json")
    <2> HIDE DEF script
    <2>1. HoldsScript(script @@ files, ScriptBy(side, modes, looked.view), "residual.json")
      BY <1>2 DEF script
    <2> QED
      BY <1>3, <1>4, <2>1, Zenon DEF LeftBy
  <1> QED
    BY <1>5, Zenon DEF script, left

(* One more reboot that succeeded.                                         *)
LEMMA OneMore ==
    ASSUME NEW x, NEW k \in Nat
    PROVE  Append([i \in 1..k |-> x], x) = [i \in 1..(k + 1) |-> x]
  <1> DEFINE s == [i \in 1..k |-> x]
  <1>1. s \in Seq({x}) /\ Len(s) = k
    OBVIOUS
  <1>2. Append(s, x) \in Seq({x}) /\ Len(Append(s, x)) = k + 1
    BY <1>1
  <1> HIDE DEF s
  <1>3. \A t \in Seq({x}) : t \in [1..Len(t) -> {x}]
    OBVIOUS
  <1>4. Append(s, x) \in [1..(k + 1) -> {x}]
    <2> HIDE DEF s
    <2> QED BY <1>2, <1>3
  <1>5. Append(s, x) = [i \in 1..(k + 1) |-> x]
    BY <1>4
  <1> QED
    BY <1>5 DEF s

(* A check after a reboot adds to what the machine left.                   *)
LEMMA LeftByReboot ==
    ASSUME NEW side \in Sides, NEW mode \in Modes, NEW looked, NEW files, NEW left,
           LeftBy(side, {mode}, looked, files, left, "residual.json"), left > 0,
           NEW up \in {TRUE} \cup {"boot_failure" \notin {mode}},
           NEW after, after.view = looked.view, after.boots = Append(looked.boots, up),
           NEW found,
           found = (IF up THEN BootCheck({mode}, looked.view, Reboots({mode}) + 1 - left) ELSE NoFiles)
                   @@ (IF "boot_failure" \in {mode} THEN BootAttempt(up) ELSE NoFiles)
    PROVE  LeftBy(side, {mode}, after, found @@ files, left - 1, "residual.json")
  <1> DEFINE n == Reboots({mode}) + 1 - left
             check(k) == BootCheck({mode}, looked.view, k)
             script == ScriptBy(side, {mode}, looked.view)
  <1>1. /\ left \in 0..Reboots({mode}) /\ HoldsScript(files, script, "residual.json")
        /\ HoldsBoots(files, {mode}, looked, left)
    BY DEF LeftBy
  <1>2. mode \in BootModes /\ Reboots({mode}) = IF mode = "boot_drift" THEN 3 ELSE 1
    BY <1>1 DEF Reboots, BootModes
  <1>3. left \in 1..Reboots({mode}) /\ n \in 1..Reboots({mode}) /\ n = Reboots({mode}) + 1 - left
    BY <1>1, <1>2
  <1>4. \A k \in 1..3 :
            DOMAIN check(k) = {IF mode = "boot_drift"
                               THEN <<"boot-status-1.txt", "boot-status-2.txt", "boot-status-3.txt">>[k]
                               ELSE "boot-status.txt"}
    BY DEF BootCheck, :>
  <1>5. DOMAIN check(n) \subseteq Later
    BY <1>2, <1>3, <1>4 DEF Later
  <1>6. DOMAIN BootAttempt(up) = {"boot-attempt.txt"} /\ DOMAIN NoFiles = {}
    BY DEF BootAttempt, NoFiles, :>
  <1> HIDE DEF n, check
  <1>7. found = (IF up THEN check(n) ELSE NoFiles) @@ (IF "boot_failure" \in {mode} THEN BootAttempt(up) ELSE NoFiles)
    BY Zenon DEF n, check
  <1>8. DOMAIN found \subseteq Later
    BY <1>5, <1>6, <1>7 DEF Later, @@
  <1>9. HoldsScript(found @@ files, script, "residual.json")
    <2>1. DOMAIN script \cap Later = {} /\ "residual.json" \notin DOMAIN script
      BY <1>2, ModeWritesNothingLater
    <2> HIDE DEF script
    <2> QED
      BY <1>1, <1>8, <2>1 DEF HoldsScript, @@
  <1>10. HoldsBoots(found @@ files, {mode}, after, left - 1)
    <2>1. CASE mode = "boot_failure"
      <3>1. left = 1 /\ n = 1 /\ {mode} = {"boot_failure"} /\ left - 1 = 0
        BY <1>2, <1>3, <2>1
      <3>2. looked.boots = << >>
        BY <1>1, <3>1 DEF HoldsBoots
      <3>3. up \in BOOLEAN /\ after.boots = <<up>>
        <4>1. \A x : Append(<< >>, x) = <<x>>
          OBVIOUS
        <4>2. up \in BOOLEAN
          BY <2>1
        <4> QED
          BY <3>2, <4>1, <4>2, Zenon
      <3>4. DOMAIN check(1) = {"boot-status.txt"}
        BY <1>4, <2>1
      <3>5. up => Holds(found @@ files, check(1))
        BY <1>7, <3>1, <3>4 DEF Holds, @@
      <3>6. Holds(found @@ files, BootAttempt(up))
        BY <1>6, <1>7, <2>1, <3>1, <3>4 DEF Holds, @@
      <3>7. check(1) = BootCheck({mode}, after.view, 1)
        BY DEF check
      <3> QED
        BY <3>1, <3>3, <3>5, <3>6, <3>7 DEF HoldsBoots
    <2>2. CASE mode # "boot_failure"
      <3>1. up = TRUE /\ {mode} # {"boot_failure"}
        BY <2>2
      <3> DEFINE k == Reboots({mode}) - left
      <3>2. k \in Nat /\ Reboots({mode}) - (left - 1) = k + 1 /\ k + 1 = n /\ k + 1 > 0
        BY <1>2, <1>3
      <3>3. looked.boots = [i \in 1..k |-> TRUE]
        BY <1>1, <3>1 DEF HoldsBoots
      <3>4. k > 0 => Holds(files, check(1))
        BY <1>1, <3>1 DEF HoldsBoots, check
      <3> HIDE DEF k
      <3>5. after.boots = [i \in 1..(k + 1) |-> TRUE]
        <4> DEFINE yes(b) == [i \in 1..k |-> b]  more(b) == [i \in 1..(k + 1) |-> b]
        <4>1. \A b : Append(yes(b), b) = more(b)
          BY <3>2, OneMore
        <4>2. after.boots = Append(yes(TRUE), TRUE)
          BY <3>1, <3>3, Zenon
        <4> HIDE DEF yes, more
        <4>3. after.boots = more(TRUE)
          BY <4>1, <4>2, Zenon
        <4> QED
          BY <4>3, Zenon DEF more
      <3>6. Holds(found @@ files, check(1))
        <4>1. found = check(n) @@ NoFiles
          BY <1>7, <3>1
        <4>2. CASE n = 1
          BY <4>1, <4>2 DEF Holds, @@
        <4>3. CASE n # 1
          <5>1. mode = "boot_drift" /\ k > 0 /\ n \in {2, 3}
            BY <1>2, <1>3, <3>2, <4>3
          <5>2. DOMAIN check(n) \cap DOMAIN check(1) = {}
            BY <1>4, <5>1
          <5>3. DOMAIN found = DOMAIN check(n)
            BY <1>6, <4>1 DEF @@
          <5> QED
            BY <3>4, <5>1, <5>2, <5>3 DEF Holds, @@
        <4> QED
          BY <4>2, <4>3
      <3>7. check(1) = BootCheck({mode}, after.view, 1)
        BY DEF check
      <3>8. after.boots = [i \in 1..(Reboots({mode}) - (left - 1)) |-> TRUE]
        BY <3>2, <3>5, Zenon
      <3> QED
        BY ONLY <3>1, <3>6, <3>7, <3>8 DEF HoldsBoots
    <2> QED
      BY <2>1, <2>2
  <1>11. left - 1 \in 0..Reboots({mode})
    BY <1>2, <1>3
  <1>12. HoldsScript(found @@ files, ScriptBy(side, {mode}, after.view), "residual.json")
    BY <1>9
  <1> QED
    BY <1>10, <1>11, <1>12, Zenon DEF LeftBy

(* A court in the machines has one mode at most.                           *)
LEMMA PassMode ==
    ASSUME case \in Cases
    PROVE  Modal(case.modes)
  BY ModesAssumption DEF Modal

LEMMA UnseenShape ==
    /\ Unseen = [side \in Sides |-> [view |-> Unseen[side].view, boots |-> Unseen[side].boots]]
    /\ \A side \in Sides : Unseen[side].boots = << >>
  BY DEF Unseen

LEMMA PassInit == Init => PassInv
  <1> SUFFICES ASSUME Init PROVE PassInv
    OBVIOUS
  <1>1. case \in Cases /\ runner.pc = "idle" /\ runner.how = "" /\ seen = Unseen
    BY IdleShape DEF Init
  <1>2. SeenShape
    BY <1>1, UnseenShape DEF SeenShape
  <1>3. SeenByPhase
    BY <1>1 DEF SeenByPhase
  <1> QED
    BY <1>1, <1>2, <1>3 DEF PassInv

(* Where no machines run nothing has been seen.                            *)
LEMMA PassWhenUnseen ==
    ASSUME PassInv, UNCHANGED case, seen' = Unseen, runner'.how # "vm",
           runner'.pc \notin {"start", "cleanup", "script", "reboot", "rename", "compare"}
    PROVE  PassInv'
  <1>1. SeenShape'
    BY UnseenShape DEF SeenShape
  <1>2. SeenByPhase'
    BY DEF SeenByPhase
  <1> QED
    BY <1>1, <1>2 DEF PassInv

(* What the machine of the oracle left stays while the candidate's runs.   *)
LEMMA OracleStaysDone ==
    ASSUME OracleIsDone, UNCHANGED case, seen'["oracle"] = seen["oracle"], dirs'["oracle"] = dirs["oracle"]
    PROVE  OracleIsDone'
  BY DEF OracleIsDone

LEMMA SidesStillAgree ==
    ASSUME SidesAgree, UNCHANGED <<case, seen>>
    PROVE  SidesAgree'
  BY DEF SidesAgree, Alike

(* What is seen of a side changes in one field at a time.                  *)
LEMMA SeenStaysShaped ==
    ASSUME SeenShape, NEW side \in Sides, NEW view, NEW boots,
           \/ seen' = [seen EXCEPT ![side].view = view]
           \/ seen' = [seen EXCEPT ![side].boots = boots]
    PROVE  SeenShape'
  <1>1. DOMAIN seen = Sides /\ DOMAIN seen' = Sides
    BY Zenon DEF SeenShape
  <1>2. \A s \in Sides : seen[s] = [view |-> seen[s].view, boots |-> seen[s].boots]
    BY Zenon DEF SeenShape
  <1>3. \A s \in Sides : seen'[s] = [view |-> seen'[s].view, boots |-> seen'[s].boots]
    <2> SUFFICES ASSUME NEW s \in Sides
                 PROVE  seen'[s] = [view |-> seen'[s].view, boots |-> seen'[s].boots]
      OBVIOUS
    <2>1. seen[s] = [view |-> seen[s].view, boots |-> seen[s].boots]
      BY <1>2
    <2>2. seen'[s] \in {seen[s], [seen[s] EXCEPT !.view = view], [seen[s] EXCEPT !.boots = boots]}
      BY <1>1
    <2>3. CASE seen'[s] = seen[s]
      BY <2>1, <2>3, Zenon
    <2>4. CASE seen'[s] = [seen[s] EXCEPT !.view = view]
      <3>1. seen'[s] = [view |-> view, boots |-> seen[s].boots]
        BY <2>1, <2>4
      <3> QED BY <3>1
    <2>5. CASE seen'[s] = [seen[s] EXCEPT !.boots = boots]
      <3>1. seen'[s] = [view |-> seen[s].view, boots |-> boots]
        BY <2>1, <2>5
      <3> QED BY <3>1
    <2> QED
      BY <2>2, <2>3, <2>4, <2>5
  <1>4. seen' = [s \in Sides |-> seen'[s]]
    <2>1. seen' = [s \in DOMAIN seen |-> seen'[s]]
      OBVIOUS
    <2> QED BY <1>1, <2>1
  <1> QED
    BY <1>3, <1>4 DEF SeenShape

(* The script of a side is run: what it wrote is all there is of it yet.   *)
LEMMA PassScript ==
    ASSUME PassInv, RunnerShape, NEW modes, modes = case.modes, Modal(modes), ScriptRuns
    PROVE  PassInv'
  <1>1. PICK view : /\ seen' = [seen EXCEPT ![runner.side].view = view]
                    /\ share' = Script(runner.side, view) @@ share
                    /\ runner' = [runner EXCEPT !.pc = "reboot", !.left = Reboots(case.modes)]
                    /\ runner.pc = "script" /\ UNCHANGED <<case, dirs>>
    BY DEF ScriptRuns
  <1>2. SeenShape /\ SeenByPhase
    BY DEF PassInv
  <1>3. /\ runner'.pc = "reboot" /\ runner'.side = runner.side /\ runner'.left = Reboots(modes)
        /\ runner'.how = runner.how /\ runner.side \in Sides
    BY <1>1 DEF RunnerShape
  <1>4. /\ DOMAIN seen = Sides
        /\ \A side \in Sides : seen[side] = [view |-> seen[side].view, boots |-> seen[side].boots]
    BY <1>2, Zenon DEF SeenShape
  <1>5. /\ seen'[runner.side].view = view /\ seen'[runner.side].boots = seen[runner.side].boots
        /\ \A side \in Sides \ {runner.side} : seen'[side] = seen[side]
    BY <1>1, <1>3, <1>4
  <1>6. SeenShape'
    BY <1>1, <1>2, <1>3, SeenStaysShaped
  <1>7. seen[runner.side].boots = << >>
    BY <1>1, <1>2 DEF SeenByPhase
  <1>8. share' = ScriptBy(runner.side, modes, view) @@ share
    BY <1>1, <1>3 DEF Script, ScriptBy
  <1>9. LeftBy(runner.side, modes, seen'[runner.side], share', Reboots(modes), "residual.json")
    <2> DEFINE looked == seen'[runner.side]
    <2>1. looked.boots = << >> /\ looked.view = view
      BY <1>5, <1>7
    <2> HIDE DEF looked
    <2>2. LeftBy(runner.side, modes, looked, ScriptBy(runner.side, modes, looked.view) @@ share,
                 Reboots(modes), "residual.json")
      BY ONLY <2>1, LeftByScript, Modal(modes)
    <2>3. LeftBy(runner.side, modes, looked, share', Reboots(modes), "residual.json")
      BY <1>8, <2>1, <2>2, Zenon
    <2> QED
      BY <2>3, Zenon DEF looked
  <1>10. runner.side = "candidate" => OracleIsDone'
    <2> SUFFICES ASSUME runner.side = "candidate" PROVE OracleIsDone'
      OBVIOUS
    <2>1. OracleIsDone
      BY <1>1, <1>2 DEF SeenByPhase
    <2> QED
      BY <1>1, <1>5, <2>1, OracleStaysDone DEF Sides
  <1>11. runner.side = "oracle" => seen'["candidate"].boots = << >>
    BY <1>1, <1>2, <1>5 DEF SeenByPhase, Sides
  <1>12. runner'.how = "vm"
    BY <1>1, <1>2, <1>3 DEF SeenByPhase
  <1>13. LeftBy(runner'.side, case'.modes, seen'[runner'.side], share', runner'.left, "residual.json")
    BY <1>1, <1>3, <1>9, Zenon
  <1>14. SeenByPhase'
    BY <1>3, <1>10, <1>11, <1>12, <1>13 DEF SeenByPhase
  <1> QED
    BY <1>1, <1>6, <1>14 DEF PassInv

(* A reboot and its check.                                                 *)
LEMMA PassReboot ==
    ASSUME PassInv, RunnerShape, RebootsAndChecks
    PROVE  PassInv'
  <1> DEFINE found(up) == (IF up THEN BootCheck(case.modes, seen[runner.side].view, Reboots(case.modes) + 1 - runner.left)
                           ELSE NoFiles)
                          @@ (IF "boot_failure" \in case.modes THEN BootAttempt(up) ELSE NoFiles)
  <1>1. PICK up \in {TRUE} \cup {"boot_failure" \notin case.modes} :
            /\ seen' = [seen EXCEPT ![runner.side].boots = Append(@, up)]
            /\ share' = found(up) @@ share
            /\ runner' = [runner EXCEPT !.left = @ - 1]
            /\ runner.pc = "reboot" /\ runner.left > 0 /\ UNCHANGED <<case, dirs>>
    BY DEF RebootsAndChecks
  <1>2. SeenShape /\ SeenByPhase
    BY DEF PassInv
  <1>m. PICK mode \in Modes : case.modes = {mode}
    <2>1. runner.left \in 0..Reboots(case.modes)
      BY <1>1, <1>2 DEF SeenByPhase, LeftBy
    <2>2. case.modes # {}
      BY <1>1, <2>1 DEF Reboots
    <2> QED
      BY <2>2, PassMode DEF Modal, PassInv
  <1>3. /\ runner'.pc = "reboot" /\ runner'.side = runner.side /\ runner'.left = runner.left - 1
        /\ runner'.how = runner.how /\ runner.side \in Sides
    BY <1>1 DEF RunnerShape
  <1>4. /\ DOMAIN seen = Sides
        /\ \A side \in Sides : seen[side] = [view |-> seen[side].view, boots |-> seen[side].boots]
    BY <1>2, Zenon DEF SeenShape
  <1>5. /\ seen'[runner.side].view = seen[runner.side].view
        /\ seen'[runner.side].boots = Append(seen[runner.side].boots, up)
        /\ \A side \in Sides \ {runner.side} : seen'[side] = seen[side]
    <2> DEFINE more == Append(seen[runner.side].boots, up)
    <2>1. seen' = [seen EXCEPT ![runner.side].boots = more]
      BY <1>1
    <2> HIDE DEF more
    <2>2. /\ seen'[runner.side].view = seen[runner.side].view /\ seen'[runner.side].boots = more
          /\ \A side \in Sides \ {runner.side} : seen'[side] = seen[side]
      BY <1>3, <1>4, <2>1
    <2> QED
      BY <2>2, Zenon DEF more
  <1>6. SeenShape'
    <2>1. \E more : seen' = [seen EXCEPT ![runner.side].boots = more]
      BY <1>1
    <2> QED
      BY <1>2, <1>3, <2>1, SeenStaysShaped
  <1>7. LeftBy(runner.side, {mode}, seen[runner.side], share, runner.left, "residual.json")
    BY <1>1, <1>2, <1>m DEF SeenByPhase
  <1>8. LeftBy(runner.side, {mode}, seen'[runner.side], share', runner.left - 1, "residual.json")
    <2> DEFINE looked == seen[runner.side]  after == seen'[runner.side]  what == found(up)
    <2>1. /\ after.view = looked.view /\ after.boots = Append(looked.boots, up)
          /\ share' = what @@ share /\ runner.left > 0
          /\ up \in {TRUE} \cup {"boot_failure" \notin {mode}}
      BY <1>1, <1>5, <1>m
    <2>2. what = (IF up THEN BootCheck({mode}, looked.view, Reboots({mode}) + 1 - runner.left) ELSE NoFiles)
                 @@ (IF "boot_failure" \in {mode} THEN BootAttempt(up) ELSE NoFiles)
      BY <1>m
    <2>3. LeftBy(runner.side, {mode}, looked, share, runner.left, "residual.json")
      BY <1>7
    <2> HIDE DEF looked, after, what, found
    <2>4. runner.side \in Sides /\ mode \in Modes
      BY <1>3, <1>m
    <2>5. LeftBy(runner.side, {mode}, after, what @@ share, runner.left - 1, "residual.json")
      BY ONLY <2>1, <2>2, <2>3, <2>4, LeftByReboot, ZenonT(30)
    <2> QED
      BY <2>1, <2>5, Zenon DEF after
  <1>9. runner.side = "candidate" => OracleIsDone'
    <2> SUFFICES ASSUME runner.side = "candidate" PROVE OracleIsDone'
      OBVIOUS
    <2>1. OracleIsDone
      BY <1>1, <1>2 DEF SeenByPhase
    <2> QED
      BY <1>1, <1>5, <2>1, OracleStaysDone DEF Sides
  <1>10. runner.side = "oracle" => seen'["candidate"].boots = << >>
    BY <1>1, <1>2, <1>5 DEF SeenByPhase, Sides
  <1>11. runner'.how = "vm"
    BY <1>1, <1>2, <1>3 DEF SeenByPhase
  <1>12. LeftBy(runner'.side, case'.modes, seen'[runner'.side], share', runner'.left, "residual.json")
    BY <1>1, <1>3, <1>8, <1>m, Zenon
  <1>13. SeenByPhase'
    BY <1>3, <1>9, <1>10, <1>11, <1>12 DEF SeenByPhase
  <1> QED
    BY <1>1, <1>6, <1>13 DEF PassInv

(* What the machine left is laid over what the directory held.             *)
LEMMA PassCopied ==
    ASSUME PassInv, RunnerShape, OwnInv, NEW modes, modes = case.modes, Modal(modes), CopiesOut
    PROVE  PassInv'
  <1> DEFINE side == runner.side
  <1>1. /\ runner.pc = "reboot" /\ runner.left = 0
        /\ dirs' = [dirs EXCEPT ![side] = share @@ @]
        /\ UNCHANGED <<case, seen>>
    BY DEF CopiesOut, history
  <1>2. SeenShape /\ SeenByPhase
    BY DEF PassInv
  <1>3. /\ side \in Sides /\ DOMAIN dirs = Sides /\ runner'.how = runner.how
        /\ side = "oracle" => runner'.pc = "start" /\ runner'.side = "candidate"
        /\ side = "candidate" => runner'.pc = "rename" /\ runner'.side = "candidate"
    BY DEF CopiesOut, RunnerShape, OwnInv, Sides
  <1>4. LeftBy(side, modes, seen[side], share, 0, "residual.json")
    BY <1>1, <1>2 DEF SeenByPhase
  <1>5. \A f \in DOMAIN share : f \in DOMAIN dirs'[side] /\ dirs'[side][f] = share[f]
    BY <1>1, <1>3 DEF @@
  <1> HIDE DEF side
  <1>6. LeftBy(side, modes, seen[side], dirs'[side], 0, "residual.json")
    BY ONLY <1>4, <1>5, LeftStays
  <1>7. runner.how = "vm" /\ runner'.how = "vm"
    BY <1>1, <1>2, <1>3 DEF SeenByPhase
  <1>8. CASE side = "oracle"
    <2>1. OracleIsDone'
      BY <1>1, <1>6, <1>8 DEF OracleIsDone
    <2>2. seen["candidate"].boots = << >>
      BY <1>1, <1>2, <1>8 DEF SeenByPhase, side
    <2> QED
      BY <1>1, <1>2, <1>3, <1>7, <1>8, <2>1, <2>2 DEF PassInv, SeenByPhase, SeenShape
  <1>9. CASE side = "candidate"
    <2>1. CandidateIsDone("residual.json")'
      BY <1>1, <1>6, <1>9 DEF CandidateIsDone
    <2>2. OracleIsDone
      BY <1>1, <1>2, <1>9 DEF SeenByPhase, side
    <2>3. OracleIsDone'
      BY <1>1, <1>3, <1>9, <2>2, OracleStaysDone DEF Sides
    <2> QED
      BY <1>1, <1>2, <1>3, <1>7, <1>9, <2>1, <2>3 DEF PassInv, SeenByPhase, SeenShape
  <1> QED
    BY <1>3, <1>8, <1>9 DEF Sides

(* The residual of the candidate gets its other name.                      *)
LEMMA PassRenamed ==
    ASSUME PassInv, RunnerShape, OwnInv, NEW modes, modes = case.modes, Modal(modes), RenamesResidual
    PROVE  PassInv'
  <1> DEFINE mine == dirs["candidate"]
             moved == IF "residual.json" \notin DOMAIN mine THEN mine
                      ELSE [f \in (DOMAIN mine \cup {"candidate-residual.json"}) \ {"residual.json"} |->
                               IF f = "candidate-residual.json" THEN mine["residual.json"] ELSE mine[f]]
  <1>1. /\ runner.pc = "rename" /\ runner' = [runner EXCEPT !.pc = "compare"]
        /\ dirs' = IF "residual.json" \notin DOMAIN mine THEN dirs ELSE [dirs EXCEPT !["candidate"] = moved]
        /\ UNCHANGED <<case, seen>>
    BY DEF RenamesResidual, history
  <1>2. SeenShape /\ SeenByPhase
    BY DEF PassInv
  <1>3. runner'.pc = "compare" /\ runner'.how = "vm"
    BY <1>1, <1>2 DEF RunnerShape, SeenByPhase
  <1>4. dirs'["candidate"] = moved /\ dirs'["oracle"] = dirs["oracle"]
    <2>1. CASE "residual.json" \notin DOMAIN mine
      BY <1>1, <2>1
    <2>2. CASE "residual.json" \in DOMAIN mine
      <3>1. dirs' = [dirs EXCEPT !["candidate"] = moved]
        BY <1>1, <2>2
      <3> HIDE DEF moved
      <3> QED
        BY <3>1 DEF OwnInv, Sides
    <2> QED
      BY <2>1, <2>2
  <1>5. LeftBy("candidate", modes, seen["candidate"], mine, 0, "residual.json")
    BY <1>1, <1>2 DEF SeenByPhase, CandidateIsDone
  <1>6. LeftBy("candidate", modes, seen["candidate"], moved, 0, "candidate-residual.json")
    <2> DEFINE looked == seen["candidate"]
    <2>1. LeftBy("candidate", modes, looked, mine, 0, "residual.json")
      BY <1>5
    <2> HIDE DEF looked, mine
    <2>2. LeftBy("candidate", modes, looked, moved, 0, "candidate-residual.json")
      BY ONLY <2>1, Modal(modes), LeftIsRenamed
    <2> QED
      BY <2>2, Zenon DEF looked
  <1> HIDE DEF moved
  <1>7. CandidateIsDone("candidate-residual.json")'
    BY <1>1, <1>4, <1>6 DEF CandidateIsDone
  <1>8. OracleIsDone'
    BY <1>1, <1>2, <1>4, OracleStaysDone DEF SeenByPhase
  <1> QED
    BY <1>1, <1>2, <1>3, <1>7, <1>8 DEF PassInv, SeenByPhase, SeenShape

ViewsShown == \A side \in Sides : Shown(seen[side].view)

(* Every window that is shown is one that an original or a candidate shows. *)
ShownInv == case \in Cases /\ SeenShape /\ ViewsShown
LEMMA NobodyShown == \A side \in Sides : Shown(Unseen[side].view)
  <1>1. Nobody.rows = << >>
    BY DEF Nobody, View
  <1>2. \A side \in Sides : Unseen[side].view = Nobody
    BY DEF Unseen
  <1>3. << >> \in Seq({<< >>[i] : i \in DOMAIN << >>}) /\ DOMAIN << >> = {}
    OBVIOUS
  <1>4. Shown(Nobody)
    BY <1>1, <1>3 DEF Shown
  <1> QED
    BY <1>2, <1>4

LEMMA ShownInit == Init => ShownInv
  BY NobodyShown, UnseenShape DEF Init, ShownInv, SeenShape, ViewsShown

LEMMA ShownNext == ShownInv /\ RunnerShape /\ [Next]_vars => ShownInv'
  <1> SUFFICES ASSUME ShownInv, RunnerShape, [Next]_vars PROVE ShownInv'
    OBVIOUS
  <1>0. case \in Cases /\ UNCHANGED case /\ SeenShape /\ ViewsShown
    BY DEF ShownInv, Next, vars, Builds, VmStarts, EmptiesOut, StaleMachineWrites, MachineStarts,
           ScriptRuns, MachineFails, RebootsAndChecks, CopiesOut, RenamesResidual, Compares,
           WitnessStarts, WitnessWrites, PlainRun, WritesLedger, WritesEvidence, StartsRelease,
           WritesReleaseFile, Killed
  <1>1. CASE seen' = seen
    BY <1>0, <1>1 DEF ShownInv, SeenShape, ViewsShown
  <1>2. CASE seen' = Unseen
    BY <1>0, <1>2, NobodyShown, UnseenShape DEF ShownInv, SeenShape, ViewsShown
  <1>d. DOMAIN seen = Sides /\ runner.side \in Sides
    BY <1>0, Zenon DEF SeenShape, RunnerShape
  <1>f. \A side \in Sides : seen[side] = [view |-> seen[side].view, boots |-> seen[side].boots]
    BY <1>0, Zenon DEF SeenShape
  <1>3. CASE ScriptRuns
    <2>1. PICK view \in Views(runner.side) : seen' = [seen EXCEPT ![runner.side].view = view]
      BY <1>3 DEF ScriptRuns
    <2>2. Shown(view)
      BY <1>0, ShownViews
    <2>3. SeenShape'
      BY <1>0, <1>d, <2>1, SeenStaysShaped
    <2>4. \A side \in Sides : seen'[side].view = IF side = runner.side THEN view ELSE seen[side].view
      BY <1>d, <1>f, <2>1
    <2>5. ViewsShown'
      BY <1>0, <2>2, <2>4 DEF ViewsShown
    <2> QED
      BY <1>0, <2>3, <2>5 DEF ShownInv
  <1>4. CASE RebootsAndChecks
    <2>1. PICK boots : seen' = [seen EXCEPT ![runner.side].boots = boots]
      BY <1>4 DEF RebootsAndChecks
    <2>2. SeenShape'
      BY <1>0, <1>d, <2>1, SeenStaysShaped
    <2>3. \A side \in Sides : seen'[side].view = seen[side].view
      BY <1>d, <1>f, <2>1
    <2>4. ViewsShown'
      BY <1>0, <2>3 DEF ViewsShown
    <2> QED
      BY <1>0, <2>2, <2>4 DEF ShownInv
  <1>5. seen' = seen \/ seen' = Unseen \/ ScriptRuns \/ RebootsAndChecks
    BY DEF Next, vars, history, Ends, Builds, VmStarts, EmptiesOut, StaleMachineWrites, MachineStarts,
           MachineFails, CopiesOut, RenamesResidual, Compares, WitnessStarts, WitnessWrites,
           PlainRun, WritesLedger, WritesEvidence, StartsRelease, WritesReleaseFile, Killed
  <1> QED
    BY <1>1, <1>2, <1>3, <1>4, <1>5

(* The operations of Observations that are folded over lists, by name.     *)
KeepCell(kept, e) == IF e.role \in CellRoles THEN Append(kept, e) ELSE kept
KeepHeader(kept, e) == IF e.role \in HeaderRoles THEN Append(kept, e) ELSE kept
KeepRow(kept, e) == IF e.role \in RowRoles THEN Append(kept, e) ELSE kept
KeepOther(kept, e) ==
    IF e.role \notin RowRoles \cup CellRoles \cup HeaderRoles THEN Append(kept, e) ELSE kept
KeepText(kept, t) == IF t # "" THEN Append(kept, t) ELSE kept
PlaceFour(rows, cell) ==
    IF HasState(cell, "checkable") THEN Append(rows, <<cell>>)
    ELSE IF rows # << >> /\ Len(Seqs!Last(rows)) < 4
         THEN Append(Seqs!Front(rows), Append(Seqs!Last(rows), cell))
         ELSE rows
AddTexts(texts, child) ==
    IF child.role \in {"CHECK_BOX", "CHECKBOX"} THEN texts
    ELSE LET with == texts \o Texts(<<child.text>>)
         IN  IF Seqs!Contains(with, child.name) THEN with ELSE with \o Texts(<<child.name>>)
TakeText(row, t) ==
    CASE t \in VersionLike /\ row.version = "" -> [row EXCEPT !.version = t]
      [] ~(t \in VersionLike /\ row.version = "") /\ t \in Categories /\ row.category = "" ->
            [row EXCEPT !.category = t]
      [] OTHER -> IF row.raw = "" THEN [row EXCEPT !.raw = t] ELSE row
Collect(obs, node) == CollectObservations(node, obs)
DescendOutside(nodes, level) == Descend(nodes, level, NotInRows)
DescendInto(nodes, level) == Descend(nodes, level, Children)

CellFold == INSTANCE ListFolds WITH Op <- KeepCell
HeaderFold == INSTANCE ListFolds WITH Op <- KeepHeader
RowFold == INSTANCE ListFolds WITH Op <- KeepRow
OtherFold == INSTANCE ListFolds WITH Op <- KeepOther
TextFold == INSTANCE ListFolds WITH Op <- KeepText
PlaceFold == INSTANCE ListFolds WITH Op <- PlaceFour
AddFold == INSTANCE ListFolds WITH Op <- AddTexts
TakeFold == INSTANCE ListFolds WITH Op <- TakeText
CollectFold == INSTANCE ListFolds WITH Op <- Collect
OutsideFold == INSTANCE ListFolds WITH Op <- DescendOutside
IntoFold == INSTANCE ListFolds WITH Op <- DescendInto

LEMMA CellsKept == ASSUME NEW s PROVE InRoles(s, CellRoles) = CellFold!Folded(<< >>, s)
  BY DEF InRoles, Kept, KeepCell, CellFold!Folded, Seqs!FoldLeft,
         CellFold!MapThenFoldSet, Seqs!MapThenFoldSet, CellFold!Greatest, Seqs!Max
LEMMA HeadersKept == ASSUME NEW s PROVE InRoles(s, HeaderRoles) = HeaderFold!Folded(<< >>, s)
  BY DEF InRoles, Kept, KeepHeader, HeaderFold!Folded, Seqs!FoldLeft,
         HeaderFold!MapThenFoldSet, Seqs!MapThenFoldSet, HeaderFold!Greatest, Seqs!Max
LEMMA RowsKept == ASSUME NEW s PROVE InRoles(s, RowRoles) = RowFold!Folded(<< >>, s)
  BY DEF InRoles, Kept, KeepRow, RowFold!Folded, Seqs!FoldLeft,
         RowFold!MapThenFoldSet, Seqs!MapThenFoldSet, RowFold!Greatest, Seqs!Max
LEMMA OthersKept ==
    ASSUME NEW node
    PROVE  NotInRows(node) = IF node.role \in TreeRoles THEN OtherFold!Folded(<< >>, node.children)
                             ELSE node.children
  BY DEF NotInRows, Kept, KeepOther, OtherFold!Folded, Seqs!FoldLeft,
         OtherFold!MapThenFoldSet, Seqs!MapThenFoldSet, OtherFold!Greatest, Seqs!Max
LEMMA TextsKept == ASSUME NEW s PROVE Texts(s) = TextFold!Folded(<< >>, s)
  BY DEF Texts, Kept, KeepText, TextFold!Folded, Seqs!FoldLeft,
         TextFold!MapThenFoldSet, Seqs!MapThenFoldSet, TextFold!Greatest, Seqs!Max
LEMMA RowsPlaced ==
    ASSUME NEW cells
    PROVE  LET rows == PlaceFold!Folded(<< >>, cells)
           IN  rows # << >> => FlatRows(cells, 4) = rows
  BY DEF FlatRows, PlaceFour, PlaceFold!Folded, Seqs!FoldLeft,
         PlaceFold!MapThenFoldSet, Seqs!MapThenFoldSet, PlaceFold!Greatest, Seqs!Max
LEMMA TextsAdded ==
    ASSUME NEW node
    PROVE  CellTexts(node) = AddFold!Folded(Texts(<<node.text>>), node.children)
  BY DEF CellTexts, AddTexts, AddFold!Folded, Seqs!FoldLeft,
         AddFold!MapThenFoldSet, Seqs!MapThenFoldSet, AddFold!Greatest, Seqs!Max
LEMMA TextsTaken ==
    ASSUME NEW node
    PROVE  RowFromNode(node) =
              IF CellTexts(node) = << >> THEN << >>
              ELSE <<TakeFold!Folded(Row("", "", "", NodeChecked(node)), CellTexts(node))>>
  BY DEF RowFromNode, TakeText, TakeFold!Folded, Seqs!FoldLeft,
         TakeFold!MapThenFoldSet, Seqs!MapThenFoldSet, TakeFold!Greatest, Seqs!Max
LEMMA Collected ==
    ASSUME NEW tree
    PROVE  OracleObservation(tree) =
              CollectFold!Folded([rows |-> << >>, dialogs |-> << >>], Preorder(tree, NotInRows, TreeDepth))
  BY DEF OracleObservation, Collect, CollectFold!Folded, Seqs!FoldLeft,
         CollectFold!MapThenFoldSet, Seqs!MapThenFoldSet, CollectFold!Greatest, Seqs!Max
LEMMA DescendedOutside ==
    ASSUME NEW root, NEW depth
    PROVE  Preorder(root, NotInRows, depth) =
              LET nodes == OutsideFold!Folded(<<On(root, 0)>>, [level \in 1..depth |-> level - 1])
              IN  [i \in DOMAIN nodes |-> nodes[i].node]
  BY DEF Preorder, DescendOutside, OutsideFold!Folded, Seqs!FoldLeft,
         OutsideFold!MapThenFoldSet, Seqs!MapThenFoldSet, OutsideFold!Greatest, Seqs!Max
LEMMA DescendedInto ==
    ASSUME NEW root, NEW depth
    PROVE  Preorder(root, Children, depth) =
              LET nodes == IntoFold!Folded(<<On(root, 0)>>, [level \in 1..depth |-> level - 1])
              IN  [i \in DOMAIN nodes |-> nodes[i].node]
  BY DEF Preorder, DescendInto, IntoFold!Folded, Seqs!FoldLeft,
         IntoFold!MapThenFoldSet, Seqs!MapThenFoldSet, IntoFold!Greatest, Seqs!Max

(* A library operator is the same through every instance of its module.    *)
LEMMA FlattenIs == ASSUME NEW s PROVE Seqs!FlattenSeq(s) = CellFold!EndToEnd(s)
  BY DEF Seqs!FlattenSeq, CellFold!EndToEnd

LEMMA Flattened ==
    ASSUME NEW S
    PROVE  /\ Seqs!FlattenSeq(<< >>) = << >>
           /\ \A seqs \in Seq(Seq(S)) : Seqs!FlattenSeq(seqs) \in Seq(S)
           /\ \A seqs \in Seq(Seq(S)), s \in Seq(S) :
                 Seqs!FlattenSeq(Append(seqs, s)) = Seqs!FlattenSeq(seqs) \o s
  BY FlattenIs, CellFold!FlattenEmpty, CellFold!FlattenIsAList, CellFold!FlattenAppend

(* The cells of the rows of a list, and the lists of cells row by row.     *)
CellNodes(R) ==
    {Check(r) : r \in R} \cup {Node("56", r.raw, {}, << >>) : r \in R}
    \cup {Node("56", r.version, {}, << >>) : r \in R} \cup {Node("56", r.category, {}, << >>) : r \in R}
ByRow(rows) == [i \in DOMAIN rows |-> Cells(rows[i])]
AllCells(rows) == Seqs!FlattenSeq(ByRow(rows))

LEMMA CellsOfARow ==
    ASSUME NEW R, NEW r \in R
    PROVE  Cells(r) \in Seq(CellNodes(R))
  <1>1. /\ Check(r) \in CellNodes(R) /\ Node("56", r.raw, {}, << >>) \in CellNodes(R)
        /\ Node("56", r.version, {}, << >>) \in CellNodes(R)
        /\ Node("56", r.category, {}, << >>) \in CellNodes(R)
    BY Zenon DEF CellNodes
  <1> QED
    BY <1>1 DEF Cells

LEMMA ByRowIs ==
    ASSUME NEW R
    PROVE  /\ ByRow(<< >>) = << >>
           /\ \A rows \in Seq(R) : ByRow(rows) \in Seq(Seq(CellNodes(R)))
           /\ \A rows \in Seq(R), r \in R : ByRow(Append(rows, r)) = Append(ByRow(rows), Cells(r))
  <1>1. ByRow(<< >>) = << >>
    BY DEF ByRow
  <1>2. ASSUME NEW rows \in Seq(R)
        PROVE  ByRow(rows) \in Seq(Seq(CellNodes(R)))
    <2>1. \A i \in DOMAIN rows : Cells(rows[i]) \in Seq(CellNodes(R))
      BY CellsOfARow
    <2> QED
      BY <2>1 DEF ByRow
  <1>3. ASSUME NEW rows \in Seq(R), NEW r \in R
        PROVE  ByRow(Append(rows, r)) = Append(ByRow(rows), Cells(r))
    BY DEF ByRow
  <1> QED
    BY <1>1, <1>2, <1>3

LEMMA AllCellsAre ==
    ASSUME NEW R
    PROVE  /\ AllCells(<< >>) = << >>
           /\ \A rows \in Seq(R) : AllCells(rows) \in Seq(CellNodes(R))
           /\ \A rows \in Seq(R), r \in R : AllCells(Append(rows, r)) = AllCells(rows) \o Cells(r)
  <1>1. AllCells(<< >>) = << >>
    BY ByRowIs, Flattened DEF AllCells
  <1>2. ASSUME NEW rows \in Seq(R)
        PROVE  AllCells(rows) \in Seq(CellNodes(R))
    BY ByRowIs, Flattened DEF AllCells
  <1>3. ASSUME NEW rows \in Seq(R), NEW r \in R
        PROVE  AllCells(Append(rows, r)) = AllCells(rows) \o Cells(r)
    <2>1. ByRow(rows) \in Seq(Seq(CellNodes(R))) /\ Cells(r) \in Seq(CellNodes(R))
      BY ByRowIs, CellsOfARow
    <2>2. Seqs!FlattenSeq(Append(ByRow(rows), Cells(r))) = Seqs!FlattenSeq(ByRow(rows)) \o Cells(r)
      BY <2>1, Flattened
    <2>3. ByRow(Append(rows, r)) = Append(ByRow(rows), Cells(r))
      BY ByRowIs
    <2> QED BY <2>2, <2>3 DEF AllCells
  <1> QED
    BY <1>1, <1>2, <1>3

(* Row by row is how the cells are placed.                                 *)
LEMMA PlaceNext ==
    ASSUME NEW S, NEW P \in Seq(Seq(S)), NEW q \in Seq(S), Len(q) < 4, NEW c \in S,
           ~HasState(c, "checkable")
    PROVE  PlaceFour(Append(P, q), c) = Append(P, Append(q, c))
  <1>1. /\ Append(P, q) # << >> /\ Seqs!Last(Append(P, q)) = q
        /\ Seqs!Front(Append(P, q)) = P
    BY DEF Seqs!Last, Seqs!Front
  <1> QED
    BY <1>1 DEF PlaceFour

LEMMA PlaceOne ==
    ASSUME NEW S, NEW s \in Seq(S), NEW c \in S
    PROVE  PlaceFold!Folded(<< >>, Append(s, c)) = PlaceFour(PlaceFold!Folded(<< >>, s), c)
  BY PlaceFold!FoldAppend

Placed(cells, rows) == PlaceFold!Folded(<< >>, cells) = rows
Extended(t, s, e) == t = Append(s, e)
Single(t, e) == t = <<e>>

LEMMA PlaceStep ==
    ASSUME NEW S, NEW s \in Seq(S), NEW P \in Seq(Seq(S)), NEW q \in Seq(S), Len(q) < 4, NEW c \in S,
           ~HasState(c, "checkable"), NEW p, Extended(p, P, q), Placed(s, p),
           NEW t, Extended(t, s, c), NEW r, Extended(r, q, c), NEW n, Extended(n, P, r)
    PROVE  Placed(t, n)
  <1>1. PlaceFold!Folded(<< >>, Append(s, c)) = PlaceFour(PlaceFold!Folded(<< >>, s), c)
    BY PlaceOne, Zenon
  <1>2. PlaceFour(Append(P, q), c) = Append(P, Append(q, c))
    BY PlaceNext
  <1> QED
    BY <1>1, <1>2, Zenon DEF Placed, Extended

LEMMA PlaceFirst ==
    ASSUME NEW S, NEW s \in Seq(S), NEW P, NEW c \in S,
           HasState(c, "checkable"), Placed(s, P), NEW t, Extended(t, s, c), NEW n, Extended(n, P, <<c>>)
    PROVE  Placed(t, n)
  <1>1. PlaceFold!Folded(<< >>, t) = PlaceFour(P, c)
    BY PlaceFold!FoldAppend DEF Placed, Extended
  <1> QED
    BY <1>1 DEF PlaceFour, Placed, Extended

LEMMA ConcatAppend ==
    ASSUME NEW S, NEW s \in Seq(S), NEW q \in Seq(S), NEW c \in S, NEW r, Extended(r, q, c)
    PROVE  /\ Extended(s \o r, s \o q, c) /\ r \in Seq(S) /\ s \o r \in Seq(S)
           /\ Len(r) = Len(q) + 1
  BY DEF Extended

LEMMA PlaceCells ==
    ASSUME NEW S, NEW s \in Seq(S), NEW P \in Seq(Seq(S)), Placed(s, P),
           NEW a \in S, NEW b \in S, NEW c \in S, NEW d \in S, HasState(a, "checkable"),
           ~HasState(b, "checkable"), ~HasState(c, "checkable"), ~HasState(d, "checkable"),
           NEW q1, Single(q1, a), NEW q2, Extended(q2, q1, b), NEW q3, Extended(q3, q2, c), NEW q4, Extended(q4, q3, d)
    PROVE  Placed(s \o q4, Append(P, q4))
  <1> DEFINE p1 == Append(P, q1)  p2 == Append(P, q2)  p3 == Append(P, q3)  p4 == Append(P, q4)
  <1>1. q1 \in Seq(S) /\ s \o q1 \in Seq(S) /\ Len(q1) = 1 /\ Extended(s \o q1, s, a) /\ Len(q1) < 4
    BY DEF Extended, Single
  <1>p. Extended(p1, P, q1) /\ Extended(p2, P, q2) /\ Extended(p3, P, q3) /\ Extended(p4, P, q4)
    BY DEF Extended
  <1> HIDE DEF p1, p2, p3, p4
  <1>2. Placed(s \o q1, p1)
    <2>1. Extended(p1, P, <<a>>)
      BY <1>p DEF Single
    <2> QED BY <1>1, <2>1, PlaceFirst, Zenon
  <1>4. q2 \in Seq(S) /\ s \o q2 \in Seq(S) /\ Len(q2) = Len(q1) + 1 /\ Extended(s \o q2, s \o q1, b)
    <2>1. q2 \in Seq(S)
      BY <1>1, ConcatAppend, Zenon
    <2>2. s \o q2 \in Seq(S)
      BY <1>1, ConcatAppend, Zenon
    <2>3. Len(q2) = Len(q1) + 1
      BY <1>1, ConcatAppend, Zenon
    <2>4. Extended(s \o q2, s \o q1, b)
      BY <1>1, ConcatAppend, Zenon
    <2> QED BY <2>1, <2>2, <2>3, <2>4, Zenon
  <1>5. Placed(s \o q2, p2)
    BY <1>1, <1>2, <1>p, <1>4, PlaceStep, Zenon
  <1>6. q3 \in Seq(S) /\ s \o q3 \in Seq(S) /\ Len(q3) = Len(q2) + 1 /\ Extended(s \o q3, s \o q2, c)
    <2>1. q3 \in Seq(S)
      BY <1>4, ConcatAppend, Zenon
    <2>2. s \o q3 \in Seq(S)
      BY <1>4, ConcatAppend, Zenon
    <2>3. Len(q3) = Len(q2) + 1
      BY <1>4 DEF Extended
    <2>4. Extended(s \o q3, s \o q2, c)
      BY <1>4, ConcatAppend, Zenon
    <2> QED BY <2>1, <2>2, <2>3, <2>4, Zenon
  <1>7. Len(q2) < 4 /\ Len(q3) < 4
    BY <1>1, <1>4, <1>6
  <1>8. Placed(s \o q3, p3)
    BY <1>p, <1>4, <1>5, <1>6, <1>7, PlaceStep, Zenon
  <1>9. Extended(s \o q4, s \o q3, d)
    BY <1>6, ConcatAppend, Zenon
  <1>10. Placed(s \o q4, p4)
    BY <1>p, <1>6, <1>7, <1>8, <1>9, PlaceStep, Zenon
  <1> QED
    BY <1>10 DEF p4

LEMMA PlaceRow ==
    ASSUME NEW R, NEW r \in R, NEW s \in Seq(CellNodes(R)), NEW P \in Seq(Seq(CellNodes(R))),
           Placed(s, P)
    PROVE  Placed(s \o Cells(r), Append(P, Cells(r)))
  <1>1. PICK a \in CellNodes(R), b \in CellNodes(R), c \in CellNodes(R), d \in CellNodes(R) :
          /\ a = Check(r) /\ b = Node("56", r.raw, {}, << >>)
          /\ c = Node("56", r.version, {}, << >>) /\ d = Node("56", r.category, {}, << >>)
    BY Zenon DEF CellNodes
  <1>2. /\ a \in CellNodes(R) /\ b \in CellNodes(R) /\ c \in CellNodes(R) /\ d \in CellNodes(R)
        /\ HasState(a, "checkable") /\ ~HasState(b, "checkable")
        /\ ~HasState(c, "checkable") /\ ~HasState(d, "checkable")
    BY <1>1 DEF HasState, Check, Node
  <1>3. Cells(r) = <<a, b, c, d>>
    BY <1>1 DEF Cells
  <1>4. /\ Extended(<<a, b>>, <<a>>, b) /\ Extended(<<a, b, c>>, <<a, b>>, c)
        /\ Extended(<<a, b, c, d>>, <<a, b, c>>, d)
    BY PlaceFold!TupleTwo, PlaceFold!TupleThree, PlaceFold!TupleFour DEF Extended
  <1>6. PICK q1, q2, q3, q4 :
          /\ Single(q1, a) /\ q4 = <<a, b, c, d>>
          /\ Extended(q2, q1, b) /\ Extended(q3, q2, c) /\ Extended(q4, q3, d)
    BY <1>4 DEF Single
  <1>7. Single(q1, a) /\ Extended(q2, q1, b) /\ Extended(q3, q2, c) /\ Extended(q4, q3, d)
    BY <1>6
  <1>8. Placed(s \o q4, Append(P, q4))
    BY <1>2, <1>7, PlaceCells, Zenon
  <1> QED
    BY <1>3, <1>6, <1>8

LEMMA PlacedByRow ==
    ASSUME NEW R
    PROVE  \A rows \in Seq(R) : Placed(AllCells(rows), ByRow(rows))
  <1> DEFINE G == {rows \in Seq(R) : Placed(AllCells(rows), ByRow(rows))}
  <1>1. << >> \in G
    BY AllCellsAre, ByRowIs, PlaceFold!FoldEmpty DEF Placed
  <1>2. ASSUME NEW rows \in Seq(R), NEW r \in R, rows \in G
        PROVE  Append(rows, r) \in G
    <2>1. AllCells(rows) \in Seq(CellNodes(R)) /\ ByRow(rows) \in Seq(Seq(CellNodes(R)))
      BY AllCellsAre, ByRowIs
    <2>2. Placed(AllCells(rows), ByRow(rows))
      BY <1>2
    <2>3. Placed(AllCells(rows) \o Cells(r), Append(ByRow(rows), Cells(r)))
      BY <2>1, <2>2, PlaceRow
    <2>4. AllCells(Append(rows, r)) = AllCells(rows) \o Cells(r)
      BY AllCellsAre
    <2>5. ByRow(Append(rows, r)) = Append(ByRow(rows), Cells(r))
      BY ByRowIs
    <2>6. Append(rows, r) \in Seq(R)
      OBVIOUS
    <2> QED BY <2>3, <2>4, <2>5, <2>6
  <1> HIDE DEF G
  <1>3. Seq(R) \subseteq G
    BY <1>1, <1>2, CellFold!ListInduction
  <1> QED
    BY <1>3 DEF G

(* The fields of a node, and of a list of four.                            *)
LEMMA CheckFields ==
    ASSUME NEW r
    PROVE  /\ Check(r).role = "56" /\ Check(r).name = "" /\ Check(r).text = "" /\ Check(r).children = << >>
           /\ HasState(Check(r), "checkable") /\ (HasState(Check(r), "checked") <=> r.checked)
  <1>1. HasState(Check(r), "checkable")
    BY DEF Check, Node, HasState
  <1>2. HasState(Check(r), "checked") <=> r.checked
    BY DEF Check, Node, HasState
  <1>3. Check(r).role = "56" /\ Check(r).name = "" /\ Check(r).text = ""
    BY DEF Check, Node
  <1>4. Check(r).children = << >>
    BY DEF Check, Node
  <1> QED
    BY <1>1, <1>2, <1>3, <1>4
LEMMA FourFields ==
    ASSUME NEW a, NEW b, NEW c, NEW d
    PROVE  LET s == <<a, b, c, d>>
           IN  /\ DOMAIN s = 1..4 /\ Len(s) = 4 /\ s # << >>
               /\ s[1] = a /\ s[2] = b /\ s[3] = c /\ s[4] = d
  OBVIOUS

LEMMA CellsFields ==
    ASSUME NEW r
    PROVE  /\ DOMAIN Cells(r) = 1..4 /\ Len(Cells(r)) = 4 /\ Cells(r) # << >> /\ Cells(r)[1] = Check(r)
           /\ Cells(r)[2].text = r.raw /\ Cells(r)[2].name = ""
           /\ Cells(r)[3].text = r.version /\ Cells(r)[3].name = ""
           /\ Cells(r)[4].text = r.category /\ Cells(r)[4].name = ""
  <1> DEFINE a == Check(r)
             b == Node("56", r.raw, {}, << >>)
             c == Node("56", r.version, {}, << >>)
             d == Node("56", r.category, {}, << >>)
  <1>1. /\ b.text = r.raw /\ b.name = "" /\ c.text = r.version /\ c.name = ""
        /\ d.text = r.category /\ d.name = ""
    BY DEF Node
  <1>2. Cells(r) = <<a, b, c, d>> /\ a = Check(r)
    BY DEF Cells
  <1> HIDE DEF a, b, c, d
  <1>3. DOMAIN Cells(r) = 1..4 /\ Len(Cells(r)) = 4 /\ Cells(r) # << >>
    BY <1>2, FourFields
  <1>4. Cells(r)[1] = a /\ Cells(r)[2] = b /\ Cells(r)[3] = c /\ Cells(r)[4] = d
    BY <1>2, FourFields
  <1> QED
    BY <1>1, <1>2, <1>3, <1>4

(* A row's cells say the row.                                              *)
LEMMA RowOfFourCells ==
    ASSUME NEW cells, NEW layout, layout.hasCheckbox, cells[2].name = "",
           2 \in DOMAIN cells, 2 + 1 \in DOMAIN cells, 2 + 2 \in DOMAIN cells, 2 + 1 = 3, 2 + 2 = 4
    PROVE  RowFromFlat(cells, layout) =
              LET row == Row(cells[2].text, cells[3].text, cells[4].text,
                             layout.hasCheckbox /\ cells # << >> /\ NodeChecked(cells[1]))
              IN  IF row.raw = "" /\ row.version = "" /\ row.category = "" THEN << >> ELSE <<row>>
  BY Zenon DEF RowFromFlat
LayoutOfFour == [hasCheckbox |-> TRUE, chunk |-> 4]
LEMMA RowOfCells ==
    ASSUME NEW r, IsRow(r)
    PROVE  RowFromFlat(Cells(r), LayoutOfFour) = <<r>>
  <1>1. /\ DOMAIN Cells(r) = 1..4 /\ Cells(r) # << >> /\ Cells(r)[1] = Check(r)
        /\ Cells(r)[2].text = r.raw /\ Cells(r)[2].name = ""
        /\ Cells(r)[3].text = r.version /\ Cells(r)[3].name = ""
        /\ Cells(r)[4].text = r.category /\ Cells(r)[4].name = ""
    BY CellsFields
  <1>2. NodeChecked(Check(r)) <=> r.checked
    <2>1. Check(r).children = << >> /\ (HasState(Check(r), "checked") <=> r.checked)
      BY CheckFields
    <2>2. ~\E i \in DOMAIN Check(r).children : HasState(Check(r).children[i], "checked")
      BY <2>1
    <2> QED BY <2>1, <2>2, Zenon DEF NodeChecked
  <1>3. LayoutOfFour.hasCheckbox
    BY DEF LayoutOfFour
  <1>4. (LayoutOfFour.hasCheckbox /\ Cells(r) # << >> /\ NodeChecked(Cells(r)[1])) = r.checked
    <2>1. r.checked = TRUE \/ r.checked = FALSE
      BY DEF IsRow
    <2>2. CASE r.checked = TRUE
      BY <1>1, <1>2, <1>3, <2>2, Zenon
    <2>3. CASE r.checked = FALSE
      BY <1>1, <1>2, <1>3, <2>3, Zenon
    <2> QED BY <2>1, <2>2, <2>3, Zenon
  <1>5. 2 \in 1..4 /\ 2 + 1 \in 1..4 /\ 2 + 2 \in 1..4 /\ 2 + 1 = 3 /\ 2 + 2 = 4
    OBVIOUS
  <1>6. 2 \in DOMAIN Cells(r) /\ 2 + 1 \in DOMAIN Cells(r) /\ 2 + 2 \in DOMAIN Cells(r)
    BY <1>1, <1>5, Zenon
  <1>7. RowFromFlat(Cells(r), LayoutOfFour) =
           LET row == Row(Cells(r)[2].text, Cells(r)[3].text, Cells(r)[4].text,
                          LayoutOfFour.hasCheckbox /\ Cells(r) # << >> /\ NodeChecked(Cells(r)[1]))
           IN  IF row.raw = "" /\ row.version = "" /\ row.category = "" THEN << >> ELSE <<row>>
    BY <1>1, <1>3, <1>5, <1>6, RowOfFourCells, Zenon
  <1>8. RowFromFlat(Cells(r), LayoutOfFour) =
           LET row == Row(r.raw, r.version, r.category, r.checked)
           IN  IF row.raw = "" /\ row.version = "" /\ row.category = "" THEN << >> ELSE <<row>>
    BY <1>1, <1>4, <1>7, Zenon
  <1>9. r = Row(r.raw, r.version, r.category, r.checked) /\ ~(r.raw = "" /\ r.version = "" /\ r.category = "")
    BY DEF IsRow
  <1> QED
    BY <1>8, <1>9, Zenon

(* Rows one by one.                                                        *)
Singles(rows) == [i \in DOMAIN rows |-> <<rows[i]>>]
LEMMA SinglesFlat ==
    ASSUME NEW R
    PROVE  \A rows \in Seq(R) : Seqs!FlattenSeq(Singles(rows)) = rows
  <1> DEFINE G == {rows \in Seq(R) : Seqs!FlattenSeq(Singles(rows)) = rows}
  <1>1. << >> \in G
    <2>1. Singles(<< >>) = << >>
      BY DEF Singles
    <2> QED BY <2>1, Flattened
  <1>2. ASSUME NEW rows \in Seq(R), NEW r \in R, rows \in G
        PROVE  Append(rows, r) \in G
    <2>1. Singles(rows) \in Seq(Seq(R)) /\ <<r>> \in Seq(R)
      <3>1. \A e \in R : <<e>> \in Seq(R)
        OBVIOUS
      <3>2. \A i \in 1..Len(rows) : rows[i] \in R
        OBVIOUS
      <3>3. [i \in 1..Len(rows) |-> <<rows[i]>>] \in [1..Len(rows) -> Seq(R)]
        BY <3>1, <3>2, Zenon
      <3>4. Singles(rows) = [i \in 1..Len(rows) |-> <<rows[i]>>] /\ Len(rows) \in Nat
        BY DEF Singles
      <3>5. Singles(rows) \in Seq(Seq(R))
        BY <3>3, <3>4, CellFold!IsList
      <3> QED BY <3>1, <3>5
    <2>2. Singles(Append(rows, r)) = Append(Singles(rows), <<r>>)
      BY DEF Singles
    <2>3. Seqs!FlattenSeq(Append(Singles(rows), <<r>>)) = Seqs!FlattenSeq(Singles(rows)) \o <<r>>
      BY <2>1, Flattened
    <2>4. Seqs!FlattenSeq(Singles(rows)) = rows
      BY <1>2
    <2>5. rows \o <<r>> = Append(rows, r) /\ Append(rows, r) \in Seq(R)
      OBVIOUS
    <2> QED BY <2>2, <2>3, <2>4, <2>5
  <1> HIDE DEF G
  <1>3. Seq(R) \subseteq G
    BY <1>1, <1>2, CellFold!ListInduction
  <1> QED
    BY <1>3 DEF G

(* The first cell is the checkbox of the first row.                        *)
LEMMA FirstCell ==
    ASSUME NEW R
    PROVE  \A rows \in Seq(R) : rows # << >> => /\ AllCells(rows) # << >>
                                                /\ AllCells(rows)[1] = Check(rows[1])
  <1> DEFINE Good(rows) == rows # << >> => /\ AllCells(rows) # << >>
                                           /\ AllCells(rows)[1] = Check(rows[1])
             G == {rows \in Seq(R) : Good(rows)}
  <1>1. << >> \in G
    OBVIOUS
  <1>2. ASSUME NEW rows \in Seq(R), NEW r \in R, rows \in G
        PROVE  Append(rows, r) \in G
    <2>1. /\ AllCells(rows) \in Seq(CellNodes(R)) /\ Cells(r) \in Seq(CellNodes(R))
          /\ Len(Cells(r)) = 4 /\ Cells(r)[1] = Check(r)
      BY AllCellsAre, CellsOfARow DEF Cells
    <2>2. AllCells(Append(rows, r)) = AllCells(rows) \o Cells(r)
      BY AllCellsAre
    <2>3. CASE rows = << >>
      <3>1. AllCells(rows) = << >> /\ Append(rows, r)[1] = r
        BY <2>3, AllCellsAre
      <3>2. AllCells(Append(rows, r)) = Cells(r)
        BY <2>1, <2>2, <3>1
      <3>3. AllCells(Append(rows, r)) # << >> /\ AllCells(Append(rows, r))[1] = Check(Append(rows, r)[1])
        BY <2>1, <3>1, <3>2
      <3>4. Append(rows, r) \in Seq(R)
        OBVIOUS
      <3> QED BY <3>3, <3>4, Zenon
    <2>4. CASE rows # << >>
      <3>1. AllCells(rows) # << >> /\ AllCells(rows)[1] = Check(rows[1])
        BY <1>2, <2>4
      <3>2. Append(rows, r)[1] = rows[1]
        BY <2>4
      <3>3. (AllCells(rows) \o Cells(r))[1] = AllCells(rows)[1] /\ AllCells(rows) \o Cells(r) # << >>
        BY <2>1, <3>1
      <3>4. AllCells(Append(rows, r)) # << >> /\ AllCells(Append(rows, r))[1] = Check(Append(rows, r)[1])
        BY <2>2, <3>1, <3>2, <3>3
      <3>5. Append(rows, r) \in Seq(R)
        OBVIOUS
      <3> QED BY <3>4, <3>5, Zenon
    <2> QED BY <2>3, <2>4
  <1> HIDE DEF G
  <1>3. Seq(R) \subseteq G
    BY <1>1, <1>2, CellFold!ListInduction
  <1> QED
    BY <1>3 DEF G

(* The roles of what is in a tree.                                         *)
HeaderNodes == {Node("57", t, {}, << >>) : t \in {"Choose", "PkgName", "Version", "Category"}}
LEMMA RolesOfNodes ==
    ASSUME NEW R
    PROVE  /\ \A node \in CellNodes(R) : node.role = "56"
           /\ \A node \in HeaderNodes : node.role = "57"
           /\ HeaderRow \in Seq(HeaderNodes) /\ Len(HeaderRow) = 4 /\ HeaderRow[1].text = "Choose"
  <1>1. \A node \in CellNodes(R) : node.role = "56"
    <2>1. \A t : Node("56", t, {}, << >>).role = "56"
      BY DEF Node
    <2>2. \A r : Check(r).role = "56"
      BY CheckFields
    <2> QED BY <2>1, <2>2, Zenon DEF CellNodes
  <1>2. \A node \in HeaderNodes : node.role = "57"
    <2>1. \A t : Node("57", t, {}, << >>).role = "57"
      BY DEF Node
    <2> QED BY <2>1, Zenon DEF HeaderNodes
  <1>3. HeaderRow \in Seq(HeaderNodes) /\ Len(HeaderRow) = 4
    BY DEF HeaderRow, HeaderNodes
  <1>4. HeaderRow[1].text = "Choose"
    <2>1. HeaderRow[1] = Node("57", "Choose", {}, << >>)
      BY DEF HeaderRow
    <2>2. Node("57", "Choose", {}, << >>).text = "Choose"
      BY DEF Node
    <2> QED BY <2>1, <2>2
  <1> QED
    BY <1>1, <1>2, <1>3, <1>4

(* What a list of cells keeps, alone or under headers.                     *)
LEMMA InRolesOfCells ==
    ASSUME NEW R, NEW s \in Seq(CellNodes(R))
    PROVE  /\ InRoles(s, CellRoles) = s /\ InRoles(s, HeaderRoles) = << >> /\ InRoles(s, RowRoles) = << >>
           /\ InRoles(HeaderRow \o s, CellRoles) = s
           /\ InRoles(HeaderRow \o s, HeaderRoles) = HeaderRow
           /\ InRoles(HeaderRow \o s, RowRoles) = << >>
  <1> DEFINE S == CellNodes(R) \cup HeaderNodes
  <1>1. /\ \A e \in CellNodes(R) : e.role = "56"
        /\ \A e \in HeaderNodes : e.role = "57"
    BY RolesOfNodes
  <1>2. /\ \A kept, e : e \in CellNodes(R) => KeepCell(kept, e) = Append(kept, e)
        /\ \A kept, e : e \in HeaderNodes => KeepCell(kept, e) = kept
        /\ \A kept, e : e \in HeaderNodes => KeepHeader(kept, e) = Append(kept, e)
        /\ \A kept, e : e \in CellNodes(R) => KeepHeader(kept, e) = kept
        /\ \A kept, e : e \in S => KeepRow(kept, e) = kept
    BY <1>1, SMT DEF KeepCell, KeepHeader, KeepRow, CellRoles, HeaderRoles, RowRoles
  <1>3. HeaderRow \in Seq(HeaderNodes) /\ s \in Seq(S) /\ HeaderRow \in Seq(S) /\ HeaderRow \o s \in Seq(S)
    BY RolesOfNodes
  <1> HIDE DEF S
  <1>4. CellFold!Folded(<< >>, s) = s
    BY <1>2, CellFold!FoldCopies
  <1>5. CellFold!Folded(<< >>, HeaderRow) = << >>
    BY <1>2, <1>3, CellFold!FoldFixed
  <1>6. CellFold!Folded(<< >>, HeaderRow \o s) = s
    BY <1>3, <1>4, <1>5, CellFold!FoldConcat
  <1>7. HeaderFold!Folded(<< >>, s) = << >> /\ HeaderFold!Folded(HeaderRow, s) = HeaderRow
    BY <1>2, HeaderFold!FoldFixed
  <1>8. HeaderFold!Folded(<< >>, HeaderRow) = HeaderRow
    BY <1>2, <1>3, HeaderFold!FoldCopies
  <1>9. HeaderFold!Folded(<< >>, HeaderRow \o s) = HeaderRow
    BY <1>3, <1>7, <1>8, HeaderFold!FoldConcat
  <1>10. RowFold!Folded(<< >>, s) = << >> /\ RowFold!Folded(<< >>, HeaderRow \o s) = << >>
    BY <1>2, <1>3, RowFold!FoldFixed
  <1> QED
    BY <1>4, <1>6, <1>7, <1>9, <1>10, CellsKept, HeadersKept, RowsKept

(* The rows of a tree that lays its cells out flat.                        *)
LEMMA FlatRowsAre ==
    ASSUME NEW R, NEW rows \in Seq(R), \A r \in R : IsRow(r), rows # << >>
    PROVE  Seqs!FlattenSeq([i \in DOMAIN FlatRows(AllCells(rows), 4) |->
                               RowFromFlat(FlatRows(AllCells(rows), 4)[i], LayoutOfFour)]) = rows
  <1>1. ByRow(rows) # << >> /\ DOMAIN ByRow(rows) = DOMAIN rows
    BY DEF ByRow
  <1>2. PlaceFold!Folded(<< >>, AllCells(rows)) = ByRow(rows)
    BY PlacedByRow DEF Placed
  <1>3. FlatRows(AllCells(rows), 4) = ByRow(rows)
    BY <1>1, <1>2, RowsPlaced
  <1>4. \A i \in DOMAIN rows : RowFromFlat(ByRow(rows)[i], LayoutOfFour) = <<rows[i]>>
    BY RowOfCells DEF ByRow
  <1>5. [i \in DOMAIN ByRow(rows) |-> RowFromFlat(ByRow(rows)[i], LayoutOfFour)] = Singles(rows)
    BY <1>1, <1>4 DEF Singles
  <1> QED
    BY <1>3, <1>5, SinglesFlat

LEMMA RowsOfFlat ==
    ASSUME NEW R, NEW rows \in Seq(R), \A r \in R : IsRow(r), NEW tree,
           tree.children \in {HeaderRow \o AllCells(rows), AllCells(rows)}
    PROVE  RowsOf(tree) = rows
  <1>1. AllCells(rows) \in Seq(CellNodes(R))
    BY AllCellsAre
  <1>2. /\ InRoles(tree.children, CellRoles) = AllCells(rows)
        /\ InRoles(tree.children, HeaderRoles) \in {HeaderRow, << >>}
        /\ InRoles(tree.children, RowRoles) = << >>
    BY <1>1, InRolesOfCells
  <1>3. [i \in DOMAIN << >> |-> RowFromNode(<< >>[i])] = << >>
    OBVIOUS
  <1>4. CASE rows = << >>
    <2>1. AllCells(rows) = << >>
      BY <1>4, AllCellsAre
    <2>2. RowsOf(tree) = << >> \o << >>
      BY <1>2, <1>3, <2>1, Flattened DEF RowsOf
    <2> QED BY <1>4, <2>2
  <1>5. CASE rows # << >>
    <2>1. AllCells(rows) # << >> /\ AllCells(rows)[1] = Check(rows[1])
      BY <1>5, FirstCell
    <2>2. HasState(Check(rows[1]), "checkable")
      BY CheckFields, Zenon
    <2>3. ColumnLayout(tree, AllCells(rows)) = LayoutOfFour
      <3>1. HeaderRow # << >> /\ Len(HeaderRow) = 4 /\ HeaderRow[1].text \in Checkish
        <4>1. HeaderRow # << >> /\ Len(HeaderRow) = 4 /\ HeaderRow[1].text = "Choose"
          BY RolesOfNodes
        <4> QED BY <4>1, WordsAssumption
      <3>2. CASE InRoles(tree.children, HeaderRoles) = HeaderRow
        BY <3>1, <3>2 DEF ColumnLayout, LayoutOfFour
      <3>3. CASE InRoles(tree.children, HeaderRoles) = << >>
        BY <2>1, <2>2, <3>3 DEF ColumnLayout, LayoutOfFour, HasState
      <3> QED BY <1>2, <3>2, <3>3
    <2>4. LayoutOfFour.chunk = 4
      BY DEF LayoutOfFour
    <2>5. Seqs!FlattenSeq([i \in DOMAIN FlatRows(AllCells(rows), 4) |->
                               RowFromFlat(FlatRows(AllCells(rows), 4)[i], LayoutOfFour)]) = rows
      BY <1>5, FlatRowsAre
    <2>6. RowsOf(tree) = rows \o Seqs!FlattenSeq([i \in DOMAIN << >> |-> RowFromNode(<< >>[i])])
      BY <1>2, <2>1, <2>3, <2>4, <2>5 DEF RowsOf
    <2>7. RowsOf(tree) = rows \o << >>
      BY <1>3, <2>6, Flattened
    <2> QED BY <2>7
  <1> QED
    BY <1>4, <1>5

(* The texts of short lists.                                               *)
LEMMA TextsOfOne ==
    ASSUME NEW t
    PROVE  Texts(<<t>>) = IF t = "" THEN << >> ELSE <<t>>
  <1>1. Texts(<<t>>) = KeepText(<< >>, t)
    BY TextsKept, TextFold!FoldOne
  <1>2. Append(<< >>, t) = <<t>>
    OBVIOUS
  <1> QED
    BY <1>1, <1>2 DEF KeepText
LEMMA TextsOfTwo ==
    ASSUME NEW t
    PROVE  Texts(<<t, "">>) = IF t = "" THEN << >> ELSE <<t>>
  <1>1. \A u : TextFold!Folded(<< >>, <<t, u>>) = KeepText(KeepText(<< >>, t), u)
    BY TextFold!FoldTwo
  <1>2. TextFold!Folded(<< >>, <<t, "">>) = KeepText(KeepText(<< >>, t), "")
    BY <1>1, Zenon
  <1>3. Append(<< >>, t) = <<t>>
    OBVIOUS
  <1> QED
    BY <1>2, <1>3, TextsKept DEF KeepText

LEMMA OneOf == ASSUME NEW S, NEW e \in S PROVE <<e>> \in Seq(S)
  OBVIOUS

(* What a cell adds to the texts of its row.                               *)
LEMMA AddCell ==
    ASSUME NEW S, NEW texts \in Seq(S), NEW t \in S, NEW cell, cell.role = "56", cell.name = "", cell.text = t
    PROVE  AddTexts(texts, cell) = IF t = "" THEN texts ELSE texts \o <<t>>
  <1>1. cell.role \notin {"CHECK_BOX", "CHECKBOX"}
    OBVIOUS
  <1>2. Texts(<<cell.text>>) = (IF t = "" THEN << >> ELSE <<t>>) /\ Texts(<<cell.name>>) = << >>
    BY TextsOfOne
  <1>3. texts \o << >> = texts
    BY TextFold!ConcatEmptySeq
  <1>4. (texts \o <<t>>) \o << >> = texts \o <<t>>
    <2>1. texts \o <<t>> \in Seq(S)
      <3>1. <<t>> \in Seq(S)
        BY OneOf, Zenon
      <3> QED BY <3>1, TextFold!ConcatProperties
    <2> QED BY <2>1, TextFold!ConcatEmptySeq
  <1> QED
    BY <1>1, <1>2, <1>3, <1>4 DEF AddTexts

(* A row that is a node of its own.                                        *)
Item(r) == Node("TREE_ITEM", "", {}, Cells(r))
LEMMA ItemFields ==
    ASSUME NEW r
    PROVE  Item(r).role = "TREE_ITEM" /\ Item(r).text = "" /\ Item(r).states = {} /\ Item(r).children = Cells(r)
  BY DEF Item, Node

LEMMA ItemTexts ==
    ASSUME NEW r, ToldApart(r)
    PROVE  CellTexts(Item(r)) = <<r.raw, r.version, r.category>>
  <1> DEFINE a == Check(r)
             b == Node("56", r.raw, {}, << >>)
             c == Node("56", r.version, {}, << >>)
             d == Node("56", r.category, {}, << >>)
             S == {"", r.raw, r.version, r.category}
  <1>1. /\ a.role = "56" /\ a.name = "" /\ a.text = ""
        /\ b.role = "56" /\ b.name = "" /\ b.text = r.raw
        /\ c.role = "56" /\ c.name = "" /\ c.text = r.version
        /\ d.role = "56" /\ d.name = "" /\ d.text = r.category
    BY CheckFields DEF Node
  <1>2. Cells(r) = <<a, b, c, d>>
    BY DEF Cells
  <1> HIDE DEF a, b, c, d
  <1>4. CellTexts(Item(r)) = AddTexts(AddTexts(AddTexts(AddTexts(<< >>, a), b), c), d)
    <2>1. CellTexts(Item(r)) = AddFold!Folded(<< >>, <<a, b, c, d>>)
      BY <1>2, TextsAdded, TextsOfOne, ItemFields
    <2> QED BY <2>1, AddFold!FoldFour
  <1>5. r.raw # "" /\ r.version # "" /\ r.category # ""
    BY DEF ToldApart
  <1>6. << >> \in Seq(S) /\ <<r.raw>> \in Seq(S) /\ <<r.raw, r.version>> \in Seq(S)
    OBVIOUS
  <1>s. "" \in S /\ r.raw \in S /\ r.version \in S /\ r.category \in S
    OBVIOUS
  <1>7. /\ << >> \o <<r.raw>> = <<r.raw>>
        /\ <<r.raw>> \o <<r.version>> = <<r.raw, r.version>>
        /\ <<r.raw, r.version>> \o <<r.category>> = <<r.raw, r.version, r.category>>
    <2>1. r.raw \in S /\ r.version \in S /\ r.category \in S
      OBVIOUS
    <2> HIDE DEF S
    <2>2. << >> \o <<r.raw>> = <<r.raw>>
      OBVIOUS
    <2>3. /\ <<r.raw>> \o <<r.version>> = Append(<<r.raw>>, r.version)
          /\ <<r.raw, r.version>> \o <<r.category>> = Append(<<r.raw, r.version>>, r.category)
      BY <1>6, <2>1
    <2> QED BY <2>1, <2>2, <2>3, AddFold!TupleTwo, AddFold!TupleThree
  <1> HIDE DEF S
  <1>8. AddTexts(<< >>, a) = << >>
    BY <1>1, <1>s, <1>6, AddCell
  <1>9. AddTexts(<< >>, b) = <<r.raw>>
    BY <1>1, <1>s, <1>5, <1>6, <1>7, AddCell
  <1>10. AddTexts(<<r.raw>>, c) = <<r.raw, r.version>>
    BY <1>1, <1>s, <1>5, <1>6, <1>7, AddCell
  <1>11. AddTexts(<<r.raw, r.version>>, d) = <<r.raw, r.version, r.category>>
    BY <1>1, <1>s, <1>5, <1>6, <1>7, AddCell
  <1> QED
    BY <1>4, <1>8, <1>9, <1>10, <1>11

Three(list, a, b, c) == list = <<a, b, c>>
LEMMA TakenThree ==
    ASSUME NEW row, NEW a, NEW b, NEW c, NEW list, Three(list, a, b, c)
    PROVE  TakeFold!Folded(row, list) = TakeText(TakeText(TakeText(row, a), b), c)
  BY TakeFold!FoldThree DEF Three

Blank(checked) == Row("", "", "", checked)
LEMMA ItemTaken ==
    ASSUME NEW r, NEW checked, ToldApart(r), NEW list, Three(list, r.raw, r.version, r.category)
    PROVE  TakeFold!Folded(Blank(checked), list) = Row(r.raw, r.version, r.category, checked)
  <1>1. PICK raw, version, category : raw = r.raw /\ version = r.version /\ category = r.category
    OBVIOUS
  <1>2. TakeFold!Folded(Blank(checked), list) =
           TakeText(TakeText(TakeText(Blank(checked), r.raw), r.version), r.category)
    BY TakenThree
  <1>3. TakeText(Blank(checked), raw) = Row(raw, "", "", checked)
    BY <1>1 DEF TakeText, Row, ToldApart, Blank
  <1>4. TakeText(Row(raw, "", "", checked), version) = Row(raw, version, "", checked)
    BY <1>1 DEF TakeText, Row, ToldApart
  <1>5. TakeText(Row(raw, version, "", checked), category) = Row(raw, version, category, checked)
    BY <1>1 DEF TakeText, Row, ToldApart
  <1> QED
    BY <1>1, <1>2, <1>3, <1>4, <1>5, Zenon

LEMMA CellStates ==
    ASSUME NEW r
    PROVE  Cells(r)[2].states = {} /\ Cells(r)[3].states = {} /\ Cells(r)[4].states = {}
  <1> DEFINE a == Check(r)
             b == Node("56", r.raw, {}, << >>)
             c == Node("56", r.version, {}, << >>)
             d == Node("56", r.category, {}, << >>)
  <1>1. b.states = {} /\ c.states = {} /\ d.states = {}
    BY DEF Node
  <1>2. Cells(r) = <<a, b, c, d>>
    BY DEF Cells
  <1> HIDE DEF a, b, c, d
  <1>3. Cells(r)[2] = b /\ Cells(r)[3] = c /\ Cells(r)[4] = d
    BY <1>2, FourFields
  <1> QED
    BY <1>1, <1>3

LEMMA RowOfItem ==
    ASSUME NEW r, IsRow(r), ToldApart(r)
    PROVE  RowFromNode(Item(r)) = <<r>>
  <1>1. CellTexts(Item(r)) = <<r.raw, r.version, r.category>>
    BY ItemTexts
  <1>2. NodeChecked(Item(r)) <=> r.checked
    <2>1. ~HasState(Item(r), "checked") /\ Item(r).children = Cells(r)
      BY ItemFields DEF HasState
    <2>2. /\ DOMAIN Cells(r) = 1..4 /\ Cells(r)[1] = Check(r)
          /\ Cells(r)[2].states = {} /\ Cells(r)[3].states = {} /\ Cells(r)[4].states = {}
      BY CellsFields, CellStates
    <2>3. (\E i \in 1..4 : HasState(Cells(r)[i], "checked")) <=> HasState(Check(r), "checked")
      BY <2>2 DEF HasState
    <2>4. (\E i \in DOMAIN Item(r).children : HasState(Item(r).children[i], "checked")) <=> r.checked
      BY <2>1, <2>2, <2>3, CheckFields
    <2> QED BY <2>1, <2>4, Zenon DEF NodeChecked
  <1>3. NodeChecked(Item(r)) = r.checked
    <2>1. r.checked = TRUE \/ r.checked = FALSE
      BY DEF IsRow
    <2>2. NodeChecked(Item(r)) = TRUE \/ NodeChecked(Item(r)) = FALSE
      BY Zenon DEF NodeChecked
    <2> QED BY <1>2, <2>1, <2>2, Zenon
  <1>4. Three(CellTexts(Item(r)), r.raw, r.version, r.category) /\ CellTexts(Item(r)) # << >>
    BY <1>1 DEF Three
  <1>5. TakeFold!Folded(Blank(r.checked), CellTexts(Item(r))) =
           Row(r.raw, r.version, r.category, r.checked)
    BY <1>4, ItemTaken, Zenon
  <1>6. r = Row(r.raw, r.version, r.category, r.checked)
    BY DEF IsRow
  <1>7. RowFromNode(Item(r)) = IF CellTexts(Item(r)) = << >> THEN << >>
              ELSE <<TakeFold!Folded(Blank(NodeChecked(Item(r))), CellTexts(Item(r)))>>
    BY TextsTaken, Zenon DEF Blank
  <1> QED
    BY <1>3, <1>4, <1>5, <1>6, <1>7, Zenon

(* The rows of a tree whose rows are nodes of their own.                   *)
ItemsOf(rows) == [i \in DOMAIN rows |-> Item(rows[i])]
ItemNodes(R) == {Item(r) : r \in R}
LEMMA ItemsAre ==
    ASSUME NEW R, NEW rows \in Seq(R)
    PROVE  /\ ItemsOf(rows) \in Seq(ItemNodes(R))
           /\ \A node \in ItemNodes(R) : node.role = "TREE_ITEM"
  <1>1. \A i \in 1..Len(rows) : Item(rows[i]) \in ItemNodes(R)
    <2>1. \A r \in R : Item(r) \in ItemNodes(R)
      BY Zenon DEF ItemNodes
    <2>2. \A i \in 1..Len(rows) : rows[i] \in R
      OBVIOUS
    <2> QED BY <2>1, <2>2, Zenon
  <1>2. ItemsOf(rows) = [i \in 1..Len(rows) |-> Item(rows[i])] /\ Len(rows) \in Nat
    BY DEF ItemsOf
  <1>3. ItemsOf(rows) \in Seq(ItemNodes(R))
    BY <1>1, <1>2
  <1>4. \A node \in ItemNodes(R) : node.role = "TREE_ITEM"
    <2>1. \A r : Item(r).role = "TREE_ITEM"
      BY ItemFields
    <2> QED BY <2>1, Zenon DEF ItemNodes
  <1> QED
    BY <1>3, <1>4

LEMMA InRolesOfItems ==
    ASSUME NEW R, NEW rows \in Seq(R)
    PROVE  /\ InRoles(ItemsOf(rows), CellRoles) = << >>
           /\ InRoles(ItemsOf(rows), RowRoles) = ItemsOf(rows)
  <1>1. ItemsOf(rows) \in Seq(ItemNodes(R)) /\ \A e \in ItemNodes(R) : e.role = "TREE_ITEM"
    BY ItemsAre
  <1>2. /\ \A kept, e : e \in ItemNodes(R) => KeepCell(kept, e) = kept
        /\ \A kept, e : e \in ItemNodes(R) => KeepRow(kept, e) = Append(kept, e)
    BY <1>1, SMT DEF KeepCell, KeepRow, CellRoles, RowRoles
  <1>3. CellFold!Folded(<< >>, ItemsOf(rows)) = << >>
    BY <1>1, <1>2, CellFold!FoldFixed
  <1>4. RowFold!Folded(<< >>, ItemsOf(rows)) = ItemsOf(rows)
    BY <1>1, <1>2, RowFold!FoldCopies
  <1> QED
    BY <1>3, <1>4, CellsKept, RowsKept

LEMMA RowsOfNested ==
    ASSUME NEW R, NEW rows \in Seq(R), \A r \in R : IsRow(r) /\ ToldApart(r), NEW tree,
           tree.children = ItemsOf(rows)
    PROVE  RowsOf(tree) = rows
  <1>1. /\ InRoles(tree.children, CellRoles) = << >>
        /\ InRoles(tree.children, RowRoles) = ItemsOf(rows)
    BY InRolesOfItems
  <1>2. \A i \in DOMAIN rows : RowFromNode(ItemsOf(rows)[i]) = <<rows[i]>>
    <2>1. \A i \in DOMAIN rows : rows[i] \in R
      OBVIOUS
    <2>2. \A i \in DOMAIN rows : RowFromNode(Item(rows[i])) = <<rows[i]>>
      BY <2>1, RowOfItem
    <2> QED BY <2>2 DEF ItemsOf
  <1>3. DOMAIN ItemsOf(rows) = DOMAIN rows
    BY DEF ItemsOf
  <1>4. [i \in DOMAIN ItemsOf(rows) |-> RowFromNode(ItemsOf(rows)[i])] = Singles(rows)
    BY <1>2, <1>3 DEF Singles
  <1>5. RowsOf(tree) = << >> \o Seqs!FlattenSeq([i \in DOMAIN ItemsOf(rows) |-> RowFromNode(ItemsOf(rows)[i])])
    BY <1>1 DEF RowsOf
  <1>6. RowsOf(tree) = << >> \o rows
    BY <1>4, <1>5, SinglesFlat
  <1> QED
    BY <1>6

(* What a window shows, and its tree.                                      *)
Kids(view) ==
    CASE view.layout = "nested" -> ItemsOf(view.rows)
      [] view.layout = "headers" -> HeaderRow \o AllCells(view.rows)
      [] OTHER -> AllCells(view.rows)
Told(view) == (view.rows = << >>) # (view.odd = "dialog")
Alert == Node("ALERT", "No kernels found", {}, << >>)
TreeNode(view) == Node("TREE", "", {}, Kids(view))
KidsOfFrame(view) == <<TreeNode(view)>> \o (IF Told(view) THEN <<Alert>> ELSE << >>)
LEMMA TreeIs ==
    ASSUME NEW view
    PROVE  Tree(view) = Node("FRAME", "", {}, KidsOfFrame(view))
  BY Zenon DEF Tree, Kids, ItemsOf, Item, AllCells, ByRow, Told, Alert, TreeNode, KidsOfFrame

LEMMA TreeRows ==
    ASSUME NEW view, Shown(view)
    PROVE  RowsOf(TreeNode(view)) = view.rows /\ NotInRows(TreeNode(view)) = << >>
  <1> DEFINE R == {view.rows[i] : i \in DOMAIN view.rows}
  <1>1. view.rows \in Seq(R)
    BY DEF Shown
  <1>2. (\A r \in R : IsRow(r)) /\ (view.layout = "nested" => \A r \in R : ToldApart(r))
    BY Zenon DEF Shown
  <1> HIDE DEF R
  <1>3. TreeNode(view).children = Kids(view) /\ TreeNode(view).role = "TREE"
    BY DEF TreeNode, Node
  <1>4. \/ Kids(view) = ItemsOf(view.rows) /\ view.layout = "nested"
        \/ Kids(view) \in {HeaderRow \o AllCells(view.rows), AllCells(view.rows)}
    BY DEF Kids
  <1>5. RowsOf(TreeNode(view)) = view.rows
    <2>1. CASE Kids(view) = ItemsOf(view.rows) /\ view.layout = "nested"
      BY <1>1, <1>2, <1>3, <2>1, RowsOfNested
    <2>2. CASE Kids(view) \in {HeaderRow \o AllCells(view.rows), AllCells(view.rows)}
      <3>1. PICK rows \in Seq(R) : rows = view.rows
        BY <1>1
      <3>5. PICK tree : tree = TreeNode(view)
        OBVIOUS
      <3>2. tree.children \in {HeaderRow \o AllCells(rows), AllCells(rows)}
        BY <1>3, <2>2, <3>1, <3>5, Zenon
      <3>3. \A r \in R : IsRow(r)
        BY <1>2
      <3>4. RowsOf(tree) = rows
        BY <3>2, <3>3, RowsOfFlat
      <3> QED BY <3>1, <3>4, <3>5
    <2> QED BY <1>4, <2>1, <2>2
  <1>6. PICK N : N = CellNodes(R) \cup HeaderNodes \cup ItemNodes(R)
    OBVIOUS
  <1>7. Kids(view) \in Seq(N)
    <2>1. AllCells(view.rows) \in Seq(CellNodes(R)) /\ ItemsOf(view.rows) \in Seq(ItemNodes(R))
      BY <1>1, AllCellsAre, ItemsAre
    <2>2. AllCells(view.rows) \in Seq(N) /\ ItemsOf(view.rows) \in Seq(N) /\ HeaderRow \in Seq(N)
      BY <1>6, <2>1, RolesOfNodes
    <2>3. HeaderRow \o AllCells(view.rows) \in Seq(N)
      BY <2>2
    <2> QED BY <1>4, <2>2, <2>3
  <1>8. \A e \in N : e.role \in {"56", "57", "TREE_ITEM"}
    BY <1>1, <1>6, RolesOfNodes, ItemsAre
  <1>9. \A kept, e : e \in N => KeepOther(kept, e) = kept
    BY <1>8, SMT DEF KeepOther, RowRoles, CellRoles, HeaderRoles
  <1>10. \A e \in N : KeepOther(<< >>, e) = << >>
    BY <1>9, Zenon
  <1>11. OtherFold!Folded(<< >>, Kids(view)) = << >>
    BY <1>7, <1>10, OtherFold!FoldFixed
  <1>12. "TREE" \in TreeRoles
    BY DEF TreeRoles
  <1>13. NotInRows(TreeNode(view)) = << >>
    BY <1>3, <1>11, <1>12, OthersKept
  <1> QED
    BY <1>5, <1>13

(* What is below the nodes of a level, in the order of the document.       *)
LEMMA NothingBelow ==
    ASSUME NEW below, below = << >>, NEW node, NEW level
    PROVE  <<node>> \o [j \in DOMAIN below |-> On(below[j], level)] = <<node>>
  <1>1. [j \in DOMAIN below |-> On(below[j], level)] = << >>
    OBVIOUS
  <1>2. <<node>> \o << >> = <<node>>
    OBVIOUS
  <1> QED
    BY <1>1, <1>2

LEMMA NothingOutside ==
    ASSUME NEW N, NEW nodes \in Seq(N), NEW level,
           \A n \in N : n.level = level => NotInRows(n.node) = << >>
    PROVE  DescendOutside(nodes, level) = nodes
  <1>1. \A i \in DOMAIN nodes : nodes[i].level = level => NotInRows(nodes[i].node) = << >>
    OBVIOUS
  <1>2. \A i \in DOMAIN nodes :
           (IF nodes[i].level # level THEN <<nodes[i]>>
            ELSE <<nodes[i]>> \o [j \in DOMAIN NotInRows(nodes[i].node) |-> On(NotInRows(nodes[i].node)[j], level + 1)])
           = <<nodes[i]>>
    BY <1>1, NothingBelow, Zenon
  <1>3. [i \in DOMAIN nodes |->
            IF nodes[i].level # level THEN <<nodes[i]>>
            ELSE <<nodes[i]>> \o [j \in DOMAIN NotInRows(nodes[i].node) |-> On(NotInRows(nodes[i].node)[j], level + 1)]]
        = Singles(nodes)
    BY <1>2 DEF Singles
  <1>4. Seqs!FlattenSeq(Singles(nodes)) = nodes
    BY SinglesFlat
  <1> QED
    BY <1>3, <1>4 DEF DescendOutside, Descend

LEMMA NothingInside ==
    ASSUME NEW N, NEW nodes \in Seq(N), NEW level,
           \A n \in N : n.level = level => Children(n.node) = << >>
    PROVE  DescendInto(nodes, level) = nodes
  <1>1. \A i \in DOMAIN nodes : nodes[i].level = level => Children(nodes[i].node) = << >>
    OBVIOUS
  <1>2. \A i \in DOMAIN nodes :
           (IF nodes[i].level # level THEN <<nodes[i]>>
            ELSE <<nodes[i]>> \o [j \in DOMAIN Children(nodes[i].node) |-> On(Children(nodes[i].node)[j], level + 1)])
           = <<nodes[i]>>
    BY <1>1, NothingBelow, Zenon
  <1>3. [i \in DOMAIN nodes |->
            IF nodes[i].level # level THEN <<nodes[i]>>
            ELSE <<nodes[i]>> \o [j \in DOMAIN Children(nodes[i].node) |-> On(Children(nodes[i].node)[j], level + 1)]]
        = Singles(nodes)
    BY <1>2 DEF Singles
  <1>4. Seqs!FlattenSeq(Singles(nodes)) = nodes
    BY SinglesFlat
  <1> QED
    BY <1>3, <1>4 DEF DescendInto, Descend

(* The nodes of a frame, in the order of the document.                     *)
FrameOf(view) == Node("FRAME", "", {}, KidsOfFrame(view))
NodesOf(view) == <<FrameOf(view)>> \o KidsOfFrame(view)
Levelled(view) == <<On(FrameOf(view), 0)>> \o [j \in DOMAIN KidsOfFrame(view) |-> On(KidsOfFrame(view)[j], 1)]

LEMMA KidsShape ==
    ASSUME NEW view
    PROVE  /\ KidsOfFrame(view) \in Seq({TreeNode(view), Alert})
           /\ Levelled(view) \in Seq({On(FrameOf(view), 0), On(TreeNode(view), 1), On(Alert, 1)})
           /\ [i \in DOMAIN Levelled(view) |-> Levelled(view)[i].node] = NodesOf(view)
  <1>1. PICK K : K = {TreeNode(view), Alert}
    OBVIOUS
  <1>2. TreeNode(view) \in K /\ Alert \in K
    BY <1>1
  <1>3. KidsOfFrame(view) \in Seq(K)
    BY <1>2 DEF KidsOfFrame
  <1>4. PICK L : L = {On(FrameOf(view), 0), On(TreeNode(view), 1), On(Alert, 1)}
    OBVIOUS
  <1>5. On(FrameOf(view), 0) \in L /\ \A k \in K : On(k, 1) \in L
    BY <1>1, <1>4
  <1>6. PICK kids \in Seq(K) : kids = KidsOfFrame(view)
    BY <1>3
  <1>7. [j \in DOMAIN kids |-> On(kids[j], 1)] \in Seq(L)
    <2>1. \A j \in 1..Len(kids) : On(kids[j], 1) \in L
      BY <1>5
    <2> QED BY <2>1
  <1>8. <<On(FrameOf(view), 0)>> \in Seq(L)
    BY <1>5
  <1>9. Levelled(view) \in Seq(L)
    BY <1>6, <1>7, <1>8 DEF Levelled
  <1>10. [i \in DOMAIN Levelled(view) |-> Levelled(view)[i].node] = NodesOf(view)
    <2> DEFINE a == On(FrameOf(view), 0)  s == [j \in DOMAIN kids |-> On(kids[j], 1)]
    <2>1. a.node = FrameOf(view) /\ \A j \in DOMAIN kids : s[j].node = kids[j]
      BY DEF On
    <2>2. s \in Seq(L) /\ Len(s) = Len(kids) /\ Len(kids) \in Nat /\ a \in L
      BY <1>5, <1>7
    <2>3. Levelled(view) = <<a>> \o s /\ NodesOf(view) = <<FrameOf(view)>> \o kids
      BY <1>6 DEF Levelled, NodesOf
    <2> HIDE DEF a, s
    <2>4. /\ DOMAIN (<<a>> \o s) = 1..(Len(kids) + 1) /\ (<<a>> \o s)[1] = a
          /\ \A i \in 2..(Len(kids) + 1) : (<<a>> \o s)[i] = s[i - 1]
      BY <2>2
    <2>5. PICK f, V : f = FrameOf(view) /\ f \in V /\ K \subseteq V
      <3>1. FrameOf(view) \in K \cup {FrameOf(view)} /\ K \subseteq K \cup {FrameOf(view)}
        OBVIOUS
      <3> QED BY <3>1
    <2>6. kids \in Seq(V)
      BY <2>5
    <2>7. /\ <<f>> \o kids \in Seq(V) /\ Len(<<f>> \o kids) = Len(kids) + 1 /\ (<<f>> \o kids)[1] = f
          /\ \A i \in 2..(Len(kids) + 1) : (<<f>> \o kids)[i] = kids[i - 1]
      BY <2>5, <2>6
    <2>8. \A i \in 1..(Len(kids) + 1) : (<<a>> \o s)[i].node = (<<f>> \o kids)[i]
      <3> SUFFICES ASSUME NEW i \in 1..(Len(kids) + 1) PROVE (<<a>> \o s)[i].node = (<<f>> \o kids)[i]
        OBVIOUS
      <3>1. CASE i = 1
        BY <2>1, <2>4, <2>5, <2>7, <3>1
      <3>2. CASE i # 1
        <4>1. i \in 2..(Len(kids) + 1) /\ i - 1 \in DOMAIN kids
          BY <2>2, <3>2
        <4> QED BY <2>1, <2>4, <2>7, <4>1
      <3> QED BY <3>1, <3>2
    <2>9. PICK t : t = <<f>> \o kids /\ t \in Seq(V) /\ Len(t) = Len(kids) + 1
      BY <2>7
    <2>10. [i \in 1..(Len(kids) + 1) |-> (<<a>> \o s)[i].node] = t
      <3>1. t = [i \in 1..(Len(kids) + 1) |-> t[i]]
        BY <2>9
      <3>2. \A i \in 1..(Len(kids) + 1) : (<<a>> \o s)[i].node = t[i]
        BY <2>8, <2>9
      <3> QED BY <3>1, <3>2, Zenon
    <2> QED BY <2>3, <2>4, <2>5, <2>9, <2>10
  <1> QED
    BY <1>1, <1>3, <1>4, <1>9, <1>10

(* The levels after the first.                                             *)
Deeper(depth) == [level \in 1..(depth - 1) |-> level]
LEMMA LevelsAre ==
    ASSUME NEW depth \in Nat \ {0}
    PROVE  /\ [level \in 1..depth |-> level - 1] = <<0>> \o Deeper(depth)
           /\ <<0>> \in Seq(Nat) /\ Deeper(depth) \in Seq(Nat \ {0}) /\ Deeper(depth) \in Seq(Nat)
           /\ [level \in 1..depth |-> level - 1] \in Seq(Nat)
  <1>1. Deeper(depth) \in Seq(Nat \ {0}) /\ Deeper(depth) \in Seq(Nat) /\ Len(Deeper(depth)) = depth - 1
    BY DEF Deeper
  <1>2. \A i \in 1..(depth - 1) : Deeper(depth)[i] = i
    BY DEF Deeper
  <1>3. PICK s : s = [level \in 1..depth |-> level - 1]
    OBVIOUS
  <1>4. s \in Seq(Nat) /\ Len(s) = depth /\ \A i \in 1..depth : s[i] = i - 1
    BY <1>3
  <1>5. PICK t : t = <<0>> \o Deeper(depth)
    OBVIOUS
  <1>6. t \in Seq(Nat) /\ Len(t) = depth /\ t[1] = 0 /\ \A i \in 2..depth : t[i] = i - 1
    BY <1>1, <1>2, <1>5
  <1>7. \A i \in 1..depth : s[i] = t[i]
    BY <1>4, <1>6
  <1>8. s = t
    BY <1>4, <1>6, <1>7, OtherFold!SeqEqual
  <1> QED
    BY <1>1, <1>3, <1>4, <1>5, <1>8

LEMMA FirstLevel ==
    ASSUME NEW view
    PROVE  DescendOutside(<<On(FrameOf(view), 0)>>, 0) = Levelled(view)
  <1>1. PICK frame, kids : frame = FrameOf(view) /\ kids = KidsOfFrame(view)
    OBVIOUS
  <1>2. NotInRows(frame) = kids
    <2>1. frame.role = "FRAME" /\ frame.children = kids
      BY <1>1 DEF FrameOf, Node
    <2>2. frame.role \notin TreeRoles
      BY <2>1 DEF TreeRoles
    <2> QED BY <2>1, <2>2, OthersKept
  <1>3. PICK one : one = <<On(frame, 0)>>
    OBVIOUS
  <1>4. DOMAIN one = {1} /\ one[1].level = 0 /\ one[1].node = frame /\ one[1] = On(frame, 0)
    BY <1>3 DEF On
  <1>5. PICK all : all = <<On(frame, 0)>> \o [j \in DOMAIN kids |-> On(kids[j], 1)]
    OBVIOUS
  <1>6. [i \in DOMAIN one |->
            IF one[i].level # 0 THEN <<one[i]>>
            ELSE <<one[i]>> \o [j \in DOMAIN NotInRows(one[i].node) |-> On(NotInRows(one[i].node)[j], 0 + 1)]]
        = <<all>>
    <2>1. 0 + 1 = 1
      OBVIOUS
    <2>2. (IF one[1].level # 0 THEN <<one[1]>>
           ELSE <<one[1]>> \o [j \in DOMAIN NotInRows(one[1].node) |-> On(NotInRows(one[1].node)[j], 0 + 1)]) = all
      BY <1>2, <1>4, <1>5, <2>1, Zenon
    <2>3. <<all>> = [i \in {1} |-> all]
      OBVIOUS
    <2> QED BY <1>4, <2>2, <2>3, Zenon
  <1>7. all = Levelled(view)
    BY <1>1, <1>5, Zenon DEF Levelled
  <1>8. Seqs!FlattenSeq(<<all>>) = all
    <2>1. PICK L : all \in Seq(L)
      BY <1>7, KidsShape
    <2>2. << >> \in Seq(Seq(L)) /\ Append(<< >>, all) = <<all>> /\ << >> \o all = all
      BY <2>1
    <2>3. Seqs!FlattenSeq(Append(<< >>, all)) = Seqs!FlattenSeq(<< >>) \o all
      BY <2>1, <2>2, Flattened
    <2>4. Seqs!FlattenSeq(<< >>) = << >>
      BY Flattened
    <2> QED BY <2>2, <2>3, <2>4
  <1>9. DescendOutside(one, 0) = Seqs!FlattenSeq(<<all>>)
    BY <1>6 DEF DescendOutside, Descend
  <1> QED
    BY <1>1, <1>3, <1>7, <1>8, <1>9

LEMMA NodesInOrder ==
    ASSUME NEW view, Shown(view)
    PROVE  Preorder(Tree(view), NotInRows, TreeDepth) = NodesOf(view)
  <1>1. TreeDepth \in Nat \ {0}
    BY TreeDepthAssumption
  <1>2. PICK root : root = <<On(FrameOf(view), 0)>>
    OBVIOUS
  <1>3. OutsideFold!Folded(root, <<0>>) = Levelled(view)
    BY <1>2, FirstLevel, OutsideFold!FoldOne
  <1>4. \A level \in Nat \ {0} : DescendOutside(Levelled(view), level) = Levelled(view)
    <2> SUFFICES ASSUME NEW level \in Nat \ {0}
                 PROVE  DescendOutside(Levelled(view), level) = Levelled(view)
      OBVIOUS
    <2> DEFINE N == {On(FrameOf(view), 0), On(TreeNode(view), 1), On(Alert, 1)}
    <2>1. Levelled(view) \in Seq(N)
      BY KidsShape
    <2>2. NotInRows(TreeNode(view)) = << >>
      BY TreeRows
    <2>3. NotInRows(Alert) = << >>
      <3>1. Alert.role = "ALERT" /\ Alert.children = << >>
        BY DEF Alert, Node
      <3>2. Alert.role \notin TreeRoles
        BY <3>1 DEF TreeRoles
      <3> QED BY <3>1, <3>2, OthersKept
    <2>4. \A n \in N : n.level = level => NotInRows(n.node) = << >>
      BY <2>2, <2>3 DEF On
    <2> HIDE DEF N
    <2> QED BY <2>1, <2>4, NothingOutside
  <1>5. OutsideFold!Folded(Levelled(view), Deeper(TreeDepth)) = Levelled(view)
    BY <1>1, <1>4, LevelsAre, OutsideFold!FoldFixed
  <1>6. OutsideFold!Folded(root, <<0>> \o Deeper(TreeDepth)) =
           OutsideFold!Folded(OutsideFold!Folded(root, <<0>>), Deeper(TreeDepth))
    <2>1. PICK zero \in Seq(Nat), deeper \in Seq(Nat) : zero = <<0>> /\ deeper = Deeper(TreeDepth)
      BY <1>1, LevelsAre
    <2>2. OutsideFold!Folded(root, zero \o deeper) = OutsideFold!Folded(OutsideFold!Folded(root, zero), deeper)
      BY OutsideFold!FoldConcat
    <2> QED BY <2>1, <2>2
  <1>7. OutsideFold!Folded(<<On(FrameOf(view), 0)>>, [level \in 1..TreeDepth |-> level - 1]) = Levelled(view)
    BY <1>1, <1>2, <1>3, <1>5, <1>6, LevelsAre
  <1>8. Tree(view) = FrameOf(view)
    BY TreeIs DEF FrameOf
  <1>9. Preorder(Tree(view), NotInRows, TreeDepth) = [i \in DOMAIN Levelled(view) |-> Levelled(view)[i].node]
    BY <1>7, <1>8, DescendedOutside
  <1> QED
    BY <1>9, KidsShape

(* Below an alert there is nothing, and it says what it says.              *)
LEMMA AlertAlone == GatherTexts(Alert, 4) = << >>
  <1>1. Children(Alert) = << >>
    BY DEF Children, Alert, Node
  <1>2. PICK one, N : one = <<On(Alert, 0)>> /\ N = {On(Alert, 0)}
    OBVIOUS
  <1>3. one \in Seq(N) /\ \A n \in N : n.node = Alert
    BY <1>2 DEF On
  <1>4. \A level \in Nat : DescendInto(one, level) = one
    <2>1. \A n \in N : Children(n.node) = << >>
      BY <1>1, <1>3
    <2> QED BY <1>3, <2>1, NothingInside
  <1>5. 4 \in Nat \ {0}
    OBVIOUS
  <1>6. IntoFold!Folded(one, [level \in 1..4 |-> level - 1]) = one
    BY <1>4, <1>5, LevelsAre, IntoFold!FoldFixed
  <1>7. Preorder(Alert, Children, 4) = [i \in DOMAIN one |-> one[i].node]
    <2>1. IntoFold!Folded(<<On(Alert, 0)>>, [level \in 1..4 |-> level - 1]) = one
      BY <1>2, <1>6
    <2>2. PICK depth : depth = 4
      OBVIOUS
    <2>3. IntoFold!Folded(<<On(Alert, 0)>>, [level \in 1..depth |-> level - 1]) = one
      BY <2>1, <2>2
    <2>4. Preorder(Alert, Children, depth) = [i \in DOMAIN one |-> one[i].node]
      BY <2>3, DescendedInto
    <2> QED BY <2>2, <2>4
  <1>8. [i \in DOMAIN one |-> one[i].node] = <<Alert>>
    BY <1>2 DEF On
  <1>9. PICK below : below = Tail(Preorder(Alert, Children, 4)) /\ below = << >>
    <2>1. Tail(<<Alert>>) = << >>
      OBVIOUS
    <2>2. Preorder(Alert, Children, 4) = <<Alert>>
      BY <1>7, <1>8
    <2> QED BY <2>1, <2>2, Zenon
  <1>10. [i \in DOMAIN below |-> Texts(<<below[i].name, below[i].text>>)] = << >>
    BY <1>9
  <1>11. GatherTexts(Alert, 4) = Seqs!FlattenSeq([i \in DOMAIN below |-> Texts(<<below[i].name, below[i].text>>)])
    BY <1>9, Zenon DEF GatherTexts
  <1> QED
    BY <1>10, <1>11, Flattened

Say == "No kernels found"
LEMMA AlertSays == DialogsOf(Alert, << >>) = <<"No kernels found">>
  <1>1. Alert.role = "ALERT" /\ Alert.text = Say /\ Alert.name = "" /\ Say # ""
    BY DEF Alert, Node, Say
  <1>2. Texts(<<Alert.text, Alert.name>>) = <<Say>>
    BY <1>1, TextsOfTwo
  <1>3. PICK texts : texts = Texts(<<Alert.text, Alert.name>>) \o GatherTexts(Alert, 4)
    OBVIOUS
  <1>4. texts = <<Say>>
    <2>1. <<Say>> \o << >> = <<Say>>
      OBVIOUS
    <2> QED BY <1>2, <1>3, <2>1, AlertAlone
  <1>5. MostSpecific(texts) = Say
    <2>1. Length(Say) \in Nat
      BY WordsAssumption DEF Say
    <2>2. DOMAIN texts = {1} /\ texts[1] = Say
      BY <1>4
    <2>3. {i \in DOMAIN texts : \A j \in DOMAIN texts : Length(texts[j]) <= Length(texts[i])} = {1}
      BY <2>1, <2>2
    <2>4. Seqs!Max({1}) = 1
      BY DEF Seqs!Max
    <2> QED BY <2>2, <2>3, <2>4 DEF MostSpecific
  <1>6. ~Seqs!Contains(<< >>, MostSpecific(texts))
    BY DEF Seqs!Contains
  <1>7. \E i \in DOMAIN texts : texts[i] \in MentionsKernels
    <2>1. Say \in MentionsKernels
      BY WordsAssumption DEF Say
    <2>2. 1 \in DOMAIN texts /\ texts[1] = Say
      BY <1>4
    <2> QED BY <2>1, <2>2, Zenon
  <1>8. "ALERT" \in DialogRoles
    BY DEF DialogRoles
  <1>9. DialogsOf(Alert, << >>) =
           IF /\ Alert.role \in DialogRoles
              /\ \E i \in DOMAIN texts : texts[i] \in MentionsKernels
              /\ ~Seqs!Contains(<< >>, MostSpecific(texts))
           THEN <<MostSpecific(texts)>> ELSE << >>
    BY <1>3, Zenon DEF DialogsOf
  <1> QED
    BY <1>1, <1>5, <1>6, <1>7, <1>8, <1>9 DEF Say

(* What the oracle's tree is read as: the rows that were shown, and the    *)
(* word about there being none if it was said.                             *)
Nothing == [rows |-> << >>, dialogs |-> << >>]
Saying(view) == [rows |-> view.rows, dialogs |-> IF Told(view) THEN <<Say>> ELSE << >>]

LEMMA OneMoreOf ==
    ASSUME NEW S, NEW s \in Seq(S), NEW a \in S
    PROVE  s \o <<a>> = Append(s, a) /\ s \o << >> = s
  <1>1. <<a>> \in Seq(S)
    BY OneOf
  <1>2. s \o <<a>> = Append(s, a)
    BY <1>1, OtherFold!AppendProperties, OtherFold!ConcatProperties, OtherFold!SeqEqual
  <1> QED
    BY <1>2, OtherFold!ConcatEmptySeq

LEMMA Joined ==
    ASSUME NEW S, NEW f \in S, NEW t \in S, NEW a \in S
    PROVE  <<f>> \o (<<t>> \o <<a>>) = <<f, t, a>> /\ <<f>> \o (<<t>> \o << >>) = <<f, t>>
  <1>1. PICK one \in Seq(S), two \in Seq(S) : one = <<f>> /\ two = <<t>>
    BY OneOf
  <1>2. one \o two = Append(one, t) /\ two \o <<a>> = Append(two, a) /\ two \o << >> = two
    BY <1>1, OneMoreOf
  <1>3. Append(one, t) = <<f, t>>
    BY <1>1, OtherFold!TupleTwo
  <1>4. one \o Append(two, a) = Append(one \o two, a)
    BY SMT
  <1>5. Append(<<f, t>>, a) = <<f, t, a>>
    BY OtherFold!TupleThree
  <1> QED
    BY <1>1, <1>2, <1>3, <1>4, <1>5, Zenon

LEMMA NoDialog ==
    ASSUME NEW node, node.role \notin DialogRoles, NEW known
    PROVE  DialogsOf(node, known) = << >>
  BY Zenon DEF DialogsOf

LEMMA CollectsFrame == ASSUME NEW view PROVE Collect(Nothing, FrameOf(view)) = Nothing
  <1>1. FrameOf(view).role = "FRAME"
    BY DEF FrameOf, Node
  <1>2. FrameOf(view).role \notin TreeRoles /\ FrameOf(view).role \notin DialogRoles
    BY <1>1 DEF TreeRoles, DialogRoles
  <1>3. DialogsOf(FrameOf(view), << >>) = << >>
    BY <1>2, NoDialog
  <1> QED
    BY <1>2, <1>3 DEF Collect, CollectObservations, Nothing

LEMMA CollectsTree ==
    ASSUME NEW view, Shown(view)
    PROVE  Collect(Nothing, TreeNode(view)) = [rows |-> view.rows, dialogs |-> << >>]
  <1>1. TreeNode(view).role = "TREE"
    BY DEF TreeNode, Node
  <1>2. TreeNode(view).role \in TreeRoles /\ TreeNode(view).role \notin DialogRoles
    BY <1>1 DEF TreeRoles, DialogRoles
  <1>3. DialogsOf(TreeNode(view), << >>) = << >>
    BY <1>2, NoDialog
  <1>4. RowsOf(TreeNode(view)) = view.rows /\ << >> \o view.rows = view.rows
    <2>1. PICK R : view.rows \in Seq(R)
      BY DEF Shown
    <2> QED BY <2>1, TreeRows
  <1> QED
    BY <1>2, <1>3, <1>4 DEF Collect, CollectObservations, Nothing

LEMMA CollectsAlert ==
    ASSUME NEW view, Shown(view)
    PROVE  Collect([rows |-> view.rows, dialogs |-> << >>], Alert) = [rows |-> view.rows, dialogs |-> <<Say>>]
  <1>1. Alert.role = "ALERT"
    BY DEF Alert, Node
  <1>2. Alert.role \notin TreeRoles
    BY <1>1 DEF TreeRoles
  <1>3. DialogsOf(Alert, << >>) = <<Say>>
    BY AlertSays DEF Say
  <1>4. view.rows \o << >> = view.rows /\ << >> \o <<Say>> = <<Say>>
    <2>1. PICK R : view.rows \in Seq(R)
      BY DEF Shown
    <2>2. view.rows \o << >> = view.rows
      BY <2>1, OtherFold!ConcatEmptySeq
    <2>3. << >> \o <<Say>> = <<Say>>
      OBVIOUS
    <2> QED BY <2>2, <2>3
  <1> QED
    BY <1>2, <1>3, <1>4 DEF Collect, CollectObservations

(* The normaliser reads off the original's tree the rows that the window   *)
(* shows, in their order and with every column, whatever the layout: cells *)
(* of a table that is flat, with headers or with a count of columns, or    *)
(* rows that are nodes of their own; and the dialog, if there is one       *)
(* (oracle_observation in normalize.rs).                                   *)
THEOREM TreeSays ==
    ASSUME NEW view, Shown(view)
    PROVE  OracleObservation(Tree(view)) = Saying(view)
  <1>1. PICK f, t, a, n : f = FrameOf(view) /\ t = TreeNode(view) /\ a = Alert /\ n = Nothing
    OBVIOUS
  <1>2. OracleObservation(Tree(view)) = CollectFold!Folded(n, NodesOf(view))
    BY <1>1, Collected, NodesInOrder DEF Nothing
  <1>3. CollectFold!Folded(n, <<f, t>>) = Collect(Collect(n, f), t)
    BY CollectFold!FoldTwo
  <1>4. CollectFold!Folded(n, <<f, t, a>>) = Collect(Collect(Collect(n, f), t), a)
    BY CollectFold!FoldThree
  <1>5. Collect(Collect(n, f), t) = [rows |-> view.rows, dialogs |-> << >>]
    BY <1>1, CollectsFrame, CollectsTree, Zenon
  <1>6. Collect([rows |-> view.rows, dialogs |-> << >>], a) = [rows |-> view.rows, dialogs |-> <<Say>>]
    BY <1>1, CollectsAlert, Zenon
  <1>7. CASE Told(view)
    <2>1. NodesOf(view) = <<f>> \o (<<t>> \o <<a>>)
      BY <1>1, <1>7, Zenon DEF NodesOf, KidsOfFrame
    <2>0. f \in {f, t, a} /\ t \in {f, t, a} /\ a \in {f, t, a}
      OBVIOUS
    <2>2. NodesOf(view) = <<f, t, a>>
      BY <2>0, <2>1, Joined
    <2>3. OracleObservation(Tree(view)) = [rows |-> view.rows, dialogs |-> <<Say>>]
      BY <1>2, <1>4, <1>5, <1>6, <2>2
    <2> QED BY <1>7, <2>3 DEF Saying
  <1>8. CASE ~Told(view)
    <2>1. NodesOf(view) = <<f>> \o (<<t>> \o << >>)
      BY <1>1, <1>8, Zenon DEF NodesOf, KidsOfFrame
    <2>0. f \in {f, t, a} /\ t \in {f, t, a} /\ a \in {f, t, a}
      OBVIOUS
    <2>2. NodesOf(view) = <<f, t>>
      BY <2>0, <2>1, Joined
    <2>3. OracleObservation(Tree(view)) = [rows |-> view.rows, dialogs |-> << >>]
      BY <1>2, <1>3, <1>5, <2>2
    <2> QED BY <1>8, <2>3 DEF Saying
  <1> QED
    BY <1>7, <1>8

(* A comparison that finds nothing found no difference.                    *)
LEMMA NoDifference ==
    ASSUME NEW differs \in BOOLEAN, NEW layer, NEW row, NEW field, If(differs, At(layer, row, field)) = {}
    PROVE  ~differs
  BY DEF If, At

(* What the candidate's dump has of a row.                                 *)
Kernel(view, row) ==
    [companions |-> IF view.odd = "companions" THEN WrongCompanions ELSE Companions(row.raw)] @@ row
LEMMA KernelFields ==
    ASSUME NEW view, NEW row, IsRow(row)
    PROVE  LET k == Kernel(view, row)
           IN  /\ k.raw = row.raw /\ k.version = row.version /\ k.category = row.category
               /\ k.checked = row.checked
               /\ view.odd = "companions" => k.companions = WrongCompanions
  <1> DEFINE first == [companions |-> IF view.odd = "companions" THEN WrongCompanions ELSE Companions(row.raw)]
  <1>1. DOMAIN first = {"companions"}
    OBVIOUS
  <1>2. view.odd = "companions" => first["companions"] = WrongCompanions
    OBVIOUS
  <1>3. DOMAIN row = {"raw", "version", "category", "checked"}
    <2>1. DOMAIN Row(row.raw, row.version, row.category, row.checked) = {"raw", "version", "category", "checked"}
      BY DEF Row
    <2>2. row = Row(row.raw, row.version, row.category, row.checked)
      BY DEF IsRow
    <2> QED BY <2>1, <2>2, Zenon
  <1> HIDE DEF first
  <1>4. \A f \in DOMAIN row : (first @@ row)[f] = row[f]
    BY <1>1, <1>3 DEF @@
  <1>5. (first @@ row)["companions"] = first["companions"]
    BY <1>1 DEF @@
  <1>6. Kernel(view, row) = first @@ row
    BY DEF Kernel, first
  <1> QED
    BY <1>2, <1>3, <1>4, <1>5, <1>6

LEMMA SameRow ==
    ASSUME NEW a, NEW b, IsRow(a), IsRow(b),
           a.raw = b.raw, a.version = b.version, a.category = b.category, a.checked = b.checked
    PROVE  a = b
  BY Zenon DEF IsRow, Row

(* Two windows that compare equal show the same rows.                      *)
LEMMA RowCompared ==
    ASSUME NEW view, NEW o, NEW c, IsRow(o), IsRow(c), NEW i, NEW model,
           CompareRow(o, Kernel(view, c), i, model) = {}
    PROVE  /\ o = c
           /\ (view.odd = "companions" /\ c.raw \in DOMAIN model) =>
                 \A f \in DOMAIN WrongCompanions : WrongCompanions[f] = model[c.raw][f]
  <1> DEFINE k == Kernel(view, c)
  <1>1. /\ k.raw = c.raw /\ k.version = c.version /\ k.category = c.category /\ k.checked = c.checked
        /\ view.odd = "companions" => k.companions = WrongCompanions
    BY KernelFields
  <1> HIDE DEF k
  <1>2. \A f \in {"raw", "version", "category", "checked"} : If(o[f] # k[f], At("kernel-rows", i, f)) = {}
    BY DEF CompareRow, k
  <1>3. \A f \in {"raw", "version", "category", "checked"} : o[f] = k[f]
    BY <1>2 DEF If, At
  <1>4. o = c
    BY <1>1, <1>3, SameRow
  <1>5. k.raw \in DOMAIN model =>
           \A f \in DOMAIN k.companions : If(k.companions[f] # model[k.raw][f], At("companion", i, f)) = {}
    BY DEF CompareRow, k
  <1>6. k.raw \in DOMAIN model => \A f \in DOMAIN k.companions : k.companions[f] = model[k.raw][f]
    BY <1>5 DEF If, At
  <1> QED
    BY <1>1, <1>4, <1>6

(* Two windows that compare equal show the same kernels, row for row and   *)
(* column for column; the original says that there are no kernels exactly  *)
(* if it shows none, and the candidate is not wrong about companions of a  *)
(* kernel the case has a model of (compare_observations in vm_court.rs).   *)
THEOREM WindowsAgree ==
    ASSUME NEW o, NEW c, Shown(o), Shown(c), NEW model,
           \A raw \in DOMAIN model : \E f \in DOMAIN WrongCompanions : WrongCompanions[f] # model[raw][f],
           CompareObservations(OracleObservation(Tree(o)), CandidateObservation(State(c)), model) = {}
    PROVE  /\ o.rows = c.rows /\ o.odd # "dialog"
           /\ c.odd = "companions" => \A i \in DOMAIN c.rows : c.rows[i].raw \notin DOMAIN model
  <1> DEFINE kernels == [i \in DOMAIN c.rows |-> Kernel(c, c.rows[i])]
             told == Saying(o)
  <1>1. /\ CompareObservations(told, [rows |-> kernels, dialogs |-> << >>], model) = {}
    <2>1. OracleObservation(Tree(o)) = told
      BY TreeSays
    <2>2. CandidateObservation(State(c)) = [rows |-> kernels, dialogs |-> << >>]
      BY DEF CandidateObservation, State, Kernel
    <2> QED BY <2>1, <2>2
  <1>2. told.rows = o.rows /\ told.dialogs = IF Told(o) THEN <<Say>> ELSE << >>
    BY DEF Saying
  <1>3. DOMAIN kernels = DOMAIN c.rows /\ \A i \in DOMAIN c.rows : kernels[i] = Kernel(c, c.rows[i])
    OBVIOUS
  <1> HIDE DEF kernels, told
  <1> DEFINE empty == \E i \in DOMAIN told.dialogs : told.dialogs[i] \in SaysNoKernels
  <1>4. /\ If(Len(o.rows) # Len(kernels), At("kernel-rows", 0, "count")) = {}
        /\ \A i \in DOMAIN o.rows \cup DOMAIN kernels :
              (IF i \in DOMAIN o.rows \cap DOMAIN kernels THEN CompareRow(o.rows[i], kernels[i], i, model)
               ELSE At("kernel-rows", i, "row")) = {}
        /\ If(empty # (kernels = << >>), At("kernel-rows", 0, "dialog")) = {}
    <2>1. CompareObservations(told, [rows |-> kernels, dialogs |-> << >>], model) =
            If(Len(o.rows) # Len(kernels), At("kernel-rows", 0, "count"))
            \cup (UNION {IF i \in DOMAIN o.rows \cap DOMAIN kernels THEN CompareRow(o.rows[i], kernels[i], i, model)
                         ELSE At("kernel-rows", i, "row") : i \in DOMAIN o.rows \cup DOMAIN kernels})
            \cup If(empty # (kernels = << >>), At("kernel-rows", 0, "dialog"))
      BY <1>2 DEF CompareObservations
    <2> QED BY <1>1, <2>1
  <1>5. DOMAIN o.rows = DOMAIN c.rows
    BY <1>3, <1>4 DEF At
  <1>6. \A i \in DOMAIN c.rows : CompareRow(o.rows[i], Kernel(c, c.rows[i]), i, model) = {}
    BY <1>3, <1>4, <1>5
  <1>7. \A i \in DOMAIN c.rows : IsRow(o.rows[i]) /\ IsRow(c.rows[i])
    BY <1>5 DEF Shown
  <1>8. \A i \in DOMAIN c.rows :
           /\ o.rows[i] = c.rows[i]
           /\ (c.odd = "companions" /\ c.rows[i].raw \in DOMAIN model) =>
                 \A f \in DOMAIN WrongCompanions : WrongCompanions[f] = model[c.rows[i].raw][f]
    BY <1>6, <1>7, RowCompared
  <1>9. o.rows = c.rows
    <2>1. PICK R, Q : o.rows \in Seq(R) /\ c.rows \in Seq(Q)
      BY DEF Shown
    <2>2. o.rows = [i \in DOMAIN o.rows |-> o.rows[i]] /\ c.rows = [i \in DOMAIN c.rows |-> c.rows[i]]
      BY <2>1
    <2> QED BY <1>5, <1>8, <2>2, Zenon
  <1>10. empty <=> Told(o)
    <2>1. Say \in SaysNoKernels
      BY WordsAssumption DEF Say
    <2>2. CASE Told(o)
      <3>1. told.dialogs = <<Say>>
        BY <1>2, <2>2
      <3>2. 1 \in DOMAIN told.dialogs /\ told.dialogs[1] = Say
        BY <3>1
      <3> QED BY <2>1, <2>2, <3>2
    <2>3. CASE ~Told(o)
      <3>1. told.dialogs = << >>
        BY <1>2, <2>3
      <3>2. DOMAIN told.dialogs = {}
        BY <3>1
      <3> QED BY <2>3, <3>2
    <2> QED BY <2>2, <2>3
  <1>11. empty <=> kernels = << >>
    BY <1>4 DEF If, At
  <1>12. kernels = << >> <=> c.rows = << >>
    <2>1. PICK Q : c.rows \in Seq(Q)
      BY DEF Shown
    <2>2. c.rows = << >> <=> DOMAIN c.rows = {}
      <3>1. DOMAIN << >> = {}
        OBVIOUS
      <3>2. ASSUME c.rows # << >> PROVE 1 \in DOMAIN c.rows
        <4>1. Len(c.rows) \in Nat \ {0}
          BY <2>1, <3>2, OtherFold!EmptySeq
        <4>2. DOMAIN c.rows = 1..Len(c.rows)
          BY <2>1, OtherFold!LenProperties
        <4> QED BY <4>1, <4>2
      <3> QED BY <3>1, <3>2
    <2>3. kernels = [i \in DOMAIN c.rows |-> kernels[i]]
      BY DEF kernels
    <2>4. kernels = << >> <=> DOMAIN kernels = {}
      BY <1>3, <2>3
    <2> QED BY <1>3, <2>2, <2>4
  <1>13. o.odd # "dialog"
    BY <1>9, <1>10, <1>11, <1>12 DEF Told
  <1> QED
    BY <1>8, <1>9, <1>13

(* The residuals of two windows are of rows that are counted from one.     *)
LEMMA RowResiduals ==
    ASSUME NEW view, NEW o, NEW row, NEW i \in Nat, NEW model,
           IsFiniteSet(DOMAIN Companions(row.raw))
    PROVE  AreResiduals(CompareRow(o, Kernel(view, row), i, model))
  <1> DEFINE c == Kernel(view, row)
             S == {"raw", "version", "category", "checked"}
             f == [x \in S |-> If(o[x] # c[x], At("kernel-rows", i, x))]
             T == DOMAIN c.companions
             g == [x \in T |-> If(c.companions[x] # model[c.raw][x], At("companion", i, x))]
  <1>1. IsFiniteSet(S) /\ DOMAIN f = S /\ DOMAIN g = T
    BY FewElements
  <1>2. IsFiniteSet(T)
    <2> DEFINE found == IF view.odd = "companions" THEN WrongCompanions ELSE Companions(row.raw)
    <2>1. IsFiniteSet(DOMAIN found)
      BY CompanionsAssumption
    <2> HIDE DEF found
    <2>2. ([companions |-> found] @@ row).companions = found
      BY DEF @@
    <2>3. c.companions = found
      BY <2>2 DEF Kernel, found
    <2> QED BY <2>1, <2>3
  <1>3. (\A x \in S : AreResiduals(f[x])) /\ \A x \in T : AreResiduals(g[x])
    BY OneResidual
  <1>4. CompareRow(o, c, i, model) =
          (UNION {f[x] : x \in S}) \cup (IF c.raw \notin DOMAIN model THEN {} ELSE UNION {g[x] : x \in T})
    BY DEF CompareRow
  <1> HIDE DEF c, S, f, T, g
  <1>5. AreResiduals(UNION {f[x] : x \in S}) /\ AreResiduals(UNION {g[x] : x \in T})
    BY <1>1, <1>2, <1>3, AllResiduals
  <1>6. AreResiduals(CompareRow(o, c, i, model))
    BY <1>4, <1>5, NoResiduals, MoreResiduals
  <1> QED
    BY <1>6 DEF c

LEMMA WindowResiduals ==
    ASSUME NEW v, NEW w, Viewed(v), Viewed(w), NEW model
    PROVE  AreResiduals(CompareObservations(OracleObservation(Tree(v)), CandidateObservation(State(w)), model))
  <1> DEFINE kernels == [i \in DOMAIN w.rows |-> Kernel(w, w.rows[i])]
             told == Saying(v)
             empty == \E i \in DOMAIN told.dialogs : told.dialogs[i] \in SaysNoKernels
             rows == DOMAIN v.rows \cup DOMAIN kernels
             f == [i \in rows |->
                      IF i \in DOMAIN v.rows \cap DOMAIN kernels THEN CompareRow(v.rows[i], kernels[i], i, model)
                      ELSE At("kernel-rows", i, "row")]
             a == If(Len(v.rows) # Len(kernels), At("kernel-rows", 0, "count"))
             b == If(empty # (kernels = << >>), At("kernel-rows", 0, "dialog"))
  <1>1. /\ OracleObservation(Tree(v)) = told /\ told.rows = v.rows
        /\ CandidateObservation(State(w)) = [rows |-> kernels, dialogs |-> << >>]
    <2>1. OracleObservation(Tree(v)) = told
      BY TreeSays DEF Viewed
    <2>2. told.rows = v.rows
      BY DEF Saying
    <2>3. CandidateObservation(State(w)) = [rows |-> kernels, dialogs |-> << >>]
      BY DEF CandidateObservation, State, Kernel
    <2> QED BY <2>1, <2>2, <2>3
  <1>2. CompareObservations(told, [rows |-> kernels, dialogs |-> << >>], model)
          = a \cup (UNION {f[i] : i \in rows}) \cup b
    <2> DEFINE U == UNION {IF i \in DOMAIN v.rows \cap DOMAIN kernels THEN CompareRow(v.rows[i], kernels[i], i, model)
                           ELSE At("kernel-rows", i, "row") : i \in rows}
    <2> HIDE DEF kernels, told
    <2>1. told.rows = v.rows
      BY <1>1
    <2>2. CompareObservations(told, [rows |-> kernels, dialogs |-> << >>], model) = a \cup U \cup b
      BY <2>1 DEF CompareObservations
    <2>3. U = UNION {f[i] : i \in rows}
      OBVIOUS
    <2> QED BY <2>2, <2>3
  <1>3. DOMAIN kernels = DOMAIN w.rows
    OBVIOUS
  <1>4. /\ DOMAIN v.rows \subseteq Nat /\ DOMAIN w.rows \subseteq Nat
        /\ IsFiniteSet(DOMAIN v.rows) /\ IsFiniteSet(DOMAIN w.rows)
    <2>1. PICK R, Q : v.rows \in Seq(R) /\ w.rows \in Seq(Q)
      BY DEF Viewed, Shown
    <2>2. PICK m \in Nat, n \in Nat : DOMAIN v.rows = 1..m /\ DOMAIN w.rows = 1..n
      BY <2>1, OtherFold!LenProperties
    <2>3. IsFiniteSet(1..m) /\ IsFiniteSet(1..n) /\ 1..m \subseteq Nat /\ 1..n \subseteq Nat
      BY FS_Interval
    <2> QED BY <2>2, <2>3
  <1>5. \A i \in DOMAIN w.rows : IsFiniteSet(DOMAIN Companions(w.rows[i].raw))
    BY DEF Viewed
  <1>6. DOMAIN f = rows /\ IsFiniteSet(rows)
    BY <1>3, <1>4, FS_Union
  <1>7. \A i \in rows : AreResiduals(f[i])
    <2> SUFFICES ASSUME NEW i \in rows PROVE AreResiduals(f[i])
      OBVIOUS
    <2>1. i \in Nat
      BY <1>3, <1>4
    <2>2. CASE i \in DOMAIN v.rows \cap DOMAIN kernels
      <3>1. kernels[i] = Kernel(w, w.rows[i]) /\ IsFiniteSet(DOMAIN Companions(w.rows[i].raw))
        BY <1>3, <1>5, <2>2
      <3>2. f[i] = CompareRow(v.rows[i], Kernel(w, w.rows[i]), i, model)
        BY <2>2, <3>1
      <3> HIDE DEF f
      <3> QED BY <2>1, <3>1, <3>2, RowResiduals
    <2>3. CASE i \notin DOMAIN v.rows \cap DOMAIN kernels
      <3>1. f[i] = At("kernel-rows", i, "row")
        BY <2>3
      <3> HIDE DEF f
      <3> QED BY <2>1, <3>1, OneResidual
    <2> QED BY <2>2, <2>3
  <1>8. AreResiduals(a) /\ AreResiduals(b)
    BY OneResidual
  <1> HIDE DEF f, rows, a, b, kernels, told
  <1>9. AreResiduals(UNION {f[i] : i \in rows})
    BY <1>6, <1>7, AllResiduals
  <1>10. AreResiduals(a \cup (UNION {f[i] : i \in rows}) \cup b)
    BY <1>8, <1>9, MoreResiduals
  <1> QED
    BY <1>1, <1>2, <1>10

LEMMA ObservationsOutcome ==
    ASSUME NEW d, Sound(d.oracle), Sound(d.candidate), NEW model
    PROVE  IsOutcome(CompareVmObservations(d, model))
  <1> DEFINE residual == IF /\ Has(d, "candidate", "candidate-residual.json")
                            /\ d.candidate["candidate-residual.json"] # Cut
                         THEN "candidate-residual.json" ELSE "residual.json"
             failed == ~Parses(d, {"residual.json", "oracle-state.json"}, {residual, "candidate-state.json"})
             drift == If(ResidualDigest(d.oracle["residual.json"]) # ResidualDigest(d.candidate[residual]),
                         At("machine-residual", 0, "drift"))
             windows == CompareObservations(OracleObservation(d.oracle["oracle-state.json"]),
                                            CandidateObservation(d.candidate["candidate-state.json"]), model)
  <1>1. CompareVmObservations(d, model) = IF failed THEN Error ELSE Found(drift \cup windows)
    BY Zenon DEF CompareVmObservations
  <1>2. ASSUME ~failed PROVE AreResiduals(windows)
    <2>1. /\ "oracle-state.json" \in DOMAIN d.oracle /\ d.oracle["oracle-state.json"] # Cut
          /\ "candidate-state.json" \in DOMAIN d.candidate /\ d.candidate["candidate-state.json"] # Cut
      <3> HIDE DEF residual
      <3> QED BY <1>2 DEF Parses, Readable
    <2>2. PICK v : Viewed(v) /\ d.oracle["oracle-state.json"] = Tree(v)
      BY <2>1 DEF Sound, SoundFile
    <2>3. PICK w : Viewed(w) /\ d.candidate["candidate-state.json"] = State(w)
      BY <2>1 DEF Sound, SoundFile
    <2>4. windows = CompareObservations(OracleObservation(Tree(v)), CandidateObservation(State(w)), model)
      BY <2>2, <2>3, Zenon
    <2> HIDE DEF windows
    <2> QED BY <2>2, <2>3, <2>4, WindowResiduals
  <1>3. AreResiduals(drift)
    BY OneResidual
  <1> HIDE DEF failed, drift, windows
  <1>4. CASE failed
    BY <1>1, <1>4, Outcomes
  <1>5. CASE ~failed
    <2>1. AreResiduals(drift \cup windows)
      BY <1>2, <1>3, <1>5, MoreResiduals
    <2> QED BY <1>1, <1>5, <2>1, Outcomes
  <1> QED
    BY <1>4, <1>5

LEMMA VmOutcome ==
    ASSUME NEW d, Sound(d.oracle), Sound(d.candidate), NEW modes, NEW model
    PROVE  IsOutcome(CompareVm(d, modes, model))
  <1>1. /\ IsFiniteSet(DOMAIN d.oracle)
        /\ "candidate-interface.json" \in DOMAIN d.candidate =>
              \/ d.candidate["candidate-interface.json"] = Cut
              \/ IsFiniteSet(d.candidate["candidate-interface.json"].members)
    BY DEF Sound, SoundFile
  <1>2. IsOutcome(CompareScxInterface(d))
    BY <1>1, ScxOutcome
  <1>3. IsOutcome(ComparePackaging(d)) /\ IsOutcome(CompareBoot(d))
    BY <1>1, SurfacesOutcome DEF ComparePackaging, CompareBoot
  <1>4. IsOutcome(CompareMakepkg(d)) /\ IsOutcome(CompareCloseTransaction(d)) /\ IsOutcome(CompareTerminalMatrix(d))
    BY MakepkgOutcome, CloseOutcome, MatrixOutcome
  <1>5. IsOutcome(CompareGuiDrive(d)) /\ IsOutcome(CompareI18nRendered(d))
    BY FewElements, RenderedOutcome DEF CompareGuiDrive, CompareI18nRendered
  <1>6. IsOutcome(CompareVmObservations(d, model))
    BY ObservationsOutcome
  <1>7. IsOutcome(CompareVmTransactions(d)) /\ IsOutcome(CompareMutation(d)) /\ IsOutcome(Found({}))
    BY ChainsOutcome, MutationOutcome, Outcomes
  <1>8. PICK first, matrix, chain, mutation :
           /\ CompareVm(d, modes, model) = Both(Both(first, matrix), Both(chain, mutation))
           /\ first \in {CompareScxInterface(d), ComparePackaging(d), CompareBoot(d), CompareMakepkg(d),
                         CompareGuiDrive(d), CompareI18nRendered(d), CompareCloseTransaction(d),
                         CompareVmObservations(d, model), Found({})}
           /\ matrix \in {CompareTerminalMatrix(d), Found({})}
           /\ chain \in {CompareVmTransactions(d), Found({})}
           /\ mutation \in {CompareMutation(d), Found({})}
    BY DEF CompareVm
  <1>9. IsOutcome(first) /\ IsOutcome(matrix) /\ IsOutcome(chain) /\ IsOutcome(mutation)
    BY <1>2, <1>3, <1>4, <1>5, <1>6, <1>7, <1>8
  <1>10. IsOutcome(Both(first, matrix)) /\ IsOutcome(Both(chain, mutation))
    BY <1>9, Outcomes
  <1> QED
    BY <1>8, <1>10, Outcomes

LEMMA CarriesThem ==
    ASSUME RunnerShape, NEW residuals, runner' = [runner EXCEPT !.pc = "ledger", !.residuals = residuals]
    PROVE  runner'.residuals = residuals
  BY DEF RunnerShape
LEMMA ComparisonsTyped == TypeInv /\ RunnerShape => ComparesTyped
  <1> SUFFICES ASSUME TypeInv, RunnerShape, Compares PROVE AreResiduals(runner'.residuals)
    BY DEF ComparesTyped
  <1> DEFINE outcome == CompareVm(dirs, case.modes, case.model)
  <1>1. AreResiduals(outcome.residuals)
    <2>1. Sound(dirs.oracle) /\ Sound(dirs.candidate)
      BY DEF TypeInv, FilesTyped, Sides
    <2> QED BY <2>1, VmOutcome DEF IsOutcome
  <1>2. runner' = Idle \/ runner' = [runner EXCEPT !.pc = "ledger", !.residuals = outcome.residuals]
    BY DEF Compares, Ends
  <1> HIDE DEF outcome
  <1>3. CASE runner' = Idle
    BY <1>3, IdleShape, NoResiduals
  <1>4. CASE runner' = [runner EXCEPT !.pc = "ledger", !.residuals = outcome.residuals]
    BY <1>1, <1>4, CarriesThem
  <1> QED
    BY <1>2, <1>3, <1>4

(* The state is always typed: the records that are whole say what the      *)
(* runner found, a pass is a record of no residuals (evidence.rs), the     *)
(* residuals are of rows that are counted, whatever lists and trees the    *)
(* windows showed, and a release counts its one court once                 *)
(* (evidence_release.rs), whatever is killed and run again.                *)
THEOREM CourtsAreTyped == Spec => []TypeOK
  <1>1. TypeInv /\ RunnerShape /\ [Next]_vars => TypeInv'
    BY TypeNext, ComparisonsTyped
  <1>2. TypeInv /\ RunnerShape => TypeOK
    BY TypeInvIsEnough
  <1> QED
    BY TypeInit, RunnerInit, RunnerNext, <1>1, <1>2, PTL DEF Spec

(* In a case of no mode the two windows are read as well as the machines.  *)
LEMMA ObservationsPass ==
    ASSUME SidesLeft, case \in Cases, ViewsShown, case.modes = {}, Passes(CompareVmObservations(dirs, case.model))
    PROVE  SidesAgree
  <1> DEFINE o == seen["oracle"].view  c == seen["candidate"].view
             x == Residual(o, "machine")  y == Residual(c, "machine")
  <1>1. /\ Wrote(dirs.oracle, "residual.json", x) /\ Wrote(dirs.candidate, "candidate-residual.json", y)
        /\ Wrote(dirs.oracle, "oracle-state.json", Tree(o))
        /\ Wrote(dirs.candidate, "candidate-state.json", State(c))
    <2>1. /\ Wrote(OracleScript(case.modes, o), "residual.json", x)
          /\ Wrote(OracleScript(case.modes, o), "oracle-state.json", Tree(o))
          /\ Wrote(CandidateScript(case.modes, c), "residual.json", y)
          /\ Wrote(CandidateScript(case.modes, c), "candidate-state.json", State(c))
      BY PlainWrites
    <2> QED
      BY <2>1, OracleLeft, CandidateLeft
  <1>2. x # Cut /\ y # Cut
    <2>1. \A view : "packages" \in DOMAIN Residual(view, "machine")
      BY DEF Residual
    <2>2. "packages" \notin DOMAIN Cut
      BY DEF Cut
    <2> QED BY <2>1, <2>2
  <1>3. Shown(o) /\ Shown(c)
    BY DEF ViewsShown, Sides
  <1> HIDE DEF o, c, x, y
  <1> DEFINE machines == If(ResidualDigest(x) # ResidualDigest(y), At("machine-residual", 0, "drift"))
             windows == CompareObservations(OracleObservation(Tree(o)), CandidateObservation(State(c)), case.model)
  <1>4. CompareVmObservations(dirs, case.model) \in {Error, Found(machines \cup windows)}
    <2>1. /\ Has(dirs, "candidate", "candidate-residual.json")
          /\ dirs.candidate["candidate-residual.json"] = y /\ dirs.oracle["residual.json"] = x
          /\ dirs.oracle["oracle-state.json"] = Tree(o) /\ dirs.candidate["candidate-state.json"] = State(c)
      BY <1>1 DEF Has, Wrote
    <2>2. dirs.candidate["candidate-residual.json"] # Cut
      BY <1>2, <2>1
    <2> QED
      BY <2>1, <2>2 DEF CompareVmObservations
  <1>5. machines = {} /\ windows = {}
    <2> HIDE DEF machines, windows
    <2>1. CompareVmObservations(dirs, case.model) = Found(machines \cup windows)
      BY <1>4 DEF Passes, Error
    <2> QED
      BY <2>1 DEF Passes, Found
  <1>6. /\ o.rows = c.rows /\ o.odd # "dialog"
        /\ c.odd = "companions" => \A i \in DOMAIN c.rows : c.rows[i].raw \notin DOMAIN case.model
    BY <1>3, <1>5, WindowsAgree, CompanionsAssumption
  <1>7. Alike("machine")
    <2>1. ResidualDigest(x) = ResidualDigest(y)
      BY <1>5, IfFindsNothing
    <2>2. (o.odd = "machine") <=> (c.odd = "machine")
      BY <2>1, DigestsDiffer DEF x, y
    <2> QED
      BY <2>2 DEF Alike, o, c
  <1>8. seen.oracle.boots = seen.candidate.boots
    BY NoBoots
  <1> QED
    BY <1>6, <1>7, <1>8 DEF SidesAgree, o, c

LEMMA NothingFoundIsAgreement ==
    ASSUME SidesLeft, case \in Cases, ViewsShown, Modal(case.modes),
           Passes(CompareVm(dirs, case.modes, case.model))
    PROVE  SidesAgree
  <1>1. CASE case.modes = {}
    BY <1>1, PlainCompares, ObservationsPass
  <1>2. CASE \E mode \in Modes : case.modes = {mode}
    BY <1>2, NothingFoundInItsMode
  <1> QED
    BY <1>1, <1>2 DEF Modal

(* The comparison is made of what both machines left.                      *)
LEMMA PassCompared ==
    ASSUME PassInv, RunnerShape, ViewsShown, Compares
    PROVE  PassInv'
  <1> DEFINE outcome == CompareVm(dirs, case.modes, case.model)
  <1>1. runner.pc = "compare" /\ UNCHANGED case
    BY DEF Compares
  <1>2. SeenShape /\ SeenByPhase
    BY DEF PassInv
  <1>3. CASE outcome.ok
    <2>1. /\ runner' = [runner EXCEPT !.pc = "ledger", !.residuals = outcome.residuals]
          /\ UNCHANGED seen
      BY <1>3 DEF Compares
    <2>2. SidesLeft
      BY <1>1, <1>2 DEF SidesLeft, SeenByPhase
    <2>3. outcome = Found(outcome.residuals)
      BY <1>3, ComparisonIsErrorOrFound
    <2> HIDE DEF outcome
    <2>4. runner'.pc = "ledger" /\ runner'.how = "vm" /\ runner'.residuals = outcome.residuals
      BY <1>1, <1>2, <2>1 DEF RunnerShape, SeenByPhase
    <2>5. outcome.residuals = {} => SidesAgree
      <3> SUFFICES ASSUME outcome.residuals = {} PROVE SidesAgree
        OBVIOUS
      <3>1. Passes(outcome)
        BY <1>3, <2>3 DEF Passes, Found
      <3> QED
        BY <2>2, <3>1, NothingFoundIsAgreement, PassMode DEF outcome, PassInv
    <2>6. outcome.residuals = {} => SidesAgree'
      BY <1>1, <2>1, <2>5, SidesStillAgree
    <2> QED
      BY <1>1, <1>2, <2>1, <2>4, <2>6 DEF PassInv, SeenByPhase, SeenShape
  <1>4. CASE ~outcome.ok
    <2>1. runner' = Idle /\ seen' = Unseen
      BY <1>4 DEF Compares, Ends
    <2> QED
      BY <1>1, <2>1, IdleShape, PassWhenUnseen
  <1> QED
    BY <1>3, <1>4

LEMMA PassNext ==
    ASSUME PassInv, RunnerShape, OwnInv, ViewsShown, [Next]_vars
    PROVE  PassInv'
  <1>0. case \in Cases /\ UNCHANGED case
    BY DEF PassInv, Next, vars, Builds, VmStarts, EmptiesOut, StaleMachineWrites, MachineStarts,
           ScriptRuns, MachineFails, RebootsAndChecks, CopiesOut, RenamesResidual, Compares,
           WitnessStarts, WitnessWrites, PlainRun, WritesLedger, WritesEvidence, StartsRelease,
           WritesReleaseFile, Killed
  <1>m. Modal(case.modes)
    BY <1>0, PassMode
  <1>s. SeenShape /\ SeenByPhase
    BY DEF PassInv
  <1>i. ASSUME runner.pc \in {"idle", "witness", "release"} PROVE runner.how # "vm" /\ seen = Unseen
    BY <1>i, <1>s DEF SeenByPhase
  <1>e. ASSUME Ends PROVE PassInv'
    BY <1>0, <1>e, IdleShape, PassWhenUnseen DEF Ends
  <1>1. CASE Builds
    BY <1>0, <1>1, <1>i, PassWhenUnseen DEF Builds, history
  <1>2. CASE VmStarts
    <2>0. runner.pc = "idle" /\ seen = Unseen /\ seen' = seen /\ runner.how # "vm"
      BY <1>2, <1>i DEF VmStarts, history
    <2>1. CASE runner' = runner
      BY <1>0, <2>0, <2>1, PassWhenUnseen
    <2>2. CASE runner' = [Idle EXCEPT !.pc = "start", !.how = "vm"]
      <3>1. runner'.pc = "start" /\ runner'.how = "vm" /\ runner'.side = "oracle"
        BY <2>2 DEF Idle
      <3>2. SeenByPhase'
        BY <2>0, <3>1, UnseenShape DEF SeenByPhase, Sides
      <3> QED
        BY <1>0, <1>s, <2>0, <3>2 DEF PassInv, SeenShape
    <2> QED
      BY <1>2, <2>1, <2>2 DEF VmStarts
  <1>p. ASSUME runner.pc \in {"start", "cleanup"}, runner'.pc \in {"cleanup", "script"},
               runner'.side = runner.side, runner'.how = runner.how, UNCHANGED <<seen, dirs>>
        PROVE  PassInv'
    <2>1. runner.side = "candidate" => OracleIsDone'
      BY <1>0, <1>s, <1>p, OracleStaysDone DEF SeenByPhase
    <2>2. SeenByPhase'
      BY <1>s, <1>p, <2>1 DEF SeenByPhase
    <2> QED
      BY <1>0, <1>s, <1>p, <2>2 DEF PassInv, SeenShape
  <1>3. CASE EmptiesOut
    BY <1>3, <1>p DEF EmptiesOut, RunnerShape
  <1>18. CASE StaleMachineWrites
    <2>1. runner.pc = "cleanup" /\ UNCHANGED <<runner, seen, dirs>>
      BY <1>18 DEF StaleMachineWrites, history
    <2> QED
      BY <1>p, <2>1
  <1>19. CASE MachineStarts
    <2>1. UNCHANGED <<seen, dirs>>
      BY <1>19 DEF MachineStarts, history
    <2> QED
      BY <1>19, <1>p, <2>1 DEF MachineStarts, RunnerShape
  <1>4. CASE ScriptRuns
    BY <1>4, <1>m, PassScript
  <1>5. CASE MachineFails
    BY <1>5, <1>e DEF MachineFails
  <1>6. CASE RebootsAndChecks
    BY <1>6, PassReboot
  <1>7. CASE CopiesOut
    BY <1>7, <1>m, PassCopied
  <1>8. CASE RenamesResidual
    BY <1>8, <1>m, PassRenamed
  <1>9. CASE Compares
    BY <1>9, PassCompared
  <1>10. CASE WitnessStarts
    <2>1. runner'.how = "" /\ runner'.pc = "witness" /\ seen' = seen
      BY <1>10 DEF WitnessStarts, Idle
    <2> QED
      BY <1>0, <1>10, <1>i, <2>1, PassWhenUnseen DEF WitnessStarts
  <1>20. CASE WitnessWrites
    <2>1. runner.pc = "witness" /\ seen' = seen /\ runner.how # "vm" /\ seen = Unseen
      BY <1>20, <1>i DEF WitnessWrites, history
    <2>2. runner'.pc \in {"idle", "witness"} /\ runner'.how # "vm"
      BY <1>20, <2>1, IdleShape DEF WitnessWrites, RunnerShape
    <2> QED
      BY <1>0, <2>1, <2>2, PassWhenUnseen
  <1>11. CASE PlainRun
    <2>1. runner'.how = "plain" /\ runner'.pc \in {"evidence", "ledger"}
      BY <1>11 DEF PlainRun, Idle
    <2> QED
      BY <1>0, <1>11, <1>i, <2>1, PassWhenUnseen DEF PlainRun, history
  <1>12. CASE WritesLedger
    <2>1. runner.pc = "ledger" /\ UNCHANGED <<seen, dirs>>
      BY <1>12 DEF WritesLedger, history
    <2>2. CASE runner.how = "plain"
      <3>1. runner' = Idle /\ seen = Unseen
        BY <1>12, <1>s, <2>2 DEF WritesLedger, SeenByPhase
      <3> QED
        BY <1>e, <2>1, <3>1 DEF Ends
    <2>3. CASE runner.how # "plain"
      <3>1. /\ runner'.pc = "evidence" /\ runner'.how = runner.how /\ runner'.residuals = runner.residuals
        BY <1>12, <2>3 DEF WritesLedger, RunnerShape
      <3>2. (runner.how = "vm" /\ runner.residuals = {}) => SidesAgree'
        BY <1>0, <1>s, <2>1, SidesStillAgree DEF SeenByPhase
      <3>3. SeenByPhase'
        BY <1>s, <2>1, <3>1, <3>2 DEF SeenByPhase
      <3> QED
        BY <1>0, <1>s, <2>1, <3>3 DEF PassInv, SeenShape
    <2> QED
      BY <2>2, <2>3
  <1>13. CASE WritesEvidence
    BY <1>13, <1>e DEF WritesEvidence
  <1>14. CASE StartsRelease
    <2>1. runner'.how = "" /\ runner'.pc = "release"
      BY <1>14 DEF StartsRelease, Idle
    <2> QED
      BY <1>0, <1>14, <1>i, <2>1, PassWhenUnseen DEF StartsRelease, history
  <1>15. CASE WritesReleaseFile
    <2>1. runner.pc = "release" /\ seen' = seen /\ runner.how # "vm" /\ seen = Unseen
      BY <1>15, <1>i DEF WritesReleaseFile, history
    <2>2. runner'.pc \in {"idle", "release"} /\ runner'.how # "vm"
      BY <1>15, <2>1, IdleShape DEF WritesReleaseFile, RunnerShape
    <2> QED
      BY <1>0, <2>1, <2>2, PassWhenUnseen
  <1>16. CASE Killed
    BY <1>16, <1>e DEF Killed
  <1>17. CASE UNCHANGED vars
    <2>1. UNCHANGED <<case, dirs, share, runner, seen>>
      BY <1>17 DEF vars, history
    <2>2. PassInv' <=> PassInv
      BY <2>1 DEF PassInv, SeenShape, SeenByPhase, OracleIsDone, CandidateIsDone, SidesAgree, Alike
    <2> QED
      BY <2>2
  <1> QED
    BY <1>1, <1>2, <1>3, <1>4, <1>5, <1>6, <1>7, <1>8, <1>9, <1>10, <1>11, <1>12, <1>13,
       <1>14, <1>15, <1>16, <1>17, <1>18, <1>19, <1>20 DEF Next

(* A run in the machines that is about to record a pass has seen both      *)
(* sides agree in this run (vm_court.rs, and normalize.rs where a window   *)
(* is read): nothing an earlier run left in the directories, which are     *)
(* never cleared, can have made it pass, and whatever kernels the original *)
(* shows, in whatever layout, are those of the candidate.                  *)
THEOREM PassesSeeTheirRun == Spec => []PassSeesThisRun
  <1>1. PassInv /\ RunnerShape /\ OwnInv /\ ShownInv /\ [Next]_vars => PassInv'
    BY PassNext DEF ShownInv
  <1>2. OwnInv /\ RunnerShape /\ [Next]_vars => OwnInv'
    BY OwnNext
  <1>3. PassInv => PassSeesThisRun
    BY DEF PassInv, SeenByPhase, PassSeesThisRun
  <1> QED
    BY PassInit, OwnInit, RunnerInit, RunnerNext, ShownInit, ShownNext, <1>1, <1>2, <1>3, RunnerAlwaysShaped,
       PTL DEF Spec
================================================================================
