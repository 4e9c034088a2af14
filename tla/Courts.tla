--------------------------------- MODULE Courts ---------------------------------
(***************************************************************************)
(* Running a court.  A case is run on the oracle and on the candidate, in  *)
(* a virtual machine of its own each, and what the two left behind is      *)
(* compared; or the files that a corpus witness left are compared as they  *)
(* are.  The outcome goes to a ledger of residuals and to an evidence      *)
(* record, and releases gather the records.  Whatever runs may be killed   *)
(* between two writes or in the middle of one, and run again: the          *)
(* directories of a case are never cleared, and a machine that is up goes  *)
(* on until the next run stops it.                                         *)
(***************************************************************************)
EXTENDS Evidence

CONSTANTS
    Cases,              \* [modes, model, ignore, corpus]
    CorpusFiles,        \* the files a corpus witness leaves on either side, in order
    Reference(_),       \* what is in them by the oracle's reference
    Model(_),           \* ... and by the candidate's model
    RowLists,           \* the kernel lists an oracle's window may show
    Layouts,            \* the layouts of the accessibility tree
    Companions(_),      \* the companions the candidate finds of a kernel
    WrongCompanions,    \* ... and those it finds when it is wrong
    Strays,             \* bounds the files that a machine writes after its command ended
                        \* and those that are left where removing them fails
    Budgets(_)          \* bounds the court runs, the kills (with the removals that fail)
                        \* and the releases of a case

(* What a comparator.toml may ask for; each of the repository's asks for   *)
(* one of these at most.                                                   *)
Modes == BootModes \cup {"transaction", "configure", "mutate", "scx", "packaging", "makepkg",
                         "gui_drive", "i18n_rendered", "close_transaction", "terminal_matrix"}
ASSUME ModesAssumption == \A c \in Cases : c.modes = {} \/ \E mode \in Modes : c.modes = {mode}

(* What a scenario prints is not the name of a temporary file.             *)
ASSUME TmpPathsAssumption == {"usual", "odd"} \cap TmpPaths = {}

(* A kernel list is a list of rows that show something.  In rows that are  *)
(* nodes of their own the columns are told by what their texts look like:  *)
(* the name of a kernel with a digit and a dash in it is not told.         *)
IsRow(row) ==
    /\ row = Row(row.raw, row.version, row.category, row.checked) /\ row.checked \in BOOLEAN
    /\ ~(row.raw = "" /\ row.version = "" /\ row.category = "")
ToldApart(row) ==
    /\ row.raw \notin VersionLike \cup Categories \cup {""}
    /\ row.version \in VersionLike \ {""} /\ row.category \in Categories \ {""}
ASSUME RowListsAssumption ==
    \A rows \in RowLists :
        /\ rows \in Seq({rows[i] : i \in DOMAIN rows})
        /\ \A i \in DOMAIN rows : IsRow(rows[i]) /\ ("nested" \in Layouts => ToldApart(rows[i]))

(* The words the original's window uses, and how deep its tree is read.    *)
ASSUME WordsAssumption ==
    /\ "No kernels found" \in MentionsKernels \cap SaysNoKernels /\ Length("No kernels found") \in Nat
    /\ "Choose" \in Checkish
ASSUME TreeDepthAssumption == TreeDepth \in Nat \ {0}

(* A kernel has so many companions; a wrong answer about one the case has  *)
(* a model of differs from it.                                             *)
ASSUME CompanionsAssumption ==
    /\ \A rows \in RowLists : \A i \in DOMAIN rows : IsFiniteSet(DOMAIN Companions(rows[i].raw))
    /\ IsFiniteSet(DOMAIN WrongCompanions)
    /\ \A c \in Cases : \A raw \in DOMAIN c.model :
          \E f \in DOMAIN WrongCompanions : WrongCompanions[f] # c.model[raw][f]
ASSUME StraysAssumption == Strays \in Nat
ASSUME CorpusFilesAssumption ==
    /\ CorpusFiles \in Seq(Range(CorpusFiles)) /\ CorpusFiles # << >>
    /\ Range(CorpusFiles)
        \cap {"oracle-state.json", "candidate-state.json", "candidate-interface.json"} = {}
ASSUME BudgetsAssumption ==
    \A c \in Cases : \A b \in Budgets(c) : \A counter \in DOMAIN b : b[counter] \in Nat

VARIABLES
    case,
    missing,            \* what is not built or baked, of what a run needs
    dirs,               \* the oracle and candidate directories of the case
    share,              \* the out directory of the machines' share
    stale,              \* what a machine whose command ended may still write there
    ledger,             \* residual.json of the case
    evidence,           \* evidence.json
    release,
    runner,             \* the command that runs
    seen,               \* what each side witnesses in the run that goes on (history)
    wrote,              \* the files each side's machine or witness ever wrote (history)
    mixed,              \* the sides once started with others' files or machine (history)
    budget

history == <<seen, wrote, mixed>>
vars == <<case, missing, dirs, share, stale, ledger, evidence, release, runner, history, budget>>
records == <<ledger, evidence, release>>

(***************************************************************************)
(* What a side witnesses: the rows of its window, in some layout, and at   *)
(* most one surface that differs from what is usual.  The scripts in the   *)
(* machines turn that into files.                                          *)
(***************************************************************************)
View(rows, layout, odd) == [rows |-> rows, layout |-> layout, odd |-> odd]
Plain == View(<< >>, "headers", "nothing")
Nobody == View(<< >>, "headers", "nobody looked")

Text(view, surface) == [text |-> IF view.odd = surface THEN "odd" ELSE "usual"]
Residual(view, surface) ==
    [packages |-> IF view.odd = surface THEN {"linux", "leftover"} ELSE {"linux"},
     syncDbs |-> {"core"}, localDb |-> {"linux"}]

Node(role, text, states, children) ==
    [role |-> role, name |-> "", text |-> text, states |-> states, children |-> children]
Check(row) == Node("56", "", {"checkable"} \cup (IF row.checked THEN {"checked"} ELSE {}), << >>)
Cells(row) == <<Check(row), Node("56", row.raw, {}, << >>), Node("56", row.version, {}, << >>),
                Node("56", row.category, {}, << >>)>>
HeaderRow == [i \in 1..4 |-> Node("57", <<"Choose", "PkgName", "Version", "Category">>[i], {}, << >>)]
Tree(view) ==
    LET children ==
            CASE view.layout = "nested" ->
                    [i \in DOMAIN view.rows |-> Node("TREE_ITEM", "", {}, Cells(view.rows[i]))]
              [] view.layout = "headers" ->
                    HeaderRow \o Seqs!FlattenSeq([i \in DOMAIN view.rows |-> Cells(view.rows[i])])
              [] OTHER -> Seqs!FlattenSeq([i \in DOMAIN view.rows |-> Cells(view.rows[i])])
        dialog == IF (view.rows = << >>) # (view.odd = "dialog")
                  THEN <<Node("ALERT", "No kernels found", {}, << >>)>> ELSE << >>
    IN  Node("FRAME", "", {}, <<Node("TREE", "", {}, children)>> \o dialog)
State(view) ==
    [kernels |-> [i \in DOMAIN view.rows |->
        [companions |-> IF view.odd = "companions" THEN WrongCompanions
                        ELSE Companions(view.rows[i].raw)] @@ view.rows[i]]]

Chain(view) ==
    LET Odd(surface, odd, usual) == IF view.odd = surface THEN odd ELSE usual
    IN  [probes |-> Odd("probes", <<"other">>, <<"probe">>),
         execs |-> Odd("execs", <<"other">>, <<"pacman">>),
         commands |-> Odd("execs", <<"other">>, <<"pacman">>),
         terminal |-> Odd("terminal", {"other"}, {"terminal-helper"})]
ScenariosFile(view) ==
    [scenarios |-> <<[stdout |-> <<"wrote", IF view.odd = "tmp" THEN "/tmp/b" ELSE "/tmp/a",
                                   IF view.odd = "scenarios" THEN "odd" ELSE "usual">>]>>]
Member(name, sig, writable) == [kind |-> "property", name |-> name, sig |-> sig, writable |-> writable]
Members(view) ==
    (IF view.odd = "without member" THEN {}
     ELSE {Member("mode", IF view.odd = "signature" THEN "s" ELSE "u", view.odd = "access")})
    \cup (IF view.odd = "with member" THEN {Member("more", "s", FALSE)} ELSE {})
Values(view) == [current_scheduler |-> Text(view, "values").text]

RawTrace(modes) == IF modes \cap {"boot_remove", "boot_failure"} # {} THEN "remove-raw.trace" ELSE "install-raw.trace"
BootOuts == {"command.txt", "execs.txt", "post-boot.txt", "packages.txt"}
MakepkgOuts == {"commands.txt", "scf-execs.txt", "sicf-execs.txt", "aurfail-execs.txt",
                "makepkg-version.txt", "packages.txt"}
PackagingOuts == {"baseline-version.txt", "upgraded-filelist.txt", "reverted-version.txt", "packages.txt"}
Outs(files, view) == [f \in files |-> Text(view, f)]
Machine(view) == "residual.json" :> Residual(view, "machine")
After(view) == "residual.json.after" :> Residual(view, "after")

(* The script of each side, by the modes of the case, and what it leaves.  *)
OracleScript(modes, view) ==
    CASE "terminal_matrix" \in modes -> "terminal-matrix.json" :> ScenariosFile(view)
      [] "close_transaction" \in modes ->
            Machine(view) @@ After(view)
            @@ "close-outcome.json" :> [exit |-> IF view.odd = "exit" THEN "clean" ELSE "crash"]
      [] "i18n_rendered" \in modes ->
            Machine(view) @@ After(view) @@ Outs({"i18n-de_DE.json", "i18n-zh_CN.json"}, view)
      [] "gui_drive" \in modes -> Machine(view) @@ After(view) @@ Outs({"drive-semantic.json"}, view)
      [] "scx" \in modes -> "introspect.txt" :> [members |-> Members(view)]
            @@ "oracle-properties.json" :> [values |-> Values(view)]
      [] modes \cap BootModes # {} -> Outs(BootOuts, view) @@ RawTrace(modes) :> [text |-> "oracle's"]
      [] "makepkg" \in modes -> Outs(MakepkgOuts, view)
      [] "packaging" \in modes -> Outs(PackagingOuts, view)
      [] OTHER -> Machine(view) @@ After(view) @@ "oracle-state.json" :> Tree(view)
            @@ (IF "mutate" \in modes THEN Outs({"pkgbuild-before.txt", "pkgbuild-after.txt"}, view)
                ELSE IF modes \cap {"configure", "transaction"} # {}
                     THEN "oracle-transaction.json" :> Chain(view) ELSE << >>)

CandidateScript(modes, view) ==
    CASE "close_transaction" \in modes ->
            Machine(view) @@ After(view)
            @@ "close-outcome.json" :> [exit |-> IF view.odd = "exit" THEN "crash" ELSE "clean"]
      [] "scx" \in modes -> "candidate-interface.json" :> [members |-> Members(view)]
            @@ "candidate-readback.json" :> [values |-> Values(view)]
      [] modes \cap BootModes # {} -> Outs(BootOuts, view) @@ RawTrace(modes) :> [text |-> "candidate's"]
      [] modes \cap {"terminal_matrix", "i18n_rendered", "gui_drive", "makepkg", "packaging"} # {} -> OracleScript(modes, view)
      [] OTHER -> Machine(view) @@ "candidate-state.json" :> State(view)
            @@ (IF "mutate" \in modes
                THEN "candidate-pkgbuild-before.txt" :> Text(view, "pkgbuild-before.txt")
                     @@ "candidate-pkgbuild-after.txt" :> Text(view, "pkgbuild-after.txt")
                ELSE IF modes \cap {"configure", "transaction"} # {}
                     THEN "candidate-transaction.json" :> Chain(view) ELSE << >>)

Script(side, view) ==
    IF side = "oracle" THEN OracleScript(case.modes, view) ELSE CandidateScript(case.modes, view)

(* What a check after a reboot leaves.  A machine that lost the kernel it  *)
(* ran on need not come up; the attempt is noted either way.               *)
Reboots(modes) ==
    IF "boot_drift" \in modes THEN 3 ELSE IF modes \cap BootModes # {} THEN 1 ELSE 0
BootCheck(modes, view, n) ==
    (IF "boot_drift" \in modes THEN <<"boot-status-1.txt", "boot-status-2.txt", "boot-status-3.txt">>[n]
     ELSE "boot-status.txt") :> Text(view, "boot-status.txt")
BootAttempt(up) == "boot-attempt.txt" :> [text |-> IF up THEN "ready" ELSE "no ssh"]

(* The surfaces that may be odd.                                           *)
Odds(modes) ==
    CASE "close_transaction" \in modes -> {"machine", "after", "exit"}
      [] "i18n_rendered" \in modes -> {"machine", "after", "i18n-zh_CN.json"}
      [] "gui_drive" \in modes -> {"machine", "after", "drive-semantic.json"}
      [] "scx" \in modes -> {"with member", "without member", "signature", "access", "values"}
      [] modes \cap BootModes # {} -> BootOuts \cup {"boot-status.txt"}
      [] "makepkg" \in modes -> MakepkgOuts
      [] "packaging" \in modes -> PackagingOuts
      [] "terminal_matrix" \in modes -> {"tmp", "scenarios"}
      [] "mutate" \in modes -> {"pkgbuild-before.txt", "pkgbuild-after.txt"}
      [] modes \cap {"configure", "transaction"} # {} -> {"probes", "execs", "terminal"}
      [] OTHER -> {"machine", "after", "dialog", "companions"}
Views(side) ==
    LET odd == {View(<< >>, "headers", o) : o \in Odds(case.modes) \cup {"nothing"}}
        full == IF side = "oracle" THEN {View(rows, layout, "nothing") : rows \in RowLists, layout \in Layouts}
                ELSE {View(rows, "headers", o) : rows \in RowLists, o \in {"nothing", "companions"}}
    IN  IF case.modes = {} THEN odd \cup full ELSE odd

-----------------------------------------------------------------------------
(* What must have been built or baked for a case to run in the machines.   *)
RequiredTools == {"inspect", "plan", "gitcache", "mutate", "buildcmd", "scx tools"}
RequiredByMode(modes) ==
    (IF "terminal_matrix" \in modes THEN {"packaged helper"} ELSE {})
    \cup (IF "packaging" \in modes THEN {"packages"} ELSE {})
    \cup (IF modes \cap BootModes # {} THEN {"installcmd"} ELSE {})
    \cup (IF modes \cap {"gui_drive", "i18n_rendered", "close_transaction"} # {} THEN {"release gui"} ELSE {})
Required(modes) == {"fixture image"} \cup RequiredTools \cup RequiredByMode(modes)

(* The commands.                                                           *)
NoFiles == [f \in {} |-> None]
Idle == [pc |-> "idle", side |-> "oracle", left |-> 0, residuals |-> {}, how |-> ""]
Unseen == [side \in Sides |-> [view |-> Nobody, boots |-> << >>]]
Ends == runner' = Idle /\ seen' = Unseen
Spent(counter) == [budget EXCEPT ![counter] = @ - 1]

Init ==
    /\ case \in Cases
    /\ missing \in {"nothing"} \cup (IF case.corpus = "" THEN Required(case.modes) ELSE {})
    /\ dirs = [side \in Sides |-> NoFiles]
    /\ share \in {NoFiles} \cup (IF case.corpus = "" THEN {"leftover.txt" :> [text |-> "another court's"]} ELSE {})
    /\ stale \in {NoFiles, share}
    /\ ledger = None /\ evidence = None
    /\ release = [f \in Range(ReleaseFiles) |-> None]
    /\ runner = Idle
    /\ seen = Unseen
    /\ wrote = [side \in Sides |-> {}]
    /\ mixed = {}
    /\ budget \in Budgets(case)

(* The missing tool is built, or the fixture baked.                        *)
Builds ==
    /\ runner.pc = "idle" /\ missing # "nothing" /\ missing' = "nothing"
    /\ UNCHANGED <<case, dirs, share, stale, records, runner, history, budget>>

(***************************************************************************)
(* court run --vm                                                          *)
(***************************************************************************)
VmStarts ==
    /\ runner.pc = "idle" /\ case.corpus = "" /\ budget.runs > 0
    /\ IF missing \in Required(case.modes)
       THEN UNCHANGED <<runner, budget>>
       ELSE /\ runner' = [Idle EXCEPT !.pc = "start", !.how = "vm"]
            /\ budget' = Spent("runs")
    /\ UNCHANGED <<case, missing, dirs, share, stale, records, history>>

(* A plausible mistake in EmptiesOut; not part of the specification.       *)
LeavesOutAsItIs ==
    /\ runner.pc = "start"
    /\ runner' = [runner EXCEPT !.pc = "cleanup"]
    /\ UNCHANGED <<case, missing, dirs, share, stale, records, history, budget>>

(* A fresh out directory for each side; that the old one could not be      *)
(* removed, or not all of it, is not looked at.                            *)
Few(files) == {Restrict(files, some) : some \in {fs \in SUBSET DOMAIN files : Cardinality(fs) <= Strays}}
EmptiesOut ==
    /\ runner.pc = "start"
    /\ \E kept \in Few(share) :
         /\ share' = kept
         /\ \/ kept = NoFiles /\ UNCHANGED budget
            \/ kept # NoFiles /\ budget.kills > 0 /\ budget' = Spent("kills")
         /\ mixed' = IF kept = NoFiles /\ stale = NoFiles THEN mixed ELSE mixed \cup {runner.side}
    /\ runner' = [runner EXCEPT !.pc = "cleanup"]
    /\ UNCHANGED <<case, missing, dirs, stale, records, seen, wrote>>

(* Until it is stopped, a machine that outlived its command writes.  What  *)
(* it wrote before the directory was emptied it may as well write now.     *)
StaleMachineWrites ==
    /\ runner.pc = "cleanup"
    /\ \E f \in DOMAIN stale : share' = f :> stale[f] @@ share
    /\ UNCHANGED <<case, missing, dirs, stale, records, runner, history, budget>>

(* It is stopped, and the side's own machine started.                      *)
MachineStarts ==
    /\ runner.pc = "cleanup"
    /\ stale' = NoFiles
    /\ runner' = [runner EXCEPT !.pc = "script"]
    /\ UNCHANGED <<case, missing, dirs, share, records, history, budget>>

(* The side's script is run, and the machine stopped.  The command ends at *)
(* once where something fails, with whatever the script had written left   *)
(* in the share; a machine that does not start may be left up, with        *)
(* nothing to write, or the stale one may have survived.                   *)
ScriptRuns ==
    /\ runner.pc = "script"
    /\ \E view \in Views(runner.side) :
         LET files == Script(runner.side, view)
         IN  /\ seen' = [seen EXCEPT ![runner.side].view = view]
             /\ wrote' = [wrote EXCEPT ![runner.side] = @ \cup DOMAIN files]
             /\ share' = files @@ share
             /\ runner' = [runner EXCEPT !.pc = "reboot", !.left = Reboots(case.modes)]
    /\ UNCHANGED <<case, missing, dirs, stale, records, mixed, budget>>

MachineFails ==
    /\ runner.pc \in {"start", "cleanup", "script", "reboot"}
    /\ \/ UNCHANGED share
       \/ runner.pc = "script" /\ share' = Script(runner.side, Plain) @@ share
    /\ stale' \in {stale} \cup (IF runner.pc = "cleanup" THEN {NoFiles} ELSE {})
    /\ Ends
    /\ UNCHANGED <<case, missing, dirs, records, wrote, mixed, budget>>

(* A plausible mistake in RebootsAndChecks; not part of the specification. *)
RebootsWithoutNotingTheAttempt ==
    /\ runner.pc = "reboot" /\ runner.left > 0
    /\ \E up \in {TRUE} \cup {"boot_failure" \notin case.modes} :
         LET found == IF up THEN BootCheck(case.modes, seen[runner.side].view, Reboots(case.modes) + 1 - runner.left)
                      ELSE NoFiles
         IN  /\ share' = found @@ share
             /\ wrote' = [wrote EXCEPT ![runner.side] = @ \cup DOMAIN found]
             /\ seen' = [seen EXCEPT ![runner.side].boots = Append(@, up)]
             /\ runner' = [runner EXCEPT !.left = @ - 1]
    /\ UNCHANGED <<case, missing, dirs, stale, records, mixed, budget>>

(* The same overlay is booted again, and checked.                          *)
RebootsAndChecks ==
    /\ runner.pc = "reboot" /\ runner.left > 0
    /\ \E up \in {TRUE} \cup {"boot_failure" \notin case.modes} :
         LET n == Reboots(case.modes) + 1 - runner.left
             found == (IF up THEN BootCheck(case.modes, seen[runner.side].view, n) ELSE NoFiles)
                      @@ (IF "boot_failure" \in case.modes THEN BootAttempt(up) ELSE NoFiles)
         IN  /\ share' = found @@ share
             /\ wrote' = [wrote EXCEPT ![runner.side] = @ \cup DOMAIN found]
             /\ seen' = [seen EXCEPT ![runner.side].boots = Append(@, up)]
             /\ runner' = [runner EXCEPT !.left = @ - 1]
    /\ UNCHANGED <<case, missing, dirs, stale, records, mixed, budget>>

(* What is in the share is copied over what is in the case, file by file,  *)
(* which shows only if the copying is cut short.                           *)
CopiesOut ==
    /\ runner.pc = "reboot" /\ runner.left = 0
    /\ dirs' = [dirs EXCEPT ![runner.side] = share @@ @]
    /\ runner' = IF runner.side = "oracle" THEN [runner EXCEPT !.pc = "start", !.side = "candidate"]
                 ELSE [runner EXCEPT !.pc = "rename"]
    /\ UNCHANGED <<case, missing, share, stale, records, history, budget>>

(* That there is nothing to rename is no failure.                          *)
RenamesResidual ==
    LET mine == dirs.candidate
    IN  /\ runner.pc = "rename"
        /\ dirs' = IF "residual.json" \notin DOMAIN mine THEN dirs
                   ELSE [dirs EXCEPT !.candidate =
                            [f \in (DOMAIN mine \cup {"candidate-residual.json"}) \ {"residual.json"} |->
                                IF f = "candidate-residual.json" THEN mine["residual.json"] ELSE mine[f]]]
        /\ runner' = [runner EXCEPT !.pc = "compare"]
        /\ UNCHANGED <<case, missing, share, stale, records, history, budget>>

(* A comparison that cannot be made ends the run with nothing written.     *)
Compares ==
    LET outcome == CompareVm(dirs, case.modes, case.model)
    IN  /\ runner.pc = "compare"
        /\ IF outcome.ok
           THEN runner' = [runner EXCEPT !.pc = "ledger", !.residuals = outcome.residuals] /\ seen' = seen
           ELSE Ends
        /\ UNCHANGED <<case, missing, dirs, share, stale, records, wrote, mixed, budget>>

(***************************************************************************)
(* court run, over what the witness of a corpus left.                      *)
(***************************************************************************)
WitnessStarts ==
    /\ runner.pc = "idle" /\ case.corpus # ""
    /\ runner' = [Idle EXCEPT !.pc = "witness", !.left = 1]
    /\ wrote' = [side \in Sides |-> wrote[side] \cup Range(CorpusFiles)]
    /\ UNCHANGED <<case, missing, dirs, share, stale, records, seen, mixed, budget>>

(* Of every file the oracle's is written and then the candidate's.         *)
WitnessFile == CorpusFiles[runner.left]
WitnessWrites ==
    LET content == IF runner.side = "oracle" THEN Reference(case.corpus) ELSE Model(case.corpus)
    IN  /\ runner.pc = "witness"
        /\ dirs' = [dirs EXCEPT ![runner.side] = WitnessFile :> content[WitnessFile] @@ @]
        /\ runner' = IF runner.side = "oracle" THEN [runner EXCEPT !.side = "candidate"]
                     ELSE IF runner.left = Len(CorpusFiles) THEN Idle
                     ELSE [runner EXCEPT !.side = "oracle", !.left = @ + 1]
        /\ UNCHANGED <<case, missing, share, stale, records, history, budget>>

(* The plain run: a pass is recorded as evidence and leaves the ledger, a  *)
(* failure goes to the ledger and leaves the evidence.                     *)
PlainRun ==
    LET residuals == CaseCompare(dirs, case.ignore).residuals
    IN  /\ runner.pc = "idle" /\ budget.runs > 0
        /\ runner' = [Idle EXCEPT !.pc = IF residuals = {} THEN "evidence" ELSE "ledger",
                                  !.how = "plain", !.residuals = residuals]
        /\ budget' = Spent("runs")
        /\ UNCHANGED <<case, missing, dirs, share, stale, records, history>>

WritesLedger ==
    /\ runner.pc = "ledger"
    /\ ledger' = [residuals |-> runner.residuals]
    /\ runner' = IF runner.how = "plain" THEN Idle ELSE [runner EXCEPT !.pc = "evidence"]
    /\ UNCHANGED <<case, missing, dirs, share, stale, evidence, release, history, budget>>

WritesEvidence ==
    /\ runner.pc = "evidence"
    /\ evidence' = EvidenceRecord(runner.residuals, runner.how, SideArtifacts(dirs))
    /\ Ends
    /\ UNCHANGED <<case, missing, dirs, share, stale, ledger, release, wrote, mixed, budget>>

(***************************************************************************)
(* evidence release, and the end of a process that is killed.              *)
(***************************************************************************)
StartsRelease ==
    /\ runner.pc = "idle" /\ budget.releases > 0
    /\ runner' = [Idle EXCEPT !.pc = "release", !.left = 1]
    /\ budget' = Spent("releases")
    /\ UNCHANGED <<case, missing, dirs, share, stale, records, history>>

WritesReleaseFile ==
    LET file == ReleaseFiles[runner.left]
    IN  /\ runner.pc = "release"
        /\ release' = [release EXCEPT ![file] = Assemble(CourtReceipt(dirs, ledger, evidence))[file]]
        /\ runner' = IF runner.left = Len(ReleaseFiles) THEN Idle ELSE [runner EXCEPT !.left = @ + 1]
        /\ UNCHANGED <<case, missing, dirs, share, stale, ledger, evidence, history, budget>>

(* A file is cut short when its write is under way.                        *)
CutsShort ==
    \/ /\ runner.pc = "reboot" /\ runner.left = 0
       /\ \E f \in DOMAIN share :
            \E copied \in {NoFiles, Restrict(share, DOMAIN share \ {f})} :
                dirs' = [dirs EXCEPT ![runner.side] = f :> Cut @@ copied @@ @]
       /\ UNCHANGED records
    \/ /\ runner.pc = "witness"
       /\ dirs' = [dirs EXCEPT ![runner.side] = WitnessFile :> Cut @@ @]
       /\ UNCHANGED records
    \/ /\ runner.pc = "ledger" /\ ledger' = Cut
       /\ UNCHANGED <<dirs, evidence, release>>
    \/ /\ runner.pc = "evidence" /\ evidence' = Cut
       /\ UNCHANGED <<dirs, ledger, release>>
    \/ /\ runner.pc = "release" /\ release' = [release EXCEPT ![ReleaseFiles[runner.left]] = Cut]
       /\ UNCHANGED <<dirs, ledger, evidence>>

(* The machine that is up is not killed with the command, and what runs in *)
(* it goes on.                                                             *)
Outlives ==
    CASE runner.pc = "cleanup" -> {stale, NoFiles}
      [] runner.pc = "script" -> UNION {Few(Script(runner.side, view)) : view \in Views(runner.side)}
      [] runner.pc = "reboot" /\ runner.left > 0 ->
            Few(BootCheck(case.modes, seen[runner.side].view, Reboots(case.modes) + 1 - runner.left))
      [] OTHER -> {stale}
Killed ==
    /\ runner.pc # "idle" /\ budget.kills > 0
    /\ UNCHANGED <<dirs, records>> \/ CutsShort
    /\ stale' \in Outlives
    /\ Ends /\ budget' = Spent("kills")
    /\ UNCHANGED <<case, missing, share, wrote, mixed>>

Next ==
    \/ Builds \/ VmStarts \/ EmptiesOut \/ StaleMachineWrites \/ MachineStarts \/ ScriptRuns
    \/ MachineFails \/ RebootsAndChecks \/ CopiesOut \/ RenamesResidual \/ Compares
    \/ WitnessStarts \/ WitnessWrites \/ PlainRun \/ WritesLedger \/ WritesEvidence
    \/ StartsRelease \/ WritesReleaseFile \/ Killed

Spec == Init /\ [][Next]_vars

-----------------------------------------------------------------------------
(***************************************************************************)
(* Properties.                                                             *)
(***************************************************************************)
PCs == {"idle", "start", "cleanup", "script", "reboot", "rename", "compare", "witness",
        "ledger", "evidence", "release"}

(* Types: what the runner is at, and what the records say when they are    *)
(* whole; a pass is a record with no residuals, and a release counts its   *)
(* one court once.                                                         *)
TypeOK ==
    /\ case \in Cases /\ missing \in {"nothing"} \cup Required(case.modes)
    /\ runner.pc \in PCs /\ runner.side \in Sides /\ runner.left \in 0..4 \cup DOMAIN CorpusFiles
    /\ runner.how \in {"", "vm", "plain"}
    /\ IsWhole(ledger) => \A r \in ledger.residuals : r[2] \in Nat
    /\ IsWhole(evidence) => /\ evidence.result = "pass" <=> evidence.count = 0
                            /\ \A p \in DOMAIN evidence.artifacts : p[1] \in Sides
    /\ LET manifest == release["MANIFEST.json"]
       IN  IsWhole(manifest) => manifest.pass + manifest.fail + manifest.unrecorded = 1
    /\ \A counter \in DOMAIN budget : budget[counter] \in Nat

(* Nothing in a side's directory was written by the other side's machine,  *)
(* or by another court's, through the share they have in common, if        *)
(* whenever the side was started the share could be emptied and no machine *)
(* of an earlier command was up: the emptying comes before the stopping.   *)
Own(side) == wrote[side] \cup (IF side = "candidate" THEN {"candidate-residual.json"} ELSE {})
OwnWitness == \A side \in Sides \ mixed : DOMAIN dirs[side] \subseteq Own(side)

(* Evidence of a pass that verifies, in a case without files it does not   *)
(* vouch for, is of what is there: comparing the directories again, the    *)
(* way it says, finds nothing, whatever was run or killed since.           *)
Vouched == \A side \in Sides : \A f \in DOMAIN dirs[side] : <<side, f>> \in DOMAIN evidence.artifacts
FindsNothing(how) ==
    IF how = "plain" THEN CaseCompare(dirs, case.ignore).residuals = {}
    ELSE CompareVm(dirs, case.modes, case.model) = Found({})
VouchedPassAgrees ==
    (/\ IsWhole(evidence) /\ evidence.result = "pass"
     /\ EvidenceVerify(evidence, dirs) = {} /\ Vouched) => FindsNothing(evidence.how)

(* A run in the machines that is about to record a pass has seen the two   *)
(* sides agree in this run, though the directories still hold the files of *)
(* earlier runs: the same rows, a word about there being none exactly if   *)
(* there are none, the expected companions, the same machine, the same     *)
(* chains and texts, and the same outcome of every reboot.                 *)
Alike(surface) == (seen.oracle.view.odd = surface) <=> (seen.candidate.view.odd = surface)
SidesAgree ==
    LET o == seen.oracle.view  c == seen.candidate.view  modes == case.modes
    IN  /\ seen.oracle.boots = seen.candidate.boots
        /\ CASE modes = {} ->
                  /\ o.rows = c.rows /\ Alike("machine") /\ o.odd # "dialog"
                  /\ c.odd = "companions" => \A i \in DOMAIN c.rows : c.rows[i].raw \notin DOMAIN case.model
             [] "scx" \in modes -> Members(c) \subseteq Members(o) /\ Values(c) = Values(o)
             [] "close_transaction" \in modes -> Alike("machine") /\ o.odd # "exit" /\ c.odd # "exit"
             [] OTHER -> \A s \in Odds(modes) \ {"after", "tmp"} :
                            Alike(s) \/ (s = "boot-status.txt" /\ TRUE \notin Range(seen.oracle.boots))
PassSeesThisRun ==
    (runner.pc = "evidence" /\ runner.how = "vm" /\ runner.residuals = {}) => SidesAgree

(* A release that verifies says of its court what the court's evidence     *)
(* says now, if there was any when the release was made.                   *)
ReleaseSpeaksTrue ==
    LET receipt == release["COURTS.json"]
    IN  (ReleaseVerifies(release, dirs, ledger, evidence) /\ receipt.result # "unrecorded") =>
            /\ IsWhole(evidence)
            /\ receipt.result = evidence.result /\ receipt.count = evidence.count

(* Every corpus whose witness left all its files passes its court: what    *)
(* the crates compute is what the reference, written from the original,    *)
(* computes.  A witness that was killed may fail it, or pass on the files  *)
(* that there are.                                                         *)
Witnessed ==
    \A side \in Sides : \A f \in Range(CorpusFiles) : f \in DOMAIN dirs[side] /\ dirs[side][f] # Cut
EveryCorpusAgrees ==
    (case.corpus # "" /\ runner.how = "plain" /\ Witnessed) => runner.residuals = {}

(* courts/build-env/cancellation: on its frozen corpus the traces of the   *)
(* two sides are the same, byte for byte.                                  *)
CancellationCourtPasses == case.corpus = "cancellation" => EveryCorpusAgrees

-----------------------------------------------------------------------------
(* What one would expect, and the code does not do; see the README.        *)

(* Nothing in a side's directory was written by another machine.           *)
AlwaysOwnWitness == \A side \in Sides : DOMAIN dirs[side] \subseteq Own(side)
=================================================================================
