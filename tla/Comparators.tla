------------------------------ MODULE Comparators ------------------------------
(***************************************************************************)
(* How a court compares the two sides of a case: the plain comparison of   *)
(* two directories file by file, and the comparisons of the courts that    *)
(* run in a virtual machine, one for each kind of evidence.                *)
(*                                                                         *)
(* A case's directories are functions from file names to contents; reading *)
(* a file that is not there, or parsing one that is cut short, is an error *)
(* of the whole comparison.  A residual is a layer, a row and a field.     *)
(***************************************************************************)
EXTENDS Observations, FiniteSets

Sides == {"oracle", "candidate"}
Other(side) == IF side = "oracle" THEN "candidate" ELSE "oracle"

Cut == [state |-> "cut"]            \* what an interrupted write leaves
Error == [ok |-> FALSE, residuals |-> {}]
Found(residuals) == [ok |-> TRUE, residuals |-> residuals]
At(layer, row, field) == {<<layer, row, field>>}
If(differs, residual) == IF differs THEN residual ELSE {}

Has(dirs, side, file) == file \in DOMAIN dirs[side]
Readable(dirs, o, c) == o \subseteq DOMAIN dirs.oracle /\ c \subseteq DOMAIN dirs.candidate
Parses(dirs, o, c) ==
    /\ Readable(dirs, o, c)
    /\ \A f \in o : dirs.oracle[f] # Cut
    /\ \A f \in c : dirs.candidate[f] # Cut
ByteExact(dirs, files, layer) ==
    UNION {If(dirs.oracle[f] # dirs.candidate[f], At(layer, 0, f)) : f \in files}

(***************************************************************************)
(* The plain comparison: every file of either side that the case does not  *)
(* say to ignore; a directory that is not there has none.                  *)
(***************************************************************************)
CaseCompare(dirs, ignore) ==
    LET files == (DOMAIN dirs.oracle \cup DOMAIN dirs.candidate) \ ignore
    IN  Found(UNION {IF ~Has(dirs, "candidate", f) THEN At("missing candidate", 0, f)
                     ELSE IF ~Has(dirs, "oracle", f) THEN At("missing oracle", 0, f)
                     ELSE If(dirs.oracle[f] # dirs.candidate[f], At("filesystem", 0, f)) : f \in files})

(***************************************************************************)
(* The comparisons of the VM courts.                                       *)
(***************************************************************************)
CompareMakepkg(dirs) ==
    LET execs == {"commands.txt", "scf-execs.txt", "sicf-execs.txt", "aurfail-execs.txt",
                  "makepkg-version.txt"}
        all == execs \cup {"packages.txt"}
    IN  IF ~Readable(dirs, all, all) THEN Error
        ELSE Found(ByteExact(dirs, {"packages.txt"}, "machine-residual")
                   \cup ByteExact(dirs, execs, "exec-chain"))

(* Every file the oracle's side has, but for the raw traces.               *)
CompareSurfaces(dirs, raw, layer) ==
    LET files == (DOMAIN dirs.oracle) \ (raw \cup {"packages.txt"})
    IN  IF ~Readable(dirs, files \cup {"packages.txt"}, files \cup {"packages.txt"}) THEN Error
        ELSE Found(ByteExact(dirs, {"packages.txt"}, "machine-residual")
                   \cup ByteExact(dirs, files, layer))
CompareBoot(dirs) ==
    CompareSurfaces(dirs, {"install-raw.trace", "remove-raw.trace"}, "boot-surface")
ComparePackaging(dirs) == CompareSurfaces(dirs, {}, "packaging-surface")

(* The candidate's residual is the renamed one, and failing that the one   *)
(* that was never renamed.                                                 *)
CandidateResidual(dirs) ==
    IF Has(dirs, "candidate", "candidate-residual.json") THEN "candidate-residual.json" ELSE "residual.json"

CompareRendered(dirs, files, layer) ==
    LET residual == CandidateResidual(dirs)
    IN  IF ~Readable(dirs, files \cup {"residual.json"}, files \cup {residual}) THEN Error
        ELSE Found(If(dirs.oracle["residual.json"] # dirs.candidate[residual], At("machine-residual", 0, "drift"))
                   \cup ByteExact(dirs, files, layer))
CompareGuiDrive(dirs) == CompareRendered(dirs, {"drive-semantic.json"}, "gui-drive-semantic")
CompareI18nRendered(dirs) ==
    CompareRendered(dirs, {"i18n-de_DE.json", "i18n-zh_CN.json"}, "i18n-rendered")

(* The oracle is expected to crash, and the candidate to close cleanly.    *)
CompareCloseTransaction(dirs) ==
    LET machines == CompareRendered(dirs, {}, "")
        outcome == "close-outcome.json"
    IN  IF ~machines.ok \/ ~Parses(dirs, {outcome}, {outcome}) THEN Error
        ELSE Found(machines.residuals
                   \cup If(dirs.oracle[outcome].exit # "crash", At("gap-010-oracle", 0, "exit"))
                   \cup If(dirs.candidate[outcome].exit # "clean", At("gap-010-candidate", 0, "exit")))

(* Two observations, row by row; the companions against the model of the   *)
(* case, where it says anything of the row; and that the oracle tells of   *)
(* having found no kernels exactly when the candidate has none.            *)
CompareRow(o, c, i, model) ==
    (UNION {If(o[f] # c[f], At("kernel-rows", i, f)) : f \in {"raw", "version", "category", "checked"}})
    \cup (IF c.raw \notin DOMAIN model THEN {}
          ELSE UNION {If(c.companions[f] # model[c.raw][f], At("companion", i, f)) : f \in DOMAIN c.companions})
CONSTANT SaysNoKernels      \* the texts that say "No kernels found"
CompareObservations(oracle, candidate, model) ==
    LET o == oracle.rows  c == candidate.rows
        rows == DOMAIN o \cup DOMAIN c
        empty == \E i \in DOMAIN oracle.dialogs : oracle.dialogs[i] \in SaysNoKernels
    IN  If(Len(o) # Len(c), At("kernel-rows", 0, "count"))
        \cup (UNION {IF i \in DOMAIN o \cap DOMAIN c THEN CompareRow(o[i], c[i], i, model)
                     ELSE At("kernel-rows", i, "row") : i \in rows})
        \cup If(empty # (c = << >>), At("kernel-rows", 0, "dialog"))

(* JSON must parse, so a renamed residual that does not is passed over too. *)
CompareVmObservations(dirs, model) ==
    LET residual == IF /\ Has(dirs, "candidate", "candidate-residual.json")
                       /\ dirs.candidate["candidate-residual.json"] # Cut
                    THEN "candidate-residual.json" ELSE "residual.json"
    IN  IF ~Parses(dirs, {"residual.json", "oracle-state.json"}, {residual, "candidate-state.json"})
        THEN Error
        ELSE Found(
            If(ResidualDigest(dirs.oracle["residual.json"]) # ResidualDigest(dirs.candidate[residual]),
               At("machine-residual", 0, "drift"))
            \cup CompareObservations(OracleObservation(dirs.oracle["oracle-state.json"]),
                                     CandidateObservation(dirs.candidate["candidate-state.json"]), model))

CompareTransactionObservations(o, c) ==
    UNION {If(o[f] # c[f], At("transaction-chain", 0, f)) : f \in {"probes", "execs", "terminal"}}
CompareVmTransactions(dirs) ==
    IF ~Parses(dirs, {"oracle-transaction.json"}, {"candidate-transaction.json"}) THEN Error
    ELSE Found(CompareTransactionObservations(
                   OracleTransaction(dirs.oracle["oracle-transaction.json"]),
                   CandidateTransaction(dirs.candidate["candidate-transaction.json"])))

CompareMutation(dirs) ==
    LET before == "pkgbuild-before.txt"  cBefore == "candidate-pkgbuild-before.txt"
        after == "pkgbuild-after.txt"  cAfter == "candidate-pkgbuild-after.txt"
    IN  IF ~Readable(dirs, {before, after}, {cBefore, cAfter}) THEN Error
        ELSE Found(If(dirs.oracle[before] # dirs.candidate[cBefore], At("pkgbuild-mutation", 0, "before"))
                   \cup If(dirs.oracle[after] # dirs.candidate[cAfter], At("pkgbuild-mutation", 0, "after")))

CompareTerminalMatrix(dirs) ==
    LET matrix == "terminal-matrix.json"
    IN  IF ~Parses(dirs, {matrix}, {matrix}) THEN Error
        ELSE Found(If(TerminalMatrixObservation(dirs.oracle[matrix].scenarios)
                        # TerminalMatrixObservation(dirs.candidate[matrix].scenarios),
                      At("terminal-matrix", 0, "scenarios")))

(* The scx interface: what the candidate declares must be there on the     *)
(* real loader, with the same signature and the same access, and what it   *)
(* reads back must be what the loader says; the loader may offer more.     *)
CompareScxInterface(dirs) ==
    LET real == IF dirs.oracle["introspect.txt"] = Cut THEN {} ELSE dirs.oracle["introspect.txt"].members
        mine == dirs.candidate["candidate-interface.json"].members
        loader == dirs.oracle["oracle-properties.json"].values
        readback == dirs.candidate["candidate-readback.json"].values
        Same(m, r) == /\ m.kind = r.kind /\ m.name = r.name /\ m.sig = r.sig
                      /\ m.kind = "property" => m.writable = r.writable
        keys == {"current_scheduler", "scheduler_mode", "supported_schedulers"}
        Reads(values, k) == IF k \in DOMAIN values THEN {values[k]} ELSE {}
    IN  IF \/ ~Readable(dirs, {"introspect.txt"}, {})
           \/ ~Parses(dirs, {"oracle-properties.json"}, {"candidate-interface.json", "candidate-readback.json"})
        THEN Error
        ELSE Found((UNION {If(\A r \in real : ~Same(m, r), At("scx-interface", 0, m.name)) : m \in mine})
                   \cup (UNION {If(Reads(loader, k) # Reads(readback, k), At("scx-readback", 0, k)) : k \in keys}))

(***************************************************************************)
(* Which comparisons a case calls for, by the modes of its comparator.     *)
(***************************************************************************)
Both(a, b) == IF a.ok /\ b.ok THEN Found(a.residuals \cup b.residuals) ELSE Error
BootModes == {"boot", "boot_remove", "boot_failure", "boot_drift"}

CompareVm(dirs, modes, model) ==
    LET first ==
            IF "scx" \in modes THEN CompareScxInterface(dirs)
            ELSE IF "packaging" \in modes THEN ComparePackaging(dirs)
            ELSE IF modes \cap BootModes # {} THEN CompareBoot(dirs)
            ELSE IF "makepkg" \in modes THEN CompareMakepkg(dirs)
            ELSE IF "gui_drive" \in modes THEN CompareGuiDrive(dirs)
            ELSE IF "i18n_rendered" \in modes THEN CompareI18nRendered(dirs)
            ELSE IF "close_transaction" \in modes THEN CompareCloseTransaction(dirs)
            ELSE IF "terminal_matrix" \notin modes THEN CompareVmObservations(dirs, model)
            ELSE Found({})
        InModes(these, comparison) == IF modes \cap these # {} THEN comparison ELSE Found({})
    IN  Both(Both(first, InModes({"terminal_matrix"}, CompareTerminalMatrix(dirs))),
             Both(InModes({"transaction", "configure"}, CompareVmTransactions(dirs)),
                  InModes({"mutate"}, CompareMutation(dirs))))
==================================================================================
