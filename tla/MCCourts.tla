-------------------------------- MODULE MCCourts --------------------------------
(* Courts for TLC: one case of every mode.                                 *)
EXTENDS Courts
MCVersionLike == {"6.1-1", "6.2-1"}
MCRow(raw, version, checked) == [raw |-> raw, version |-> version, category |-> "stable", checked |-> checked]
MCRowLists ==
    {<<MCRow("linux", "6.1-1", FALSE)>>, <<MCRow("linux", "6.1-1", TRUE)>>,
     <<MCRow("linux", "6.1-1", FALSE), MCRow("linux-lts", "6.2-1", TRUE)>>}
MCCompanions(raw) == [zfs |-> raw, nvidia |-> "", nvidia_open |-> ""]
MCWrong == [zfs |-> "", nvidia |-> "nvidia", nvidia_open |-> ""]
MCLength(t) == IF t = "No kernels found" THEN 16 ELSE 1
NoModel == [raw \in {} |-> MCWrong]
MCCase(modes) ==
    [modes |-> modes, ignore |-> {"residual.json.after"}, corpus |-> "",
     model |-> IF modes = {} THEN [raw \in {"linux"} |-> MCCompanions("linux")] ELSE NoModel]
MCCases == {MCCase({m}) : m \in {"transaction", "configure", "mutate", "scx", "packaging", "boot",
                "boot_remove", "boot_failure", "boot_drift", "makepkg", "gui_drive", "i18n_rendered",
                "close_transaction", "terminal_matrix"}} \cup {MCCase({})}
MCBudget(runs, kills, releases) == [runs |-> runs, kills |-> kills, releases |-> releases]
MCBudgets(of) ==
    CASE of.corpus = "" /\ of.modes \in {{}, {"boot_failure"}} -> {MCBudget(2, 0, 0)}
      [] of.modes = {"boot"} -> {MCBudget(2, 1, 0)}
      [] of.modes = {"scx"} -> {MCBudget(2, 0, 1), MCBudget(1, 1, 1)}
      [] of.modes \in {{"boot_remove"}, {"boot_drift"}, {"makepkg"}, {"configure"}} ->
            {MCBudget(2, 0, 0), MCBudget(1, 1, 1)}
      [] of.modes \in {{"gui_drive"}, {"mutate"}} -> {MCBudget(2, 1, 0), MCBudget(1, 1, 2)}
      [] OTHER -> {MCBudget(2, 1, 0), MCBudget(1, 1, 1)}

(* The corpora: every label of a scheduler, a file that gives flags of its *)
(* own to two modes, one that gives a flag with a blank, switches from     *)
(* every variant to every other, both kinds of odd values.                 *)
MCFlags(words) == [i \in DOMAIN words |-> <<words[i]>>]
MCFile(sched, mode, scheds) ==
    [kind |-> "config", config |-> [default_sched |-> sched, default_mode |-> mode, scheds |-> scheds]]
MCFiles ==
    {[kind |-> "absent"], [kind |-> "broken"],
     MCFile("scx_bpfland", "Auto", << >>), MCFile("none", "Gaming", << >>),
     MCFile("scx_bpfland", "LowLatency",
            "scx_bpfland" :> ("Gaming" :> MCFlags(<<"-x", "-y">>) @@ "LowLatency" :> << >>)),
     MCFile("scx_lavd", "PowerSave", "scx_lavd" :> ("PowerSave" :> <<<<"-a", " ", "b">>>>))}
MCFlagTexts == {<< >>, <<"-x", " ", "-y">>, <<"-a", " ", " ", "b">>, <<"--performance">>, <<"-a", " ", "b">>}
MCSupported == {[failed |-> TRUE, names |-> << >>], [failed |-> FALSE, names |-> <<"scx_bpfland", "scx_rusty">>]}
Scx == INSTANCE ScxCorpus WITH Files <- MCFiles, FlagTexts <- MCFlagTexts, Supported <- MCSupported

MCVariants == {"cachyos", "bore", "rc", "rt", "lts", "eevdf", "bmq", "hardened", "deckify", "server"}
MCSwitchLists ==
    {<< >>} \cup {<<v, w>> : v, w \in MCVariants} \cup {<<v, "rt", w>> : v, w \in {"lts", "server", "hardened"}}
MCUi(checked, hz, preempt, lto, cpuOpt, name) ==
    [checked |-> checked, hz |-> hz, tickless |-> "full", preempt |-> preempt, hugepage |-> "always",
     lto |-> lto, cpuOpt |-> cpuOpt, customName |-> name]
MCUiStates ==
    {MCUi(checked, hz, preempt, lto, cpuOpt, name) :
        checked \in {{}, {"hardly", "builtin_zfs"}}, hz \in {"300", "10"}, preempt \in {"voluntary"},
        lto \in {"none", "thin-dist"}, cpuOpt \in {"manual", "zen4"}, name \in {"", "$pkgbase"}}
Opt == INSTANCE OptionsCorpus WITH SwitchLists <- MCSwitchLists, UiStates <- MCUiStates

MCZen == <<"linux-zen">>  MCRt == <<"linux-rt">>
MCParuOutputs ==
    {<< >>, <<MCZen \o <<"-headers">>, MCZen \o <<"-headers">>>>,
     <<MCRt \o <<"-headers">>, << >>, MCZen \o <<"-headers">>, <<"linux", "-headers">>>>}
MCSelections == {<< >>, <<MCRt, MCZen>>, <<<<"linux", "headers">>, MCZen>>}
Aur == INSTANCE AurCorpus WITH RepoNames <- {<< >>, <<<<"linux">>, MCRt>>}, ParuOutputs <- MCParuOutputs,
            Selections <- MCSelections, PackageLists <- {<< >>, <<"linux", "linux-headers">>}

MCActionLists ==
    {<<"execute", "cancel">>, <<"cancel">>, <<"execute", "close">>, <<"execute", "execute", "cancel">>,
     << >>, <<"execute", "execute">>}
Flow == INSTANCE FlowCorpora WITH Variants <- MCVariants, GlobLists <- {<< >>, <<"linux-6.1">>, <<"linux-6.1", "headers">>},
            ActionLists <- MCActionLists

MCOptionCorpora == {"variant-switch", "env-rendering"}
MCFlowCorpora == {"stale-lock", "lifecycle", "failure-lifecycle", "cancellation"}
MCCorpora == Scx!Surfaces \cup MCOptionCorpora \cup MCFlowCorpora \cup {"enablement-matrix"}

(* The inputs of a corpus are told apart by nothing else, so that two      *)
(* files stand for all: the traces of one input, and of the others.        *)
MCCorpusFiles == <<"one", "others">>
MCParts(traces) ==
    LET one == CHOOSE in \in DOMAIN traces : TRUE
    IN  [f \in {"one", "others"} |->
            [text |-> [in \in (IF f = "one" THEN {one} ELSE DOMAIN traces \ {one}) |-> traces[in]]]]
MCReferences ==
    [corpus \in MCCorpora |-> MCParts(
        CASE corpus \in Scx!Surfaces -> [in \in Scx!ScxInputs(corpus) |-> Scx!ScxReference(corpus, in)]
          [] corpus \in MCOptionCorpora -> Opt!OptionsReference(corpus)
          [] corpus \in MCFlowCorpora -> Flow!FlowReference(corpus)
          [] OTHER -> Aur!AurReference)]
MCModels ==
    [corpus \in MCCorpora |-> MCParts(
        CASE corpus \in Scx!Surfaces -> [in \in Scx!ScxInputs(corpus) |-> Scx!ScxModel(corpus, in)]
          [] corpus \in MCOptionCorpora -> Opt!OptionsModel(corpus)
          [] corpus \in MCFlowCorpora -> Flow!FlowModel(corpus)
          [] OTHER -> Aur!AurModel)]
MCReference(corpus) == MCReferences[corpus]
MCModel(corpus) == MCModels[corpus]

(* A case of each corpus; that of build-env/cancellation is one by itself. *)
MCCorpusCase(corpus) == [modes |-> {}, ignore |-> {}, corpus |-> corpus, model |-> NoModel]
MCAllCases ==
    MCCases \cup {MCCorpusCase(corpus) : corpus \in MCCorpora \ {"cancellation"}}
MCCancellation == {MCCorpusCase("cancellation")}
MCCorporaOnly == MCAllCases \ MCCases
=================================================================================
