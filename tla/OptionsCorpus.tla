------------------------------ MODULE OptionsCorpus ------------------------------
(***************************************************************************)
(* The corpora of the courts on the options of a build: what the reference *)
(* tools, written from the original's Configure window, and the crates     *)
(* make of a row of variant switches, and of the state of all widgets.     *)
(***************************************************************************)
EXTENDS VariantOptions, SequencesExt

CONSTANTS
    SwitchLists,    \* the rows of switches; on an unknown variant the tools differ
    UiStates        \* [checked, hz, tickless, preempt, hugepage, lto, cpuOpt, customName]

Failure == <<"failure">>

-----------------------------------------------------------------------------
(* options-oracle-ref: the change handler of the original, on its lists.   *)
RefInitial ==
    [ltoItems |-> <<"none", "full", "thin", "thin-dist">>, lto |-> "thin",
     preemptItems |-> <<"full", "lazy">>, preempt |-> "full", hz |-> "1000",
     cachyConfig |-> TRUE, zfs |-> FALSE, zfsEnabled |-> TRUE]

RefSwitchTo(s, kernel) ==
    LET thinDist == kernel # "lts" /\ kernel # "hardened"
        extended == kernel = "hardened" \/ kernel = "lts"
        ltos == Len(s.ltoItems)
        preempts == Len(s.preemptItems)
        server == kernel = "server"
    IN  [s EXCEPT
            !.ltoItems = IF thinDist /\ ltos = 3 THEN @ \o <<"thin-dist">>
                         ELSE IF ~thinDist /\ ltos = 4 THEN Front(@) ELSE @,
            !.lto = IF kernel = "cachyos" \/ kernel = "rc" THEN "thin" ELSE "none",
            !.preemptItems = IF extended /\ preempts = 2 THEN @ \o <<"voluntary", "none">>
                             ELSE IF ~extended /\ preempts = 4 THEN Front(Front(@)) ELSE @,
            !.preempt = IF server THEN "lazy" ELSE "full",
            !.hz = IF server THEN "300" ELSE "1000",
            !.cachyConfig = ~server,
            !.zfsEnabled = kernel # "rt",
            !.zfs = IF kernel = "rt" THEN FALSE ELSE @]

(* The states after every switch, the first one before any.                *)
RefSwitches(kernels) ==
    FoldLeft(LAMBDA out, kernel : Append(out, <<kernel, RefSwitchTo(Last(out)[2], kernel)>>),
             << <<"initial", RefInitial>> >>, kernels)

(* The candidate's witness fails on a variant it does not know.            *)
Switches(kernels) ==
    IF ToSet(kernels) \subseteq VariantsAll
    THEN FoldLeft(LAMBDA out, kernel : Append(out, <<kernel, SwitchTo(Last(out)[2], kernel)>>),
                  << <<"initial", DefaultSwitch>> >>, kernels)
    ELSE Failure

-----------------------------------------------------------------------------
(* env-oracle-ref: the assignments of a build, by the original's map from  *)
(* widgets to variables; a value that no widget offers is an error.        *)
RefOptionMap ==
    [cachy_config |-> "_cachy_config", nconfig |-> "_makenconfig", xconfig |-> "_makexconfig",
     localmodcfg |-> "_localmodcfg", use_current |-> "_use_current", hardly |-> "_cc_harder",
     per_gov |-> "_per_gov", tcp_bbr3 |-> "_tcp_bbr3", HZ_ticks |-> "_HZ_ticks",
     tickrate |-> "_tickrate", preempt |-> "_preempt", hugepage |-> "_hugepage",
     cpu_opt |-> "_processor_opt", lto |-> "_use_llvm_lto", builtin_zfs |-> "_build_zfs",
     builtin_nvidia_open |-> "_build_nvidia_open", build_debug |-> "_build_debug"]
RefBoxes == <<"hardly", "per_gov", "tcp_bbr3", "cachy_config", "nconfig", "xconfig",
              "localmodcfg", "use_current", "builtin_zfs", "builtin_nvidia_open", "build_debug">>
RefLists ==
    [hz |-> {"1000", "750", "600", "500", "300", "250", "100"}, tickless |-> {"full", "idle", "periodic"},
     preempt |-> {"full", "lazy", "voluntary", "none"}, lto |-> {"none", "full", "thin", "thin-dist"},
     hugepage |-> {"always", "madvise"},
     cpuOpt |-> {"manual", "native", "generic_v1", "generic_v2", "generic_v3", "generic_v4", "zen4"}]

RefAssign(option, value) == <<RefOptionMap[option], value>>
RefEnv(ui) ==
    IF \E list \in DOMAIN RefLists : ui[list] \notin RefLists[list] THEN Failure
    ELSE [i \in DOMAIN RefBoxes |-> RefAssign(RefBoxes[i], IF RefBoxes[i] \in ui.checked THEN "yes" ELSE "no")]
         \o <<RefAssign("HZ_ticks", ui.hz), RefAssign("tickrate", ui.tickless),
              RefAssign("preempt", ui.preempt), RefAssign("hugepage", ui.hugepage),
              RefAssign("lto", ui.lto)>>
         \o (IF ui.cpuOpt # "manual" THEN <<RefAssign("cpu_opt", ui.cpuOpt)>> ELSE << >>)
         \o (IF ui.lto # "none" /\ ui.customName # "$pkgbase" THEN <<<<"_use_lto_suffix", "n">>>> ELSE << >>)

(* The candidate finds every value among those of its type first.          *)
BuildOptions(ui) ==
    IF /\ ui.hz \in HzTick /\ ui.tickless \in Tickless /\ ui.preempt \in Preempt
       /\ ui.hugepage \in Hugepage /\ ui.lto \in Lto /\ ui.cpuOpt \in CpuOpt
    THEN {ui} ELSE {}
Env(ui) == IF BuildOptions(ui) = {} THEN Failure ELSE EnvPairs(CHOOSE o \in BuildOptions(ui) : TRUE)

-----------------------------------------------------------------------------
OptionsReference(corpus) ==
    IF corpus = "variant-switch" THEN [switches \in SwitchLists |-> RefSwitches(switches)]
    ELSE [ui \in UiStates |-> RefEnv(ui)]
OptionsModel(corpus) ==
    IF corpus = "variant-switch" THEN [switches \in SwitchLists |-> Switches(switches)]
    ELSE [ui \in UiStates |-> Env(ui)]
==================================================================================
