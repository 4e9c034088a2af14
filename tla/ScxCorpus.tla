-------------------------------- MODULE ScxCorpus --------------------------------
(***************************************************************************)
(* The corpora of the sched-ext courts: what tools/scx-oracle-ref, written *)
(* from the original's source, and the scx crate make of the same inputs.  *)
(* A surface is one kind of question; its inputs are records, and answers  *)
(* are records or sequences of steps, a step being a sequence of words.    *)
(***************************************************************************)
EXTENDS ScxDecisions

CONSTANTS
    Files,          \* the configuration files: Absent, Broken or File(config)
    FlagTexts,      \* what is in the field of the extra flags
    Supported       \* the loader's answers: [failed, names]

(* The names and labels the corpora use.                                   *)
Names == SupportedSched \cup {""}
Labels == ProfileItems
Valid == Files \ {Broken}

(* Of a name it does not know, the reference looks up the name itself and  *)
(* the crate the scheduler it takes instead; the corpora do not ask that   *)
(* of a file that has a section for the latter.                            *)
ReadsAlike(name, file) ==
    \/ name \in SupportedSched
    \/ file.kind # "config"
    \/ Bpfland \notin DOMAIN file.config.scheds
Opened(file) == IF file.kind = "config" THEN file.config.default_sched ELSE None

Surfaces == {"button-visibility", "current-scheduler", "mode-flags", "window-init",
             "profile", "apply", "disable", "interface"}

ScxInputs(surface) ==
    CASE surface = "button-visibility" -> [exists : BOOLEAN]
      [] surface = "current-scheduler" ->
            [state : {"", "enabled", "disabled"}, ops : {"", "bpfland"}]
      [] surface \in {"mode-flags", "profile"} ->
            {in \in [sched : Names, label : Labels, file : Valid] : ReadsAlike(in.sched, in.file)}
      [] surface = "window-init" ->
            {in \in [file : Files, supported : Supported, running : {"disabled"}] :
                ReadsAlike(Opened(in.file), in.file)}
      [] surface = "apply" ->
            [sched : SupportedSched, label : Labels, file : Valid, flags : FlagTexts,
             enabled : {FALSE}, active : {TRUE}, loaderEnabled : {TRUE}, dbOk : {TRUE}]
            \cup [sched : {Lavd}, label : {"Auto", "Lowlatency"}, file : {Absent}, flags : FlagTexts,
                  enabled : BOOLEAN, active : BOOLEAN, loaderEnabled : BOOLEAN, dbOk : BOOLEAN]
      [] surface = "disable" -> [file : Valid]
      [] OTHER -> [interface : {"org.scx.Loader"}]

Stdout(words) == <<"stdout">> \o words
Db(words) == <<"db">> \o words
Copy == <<"pkexec-copy">>
(* The debug form of some arguments keeps them apart; joined, they are a   *)
(* text with blanks.                                                       *)
Debug(args) == FlattenSeq([i \in DOMAIN args |-> <<"quote">> \o args[i] \o <<"quote">>])

-----------------------------------------------------------------------------
(* The reference.  It has its own names for modes and schedulers, and it   *)
(* looks into the file line by line.                                       *)
SchedOf(name) ==
    CASE name = "scx_rusty" -> "rusty"
      [] name = "scx_lavd" -> "lavd"
      [] name = "scx_flash" -> "flash"
      [] OTHER -> "bpfland"
ModeOf(label) ==
    CASE label = "Gaming" -> "gaming"
      [] label = "Lowlatency" -> "lowlatency"
      [] label = "Powersave" -> "powersave"
      [] label = "Server" -> "server"
      [] OTHER -> "auto"
ModeLabel(label) ==
    CASE label \in {"Gaming", "Server"} -> label
      [] label \in {"PowerSave", "Powersave"} -> "PowerSave"
      [] label \in {"LowLatency", "Lowlatency"} -> "LowLatency"
      [] OTHER -> "Auto"

RefDefaultFlags(sched, mode) ==
    Words(CASE sched = "bpfland" /\ mode = "gaming" -> <<"-m", "performance">>
            [] sched = "bpfland" /\ mode = "lowlatency" ->
                    <<"-s", "5000", "-S", "500", "-l", "5000", "-m", "performance">>
            [] sched = "bpfland" /\ mode = "powersave" -> <<"-m", "powersave">>
            [] sched = "bpfland" /\ mode = "server" -> <<"-p">>
            [] sched = "lavd" /\ mode \in {"gaming", "lowlatency"} -> <<"--performance">>
            [] sched = "lavd" /\ mode = "powersave" -> <<"--powersave">>
            [] OTHER -> << >>)

(* The flags under a mode's field of a scheduler's section, if any: a set  *)
(* of at most one.  The file's fields are named by the modes.              *)
FieldOf(mode) ==
    CASE mode = "gaming" -> "Gaming"
      [] mode = "lowlatency" -> "LowLatency"
      [] mode = "powersave" -> "PowerSave"
      [] mode = "server" -> "Server"
      [] OTHER -> "Auto"
ConfigModeFlags(file, name, mode) ==
    IF /\ file.kind = "config"
       /\ name \in DOMAIN file.config.scheds
       /\ FieldOf(mode) \in DOMAIN file.config.scheds[name]
    THEN {file.config.scheds[name][FieldOf(mode)]} ELSE {}

RefModeFlags(file, name, mode) ==
    LET found == ConfigModeFlags(file, name, mode)
    IN  IF found # {} THEN CHOOSE flags \in found : TRUE ELSE RefDefaultFlags(SchedOf(name), mode)

RefModes == <<"auto", "gaming", "powersave", "lowlatency", "server">>
ConfigDefaults(file) ==
    IF file.kind # "config" THEN [sched |-> None, mode |-> 0]
    ELSE [sched |-> file.config.default_sched,
          mode |-> CASE file.config.default_mode = "Gaming" -> 1
                     [] file.config.default_mode = "PowerSave" -> 2
                     [] file.config.default_mode = "LowLatency" -> 3
                     [] file.config.default_mode = "Server" -> 4
                     [] OTHER -> 0]
RefProfileVisible(name) == name = "scx_bpfland" \/ name = "scx_lavd"

RefWindowInit(in) ==
    LET defaults == ConfigDefaults(in.file)
        initial == IF defaults.sched = None THEN "" ELSE defaults.sched
    IN  CASE in.file = Broken -> [critical |-> "configuration"]
          [] in.file # Broken /\ in.supported.failed -> [critical |-> "no loader"]
          [] OTHER -> [items |-> in.supported.names, scheduler |-> initial, mode |-> defaults.mode,
                       running |-> in.running, visible |-> RefProfileVisible(initial),
                       flags |-> JoinFlags(RefModeFlags(in.file, initial, RefModes[defaults.mode + 1]))]

RefApply(in) ==
    LET defaults == RefModeFlags(in.file, in.sched, ModeOf(in.label))
        args == IF in.flags = << >> THEN << >> ELSE SplitBlanks(in.flags)
        mode == ModeLabel(in.label)
        failed == IF in.dbOk THEN {} ELSE {"failed"}
    IN  (IF in.enabled THEN <<<<"disable-scx-service">>, Stdout(<<"Disabling">>)>>
         ELSE IF in.active THEN <<<<"stop-scx-service">>, Stdout(<<"Stoping">>)>> ELSE << >>)
        \o (IF args = defaults
            THEN <<Stdout(<<"Applying", in.sched, "mode", mode>>), Db(<<"switch", in.sched, mode>>)>>
                 \o (IF failed = {} THEN << >> ELSE <<Stdout(<<"Failed", in.sched, "mode", mode>>)>>)
            ELSE <<Stdout(<<"Applying", in.sched, "args">> \o JoinFlags(args)),
                   Db(<<"switch with args", in.sched>> \o Debug(args))>>
                 \o (IF failed = {} THEN << >> ELSE <<Stdout(<<"Failed", in.sched, "args">> \o Debug(args))>>))
        \o (IF in.loaderEnabled THEN << >>
            ELSE <<Stdout(<<"Enabling">>), <<"enable-scx-loader-service">>>>)
        \o <<Copy>>

RefDisable(in) ==
    [steps |-> <<Db(<<"stop">>), Copy>>, before |-> ConfigDefaults(in.file).sched, after |-> None]

In(name, type) == <<name, type>>
Method(name, ins) == [name |-> name, ins |-> ins]
Property(name, type, access) == [name |-> name, type |-> type, access |-> access]
RefInterface ==
    [methods |->
        <<Method("StartScheduler", <<In("scx_name", "s"), In("sched_mode", "u")>>),
          Method("StartSchedulerWithArgs", <<In("scx_name", "s"), In("scx_args", "as")>>),
          Method("StopScheduler", << >>),
          Method("SwitchScheduler", <<In("scx_name", "s"), In("sched_mode", "u")>>),
          Method("SwitchSchedulerWithArgs", <<In("scx_name", "s"), In("scx_args", "as")>>)>>,
     properties |->
        <<Property("CurrentScheduler", "s", "read"), Property("SchedulerMode", "u", "read"),
          Property("SupportedSchedulers", "as", "read")>>]

RefCurrentScheduler(state, ops) ==
    IF state # "enabled" THEN state ELSE IF ops = "" THEN "unknown" ELSE ops

ScxReference(surface, in) ==
    CASE surface = "button-visibility" -> in.exists
      [] surface = "current-scheduler" -> RefCurrentScheduler(in.state, in.ops)
      [] surface = "mode-flags" -> RefModeFlags(in.file, in.sched, ModeOf(in.label))
      [] surface = "window-init" -> RefWindowInit(in)
      [] surface = "profile" ->
            [visible |-> RefProfileVisible(in.sched),
             flags |-> JoinFlags(RefModeFlags(in.file, in.sched, ModeOf(in.label)))]
      [] surface = "apply" -> RefApply(in)
      [] surface = "disable" -> RefDisable(in)
      [] OTHER -> RefInterface

-----------------------------------------------------------------------------
(* The crate.                                                              *)
MainWindowSchedextVisible(exists) == exists
CurrentScheduler(state, ops) ==
    CASE state # "enabled" -> state
      [] state = "enabled" /\ ops = "" -> "unknown"
      [] OTHER -> ops

AsU8(mode) == CASE mode = "Gaming" -> 1 [] mode = "PowerSave" -> 2 [] mode = "LowLatency" -> 3
                [] mode = "Server" -> 4 [] OTHER -> 0

InitStepJson(in) ==
    LET w == WindowInit(in.file, in.supported)
    IN  IF w.critical # None THEN [critical |-> w.critical]
        ELSE [items |-> w.schedulers, scheduler |-> w.scheduler, mode |-> AsU8(ModeFromLabel(w.profile)),
              running |-> in.running, visible |-> w.profileVisible, flags |-> w.flags]

(* The steps rendered from the plan of an Apply.                           *)
ApplyTrace(in) ==
    LET mode == ModeFromLabel(in.label)
        plan == ApplyPlan([sched |-> in.sched, mode |-> mode, flags |-> in.flags,
                           config |-> InitConfig(in.file), scxEnabled |-> in.enabled,
                           scxActive |-> in.active, loaderEnabled |-> in.loaderEnabled])
        call == plan.call
        Unless(line) == IF in.dbOk THEN << >> ELSE <<Stdout(line)>>
        Service == CASE plan.service = "disable scx" -> <<<<"disable-scx-service">>, Stdout(<<"Disabling">>)>>
                     [] plan.service = "stop scx" -> <<<<"stop-scx-service">>, Stdout(<<"Stoping">>)>>
                     [] OTHER -> << >>
        ByMode == <<Stdout(<<"Applying", call.sched, "mode", call.mode>>),
                    Db(<<"switch", call.sched, call.mode>>)>>
                  \o Unless(<<"Failed", call.sched, "mode", call.mode>>)
        ByArgs == <<Stdout(<<"Applying", call.sched, "args">> \o JoinFlags(call.args)),
                    Db(<<"switch with args", call.sched>> \o Debug(call.args))>>
                  \o Unless(<<"Failed", call.sched, "args">> \o Debug(call.args))
        Enable == IF plan.enableLoader THEN <<Stdout(<<"Enabling">>), <<"enable-scx-loader-service">>>> ELSE << >>
    IN  Service \o (IF call.kind = "mode" THEN ByMode ELSE ByArgs) \o Enable \o <<Copy>>

DisableTrace == <<Db(<<"stop">>), Copy>>

(* Start and switch take the same arguments, with or without a mode.       *)
LoaderInterface ==
    LET byMode == <<In("scx_name", "s"), In("sched_mode", "u")>>
        byArgs == <<In("scx_name", "s"), In("scx_args", "as")>>
    IN  [methods |-> <<Method("StartScheduler", byMode), Method("StartSchedulerWithArgs", byArgs),
                       Method("StopScheduler", << >>), Method("SwitchScheduler", byMode),
                       Method("SwitchSchedulerWithArgs", byArgs)>>,
         properties |-> [i \in 1..3 |->
            Property(<<"CurrentScheduler", "SchedulerMode", "SupportedSchedulers">>[i],
                     <<"s", "u", "as">>[i], "read")]]

ScxModel(surface, in) ==
    CASE surface = "button-visibility" -> MainWindowSchedextVisible(in.exists)
      [] surface = "current-scheduler" -> CurrentScheduler(in.state, in.ops)
      [] surface = "mode-flags" ->
            FlagsForMode(InitConfig(in.file), OrBpfland(in.sched), ModeFromLabel(in.label))
      [] surface = "window-init" -> InitStepJson(in)
      [] surface = "profile" ->
            [visible |-> ProfileVisible(in.sched),
             flags |-> FlagsText(InitConfig(in.file), in.sched, in.label)]
      [] surface = "apply" -> ApplyTrace(in)
      [] surface = "disable" ->
            LET config == InitConfig(in.file)
            IN  [steps |-> DisableTrace, before |-> config.default_sched,
                 after |-> DisablePlan(config).config.default_sched]
      [] OTHER -> LoaderInterface
==================================================================================
