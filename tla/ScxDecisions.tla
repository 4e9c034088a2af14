------------------------------ MODULE ScxDecisions ------------------------------
(***************************************************************************)
(* What the sched-ext window decides without acting: the configuration and *)
(* the flags of a mode, what the window shows when it opens, and the plan  *)
(* of an Apply or a Disable.                                               *)
(*                                                                         *)
(* A text is the sequence of its words and blanks, so that joining and     *)
(* splitting at blanks do here what they do in the code.  A flag is a text *)
(* as well: one written by hand into the file may hold a blank.  The       *)
(* configuration's table gives flags to some of the modes of some of the   *)
(* schedulers.                                                             *)
(***************************************************************************)
EXTENDS Naturals, Sequences, SequencesExt

None == "none"
Bpfland == "scx_bpfland"
Lavd == "scx_lavd"
SupportedSched == {Bpfland, "scx_rusty", Lavd, "scx_flash"}
SchedMode == {"Auto", "Gaming", "PowerSave", "LowLatency", "Server"}
ProfileItems == {"Auto", "Gaming", "Powersave", "Lowlatency", "Server"}
-------------------------------------------------------------------------------
(* Texts.                                                                  *)
Blank == " "
Word(w) == <<w>>
Words(ws) == [i \in DOMAIN ws |-> Word(ws[i])]

JoinFlags(flags) ==
    IF flags = << >> THEN << >>
    ELSE FoldLeft(LAMBDA text, flag : text \o Word(Blank) \o flag,
                  Head(flags), Tail(flags))

SplitBlanks(text) ==
    FoldLeft(LAMBDA parts, a : IF a = Blank THEN Append(parts, << >>)
                               ELSE Front(parts) \o << Append(Last(parts), a) >>,
             << << >> >>, text)

Trim(text) ==
    LET full == {i \in DOMAIN text : text[i] # Blank}
    IN  IF full = {} THEN << >>
        ELSE SubSeq(text, CHOOSE i \in full : \A j \in full : i <= j,
                          CHOOSE i \in full : \A j \in full : j <= i)
-------------------------------------------------------------------------------
(* The configuration.                                                      *)

(* SupportedSched::from_str fails on every other name.                     *)
Parses(name) == name \in SupportedSched
OrBpfland(name) == IF Parses(name) THEN name ELSE Bpfland

ModeFromLabel(label) ==
    CASE label = "Gaming" -> "Gaming"
      [] label = "Lowlatency" -> "LowLatency"
      [] label = "Powersave" -> "PowerSave"
      [] label = "Server" -> "Server"
      [] OTHER -> "Auto"

(* A plausible mistake in Label; not part of the specification.            *)
LabelAsName(mode) == mode

Label(mode) ==
    CASE mode = "PowerSave" -> "Powersave"
      [] mode = "LowLatency" -> "Lowlatency"
      [] OTHER -> mode

DefaultFlags(sched, mode) ==
    Words(CASE sched = Bpfland /\ mode = "Gaming" -> <<"-m", "performance">>
            [] sched = Bpfland /\ mode = "LowLatency" ->
                    <<"-s", "5000", "-S", "500", "-l", "5000", "-m", "performance">>
            [] sched = Bpfland /\ mode = "PowerSave" -> <<"-m", "powersave">>
            [] sched = Bpfland /\ mode = "Server" -> <<"-p">>
            [] sched = Lavd /\ mode \in {"Gaming", "LowLatency"} -> <<"--performance">>
            [] sched = Lavd /\ mode = "PowerSave" -> <<"--powersave">>
            [] OTHER -> << >>)

(* The file's flags for the mode, else the built-in ones.                  *)
FlagsForMode(config, sched, mode) ==
    IF sched \in DOMAIN config.scheds /\ mode \in DOMAIN config.scheds[sched]
    THEN config.scheds[sched][mode]
    ELSE DefaultFlags(sched, mode)

(* Its table holds the built-in flags, which is what a table without       *)
(* entries stands for.                                                     *)
DefaultConfig == [default_sched |-> None, default_mode |-> "Auto", scheds |-> << >>]

(* Reading the file: a missing one is the default configuration, one that  *)
(* is empty or malformed is an error.                                      *)
Absent == [kind |-> "absent"]
Broken == [kind |-> "broken"]
File(config) == [kind |-> "config", config |-> config]

InitFails(file) == file = Broken
InitConfig(file) == IF file.kind = "config" THEN file.config ELSE DefaultConfig
-------------------------------------------------------------------------------
(* The window.                                                             *)
ProfileVisible(sched) == sched \in {Bpfland, Lavd}
FlagsText(config, sched, label) ==
    JoinFlags(FlagsForMode(config, OrBpfland(sched), ModeFromLabel(label)))

(* A window that has nothing to show but an error.                         *)
Empty(config) ==
    [enabled |-> FALSE, schedulers |-> << >>, scheduler |-> "", profile |-> "Auto",
     profileVisible |-> FALSE, flags |-> << >>,
     critical |-> None, config |-> config]

(* window_init and the model made from its steps.                          *)
WindowInit(file, supported) ==
    LET config == InitConfig(file)
        sched == IF config.default_sched = None THEN "" ELSE config.default_sched
        mode == IF config.default_mode = None THEN "Auto" ELSE config.default_mode
    IN  CASE InitFails(file) -> [Empty(config) EXCEPT !.critical = "configuration"]
          [] ~InitFails(file) /\ supported.failed ->
                [Empty(config) EXCEPT !.critical = "no loader"]
          [] OTHER ->
                [enabled |-> TRUE, schedulers |-> supported.names,
                 scheduler |-> sched, profile |-> Label(mode),
                 profileVisible |-> ProfileVisible(sched),
                 flags |-> JoinFlags(FlagsForMode(config, OrBpfland(sched), mode)),
                 critical |-> None, config |-> config]

(* What the scheduler box displays: the first entry when the window's      *)
(* scheduler is not in the list.                                           *)
DisplayedScheduler(w) ==
    IF w.scheduler \in ToSet(w.schedulers) THEN w.scheduler ELSE Head(w.schedulers)

OnSchedChanged(w, sched) ==
    [w EXCEPT !.scheduler = sched, !.profileVisible = ProfileVisible(sched),
              !.flags = FlagsText(w.config, sched, w.profile)]
OnProfileChanged(w, label) ==
    [w EXCEPT !.profile = label, !.flags = FlagsText(w.config, w.scheduler, label)]
-------------------------------------------------------------------------------
(* The plans.                                                              *)
SchedArgs(text) == IF text = << >> THEN << >> ELSE SplitBlanks(text)

SwitchByMode(sched, mode) == [kind |-> "mode", sched |-> sched, mode |-> mode]
SwitchByArgs(sched, args) == [kind |-> "args", sched |-> sched, args |-> args]
StopScheduler == [kind |-> "stop"]

(* A plausible mistake in ApplyPlan; not part of the specification.        *)
ApplyPlanKeepingFile(input) ==
    [service |-> IF input.scxEnabled THEN "disable scx"
                 ELSE IF input.scxActive THEN "stop scx" ELSE None,
     call |-> SwitchByArgs(input.sched, SchedArgs(input.flags)),
     enableLoader |-> ~input.loaderEnabled,
     config |-> input.config]

(* apply_plan: what stands in the way, the call by mode if the flags are   *)
(* those of the mode, the loader's service, and the configuration to keep. *)
ApplyPlan(input) ==
    LET args == SchedArgs(input.flags)
    IN  [service |-> IF input.scxEnabled THEN "disable scx"
                     ELSE IF input.scxActive THEN "stop scx" ELSE None,
         call |-> IF args = FlagsForMode(input.config, input.sched, input.mode)
                  THEN SwitchByMode(input.sched, input.mode)
                  ELSE SwitchByArgs(input.sched, args),
         enableLoader |-> ~input.loaderEnabled,
         config |-> [input.config EXCEPT !.default_sched = input.sched,
                                         !.default_mode = input.mode]]

DisablePlan(config) ==
    [service |-> None, call |-> StopScheduler, enableLoader |-> FALSE,
     config |-> [config EXCEPT !.default_sched = None]]
===============================================================================
