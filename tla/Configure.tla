------------------------------- MODULE Configure -------------------------------
(***************************************************************************)
(* The Configure window: its option controls, the list of patches that     *)
(* background probes of the PKGBUILD fill and the user edits, and the      *)
(* loading and saving of a configuration file.                             *)
(*                                                                         *)
(* The UI thread handles one event at a time.  Beside it run the threads   *)
(* of a prepare or a refresh, which read the source array of the variant   *)
(* and the options they were given at the start; those that load or save a *)
(* file; and a build, which writes the patches it was given into the       *)
(* PKGBUILD.  Each edit and each new probe moves patch_epoch, and a probe  *)
(* that ends under another epoch than its own is dropped.                  *)
(*                                                                         *)
(* External: the PKGBUILDs as git has them (SourceArray), the file system. *)
(* Bounds of the model, which the code does not have: MaxEpoch on the      *)
(* epoch; Probes, Loads, Saves and Builds, the threads at work at the same *)
(* time; MaxSaves; MaxPatches in the list; the sets of values the user     *)
(* picks, toggles, types or finds in a file.                               *)
(***************************************************************************)
EXTENDS VariantOptions, FiniteSets

CONSTANTS
    SourceArray,    \* per variant, the entries of its PKGBUILD as git has it
    LtoPatches,     \* the entries it has besides, if built with LTO
    NvidiaPatches,  \* and if built with the open nvidia module
    UserPatches,    \* what the user adds
    Picks, Toggles, Ltos, Preempts, CustomNames, Files,
    Probes, Loads, Saves, Builds,
    MaxEpoch, MaxSaves, MaxPatches, Modal

ASSUME SourceAssumption == Picks \cup {"cachyos"} \subseteq DOMAIN SourceArray
ASSUME EntriesAssumption ==
    \A list \in {SourceArray[v] : v \in DOMAIN SourceArray} \cup {LtoPatches, NvidiaPatches} :
        list \in Seq({list[i] : i \in DOMAIN list})
ASSUME BoundsAssumption == {MaxEpoch, MaxSaves, MaxPatches} \subseteq Nat
ASSUME ModalAssumption == Modal \in BOOLEAN

VARIABLES
    conf,       \* AppState.configuration
    dialog,     \* "progress" or "error" if this window put one up
    path,       \* App.path_dialog: what a submitted path is for
    widgets,    \* App.configure, but for
    patches,    \* its list of patches
    options,    \* AppState.build_options
    epoch,      \* App.patch_epoch
    probe, load, save, build,   \* the threads
    pkgbuild,   \* per variant: the patches a build wrote into it, or Pristine
    file,       \* the configuration file
    tmp,        \* the temporary files beside it, by the number in their name
    saves,      \* saves started so far
    removed     \* history: the user removed a patch since the list was filled

ui == <<conf, dialog, path, widgets, patches, options, epoch, removed>>
threads == <<probe, load, save, build>>
disk == <<pkgbuild, file, tmp, saves>>
vars == <<ui, threads, disk>>

None == "none"

(* What a file holds if not a configuration, and a PKGBUILD's patches.     *)
Missing == [state |-> "missing"]
Cut == [state |-> "cut"]
Pristine == [by |-> "git"]
BuiltWith(list) == [by |-> "build", patches |-> list]

ASSUME ValuesAssumption ==
    /\ Picks \subseteq VariantsAll
    /\ Toggles \subseteq Check
    /\ \A f \in Files : f \notin {Missing, Cut} => f.checked \subseteq Check

Patch(entry) == entry.patch
Names(list) == {list[i] : i \in DOMAIN list}
TmpNames == 1..MaxSaves

(* The entries of a list that are in a set, in their order; as SelectSeq,  *)
(* of which TLAPS knows no definition.                                     *)
Kept(list, set) ==
    LET kept[i \in 0..Len(list)] ==
            IF i = 0 THEN << >>
            ELSE IF list[i] \in set THEN Append(kept[i - 1], list[i]) ELSE kept[i - 1]
    IN  kept[Len(list)]

(* What the PKGBUILD of the options' variant evaluates to: as git has it,  *)
(* or with the patches a build put in the place of its own.                *)
Source(o) ==
    LET git == SourceArray[o.variant]
                \o (IF o.lto # "none" THEN LtoPatches ELSE << >>)
                \o (IF "builtin_nvidia_open" \in o.checked THEN NvidiaPatches ELSE << >>)
    IN  IF pkgbuild[o.variant] = Pristine THEN git
        ELSE Kept(git, {e \in Names(git) : ~Patch(e)}) \o pkgbuild[o.variant].patches
ResetPatches(source) == Kept(source, {e \in Names(source) : Patch(e)})

IdleProbe == [pc |-> "idle", kind |-> None, gen |-> 0, options |-> DefaultOptions,
              found |-> << >>, overtaken |-> FALSE]
Idle == [pc |-> "idle"]

Init ==
    /\ conf = "Closed"
    /\ dialog = None
    /\ path = None
    /\ widgets = DefaultWidgets
    /\ patches = << >>
    /\ options = DefaultOptions
    /\ epoch = 0
    /\ probe = [p \in Probes |-> IdleProbe]
    /\ load = [l \in Loads |-> Idle]
    /\ save = [s \in Saves |-> Idle]
    /\ build = [b \in Builds |-> Idle]
    /\ pkgbuild = [v \in DOMAIN SourceArray |-> Pristine]
    /\ file \in Files
    /\ tmp = [n \in TmpNames |-> Missing]
    /\ saves = 0
    /\ removed = FALSE

(* The window is shown and, if dialogs block what is under them, bare.     *)
Usable == conf # "Closed" /\ (Modal => dialog = None /\ path = None)
-------------------------------------------------------------------------------
(* Probes.                                                                 *)

(* A thread is started on the options o, under a new epoch.                *)
StartProbe(kind, o) ==
    /\ epoch < MaxEpoch
    /\ epoch' = epoch + 1
    /\ \E p \in Probes :
        /\ probe[p].pc = "idle"
        /\ probe' = [probe EXCEPT ![p] =
                [pc |-> IF kind = "prepare" THEN "git" ELSE "read", kind |-> kind,
                 gen |-> epoch + 1, options |-> o, found |-> << >>,
                 overtaken |-> FALSE]]

ConfigureRequested ==
    /\ Modal => dialog = None
    /\ conf' = "Preparing"
    /\ dialog' = "progress"
    /\ StartProbe("prepare", options)
    /\ UNCHANGED <<path, widgets, patches, options, removed, load, save, build, disk>>

(* The git plan of a prepare: it may not get to the reset of the           *)
(* PKGBUILDs.                                                              *)
GitRefresh(p) ==
    /\ probe[p].pc = "git"
    /\ pkgbuild' \in {pkgbuild, [v \in DOMAIN pkgbuild |-> Pristine]}
    /\ probe' = [probe EXCEPT ![p].pc = "read"]
    /\ UNCHANGED <<ui, load, save, build, file, tmp, saves>>

(* The PKGBUILD may be missing, or not to be evaluated.                    *)
ProbePatchEntries(p) ==
    /\ probe[p].pc = "read"
    /\ \E found \in {Source(probe[p].options), << >>} :
        probe' = [probe EXCEPT ![p].pc = "done", ![p].found = ResetPatches(found)]
    /\ UNCHANGED <<ui, load, save, build, disk>>

(* The result replaces the list, if it is the newest epoch's.              *)
Landed(p) ==
    /\ patches' = probe[p].found
    /\ removed' = FALSE

(* A plausible mistake in ProbeDone; not part of the specification.        *)
ProbeDoneUnconditionally(p) ==
    /\ probe[p].pc = "done"
    /\ Landed(p)
    /\ conf' = IF probe[p].kind = "prepare" THEN "Editing" ELSE conf
    /\ UNCHANGED <<dialog, path, widgets, options, epoch, load, save, build, disk>>
    /\ probe' = [probe EXCEPT ![p] = IdleProbe]

(* ConfigurePrepared, PatchesRefreshed.                                    *)
ProbeDone(p) ==
    /\ probe[p].pc = "done"
    /\ probe' = [probe EXCEPT ![p] = IdleProbe]
    /\ \/ /\ probe[p].gen # epoch
          /\ UNCHANGED <<conf, dialog, patches, options, removed>>
       \/ /\ probe[p].gen = epoch
          /\ probe[p].kind = "prepare"
          /\ Landed(p)
          /\ options' = OptionsOf(widgets)
          /\ conf' = "Editing"
          /\ dialog' = IF dialog = "progress" THEN None ELSE dialog
       \/ /\ probe[p].gen = epoch
          /\ probe[p].kind = "refresh"
          /\ Landed(p)
          /\ UNCHANGED <<conf, dialog, options>>
    /\ UNCHANGED <<path, widgets, epoch, load, save, build, disk>>

(* A panic: the window closes if it was a prepare.                         *)
ProbePanics(p) ==
    /\ probe[p].pc \in {"git", "read"}
    /\ probe' = [probe EXCEPT ![p] = IdleProbe]
    /\ dialog' = "error"
    /\ conf' = IF probe[p].kind = "prepare" THEN "Closed" ELSE conf
    /\ UNCHANGED <<path, widgets, patches, options, epoch, removed, load, save, build,
                   disk>>

(* Cancel and close; a progress dialog goes with the window.               *)
Cancel ==
    /\ conf # "Closed"
    /\ conf' = "Closed"
    /\ dialog' = IF dialog = "progress" THEN None ELSE dialog
    /\ UNCHANGED <<path, widgets, patches, options, epoch, removed, threads, disk>>

DialogDismissed ==
    /\ dialog = "error"
    /\ dialog' = None
    /\ UNCHANGED <<conf, path, widgets, patches, options, epoch, removed, threads, disk>>
-------------------------------------------------------------------------------
(* The option controls.                                                    *)

(* Controls that change the options and not the list.                      *)
Synced(w) ==
    /\ widgets' = w
    /\ options' = OptionsOf(w)

(* Controls the source array depends on start a refresh.                   *)
SyncedAndProbed(w) ==
    /\ Synced(w)
    /\ StartProbe("refresh", OptionsOf(w))
    /\ UNCHANGED <<conf, dialog, path, load, save, build, disk>>

(* A plausible mistake in VariantPicked; not part of the specification.    *)
VariantPickedKeepingList ==
    /\ Usable
    /\ \E v \in Picks : SyncedAndProbed(OnVariantChanged(widgets, v))
    /\ UNCHANGED <<patches, removed>>

(* The list is emptied at once and filled again by the refresh.            *)
VariantPicked ==
    /\ Usable
    /\ \E v \in Picks : SyncedAndProbed(OnVariantChanged(widgets, v))
    /\ patches' = << >>
    /\ removed' = FALSE

LtoPicked ==
    /\ Usable
    /\ \E l \in Ltos \cap Offered(widgets.switch.ltoItems) :
        SyncedAndProbed([widgets EXCEPT !.switch.lto = l])
    /\ UNCHANGED <<patches, removed>>

NvidiaOpenToggled ==
    /\ Usable
    /\ "builtin_nvidia_open" \in Toggles
    /\ SyncedAndProbed(CheckToggled(widgets, "builtin_nvidia_open"))
    /\ UNCHANGED <<patches, removed>>

(* A plausible mistake in PreemptPicked; not part of the specification.    *)
PreemptPickedUnsynced ==
    /\ Usable
    /\ \E p \in Preempts : widgets' = [widgets EXCEPT !.switch.preempt = p]
    /\ UNCHANGED <<conf, dialog, path, patches, options, epoch, removed, threads, disk>>

(* Preemption and, alike, tick rate, tickless, huge pages, the processor   *)
(* and the custom name.                                                    *)
PreemptPicked ==
    /\ Usable
    /\ \E p \in Preempts \cap Offered(widgets.switch.preemptItems) :
        Synced([widgets EXCEPT !.switch.preempt = p])
    /\ UNCHANGED <<conf, dialog, path, patches, epoch, removed, threads, disk>>
CustomNameChanged ==
    /\ Usable
    /\ \E name \in CustomNames : Synced([widgets EXCEPT !.customName = name])
    /\ UNCHANGED <<conf, dialog, path, patches, epoch, removed, threads, disk>>

(* The other boxes; a disabled one cannot be clicked.                      *)
OtherCheckToggled ==
    /\ Usable
    /\ \E c \in Toggles \ {"builtin_nvidia_open"} :
        /\ c = "builtin_zfs" => widgets.switch.zfsEnabled
        /\ Synced(CheckToggled(widgets, c))
    /\ UNCHANGED <<conf, dialog, path, patches, epoch, removed, threads, disk>>
-------------------------------------------------------------------------------
(* The list of patches.                                                    *)
Swapped(list, i, j) == [list EXCEPT ![i] = list[j], ![j] = list[i]]
Without(list, i) == SubSeq(list, 1, i - 1) \o SubSeq(list, i + 1, Len(list))

(* History: the probes under way are older than this edit.                 *)
Overtake == probe' = [p \in Probes |-> IF probe[p].pc = "idle" THEN probe[p]
                                       ELSE [probe[p] EXCEPT !.overtaken = TRUE]]

(* A plausible mistake in Edited; not part of the specification.           *)
EditedInEpoch(list) ==
    /\ patches' = list
    /\ epoch' = epoch
    /\ Overtake
    /\ UNCHANGED <<conf, dialog, widgets, options, load, save, build, disk>>

(* Each edit moves the epoch, so that no probe begun before it undoes it.  *)
Edited(list) ==
    /\ epoch < MaxEpoch
    /\ patches' = list
    /\ epoch' = epoch + 1
    /\ Overtake
    /\ UNCHANGED <<conf, dialog, widgets, options, load, save, build, disk>>

PatchMoved ==
    /\ Usable
    /\ \E i \in DOMAIN patches :
        i + 1 \in DOMAIN patches /\ Edited(Swapped(patches, i, i + 1))
    /\ UNCHANGED <<path, removed>>

PatchRemoved ==
    /\ Usable
    /\ \E i \in DOMAIN patches :
        /\ Edited(Without(patches, i))
        /\ removed' = TRUE
    /\ UNCHANGED path

(* A local file and an address are entered in the path dialog; nothing is  *)
(* added for an empty one.                                                 *)
PatchAdded ==
    /\ path = "patch"
    /\ path' = None
    /\ \/ /\ Len(patches) < MaxPatches
          /\ \E u \in UserPatches : Edited(Append(patches, u))
       \/ UNCHANGED <<conf, dialog, widgets, patches, options, epoch, threads, disk>>
    /\ UNCHANGED removed

PathDialogOpened ==
    /\ Usable
    /\ path' \in {"load", "save", "patch"}
    /\ UNCHANGED <<conf, dialog, widgets, patches, options, epoch, removed, threads, disk>>

PathDialogDismissed ==
    /\ path # None
    /\ path' = None
    /\ UNCHANGED <<conf, dialog, widgets, patches, options, epoch, removed, threads, disk>>
-------------------------------------------------------------------------------
(* Loading and saving a configuration.                                     *)
LoadSubmitted(l) ==
    /\ path = "load"
    /\ path' = None
    /\ load[l].pc = "idle"
    /\ load' = [load EXCEPT ![l] = [pc |-> "read"]]
    /\ UNCHANGED <<conf, dialog, widgets, patches, options, epoch, removed, probe, save,
                   build, disk>>

(* A file that is missing or not whole is an error.                        *)
LoadRead(l) ==
    /\ load[l].pc = "read"
    /\ load' = [load EXCEPT ![l] = [pc |-> "done", config |-> file]]
    /\ UNCHANGED <<ui, probe, save, build, disk>>

ConfigLoaded(l) ==
    /\ load[l].pc = "done"
    /\ load[l].config \notin {Missing, Cut}
    /\ load' = [load EXCEPT ![l] = Idle]
    /\ Synced(LoadConfig(widgets, load[l].config))
    /\ dialog' = IF Outdated(widgets, load[l].config) THEN "error" ELSE dialog
    /\ StartProbe("refresh", options')
    /\ UNCHANGED <<conf, path, patches, removed, save, build, disk>>

ConfigError(l) ==
    /\ load[l].pc = "done"
    /\ load[l].config \in {Missing, Cut}
    /\ load' = [load EXCEPT ![l] = Idle]
    /\ dialog' = "error"
    /\ UNCHANGED <<conf, path, widgets, patches, options, epoch, removed, probe, save,
                   build, disk>>

(* A save has the configuration of the moment the path was entered.        *)
SaveSubmitted(s) ==
    /\ path = "save"
    /\ path' = None
    /\ save[s].pc = "idle"
    /\ saves < MaxSaves
    /\ saves' = saves + 1
    /\ save' = [save EXCEPT ![s] = [pc |-> "name", config |-> ToConfig(widgets)]]
    /\ UNCHANGED <<conf, dialog, widgets, patches, options, epoch, removed, probe, load,
                   build, pkgbuild, file, tmp>>

(* The temporary file gets the first name that does not exist now.         *)
SaveNames(s) ==
    /\ save[s].pc = "name"
    /\ \E n \in TmpNames :
        /\ tmp[n] = Missing
        /\ \A m \in 1..(n - 1) : tmp[m] # Missing
        /\ save' = [save EXCEPT ![s] =
                [pc |-> "open", config |-> save[s].config, name |-> n, in |-> "tmp"]]
    /\ UNCHANGED <<ui, probe, load, build, disk>>
SaveGoes(s, to) == save' = [save EXCEPT ![s].pc = to]
SaveFails(s) == SaveGoes(s, "failed") /\ UNCHANGED <<file, tmp>>

(* A plausible mistake in SaveOpens; not part of the specification.        *)
SaveOpensTarget(s) ==
    /\ save[s].pc = "open"
    /\ file' = Cut
    /\ tmp' = tmp
    /\ SaveGoes(s, "write")
    /\ UNCHANGED <<ui, probe, load, build, pkgbuild, saves>>

(* Writing is to open the file, which empties it, and to fill it, wherever *)
(* a rename by another save has moved it since.  Of two saves that fill    *)
(* one file the later is taken to win.                                     *)
SaveOpens(s) ==
    /\ save[s].pc = "open"
    /\ \/ SaveFails(s)
       \/ /\ tmp' = [tmp EXCEPT ![save[s].name] = Cut]
          /\ file' = file
          /\ SaveGoes(s, "write")
    /\ UNCHANGED <<ui, probe, load, build, pkgbuild, saves>>
SaveWrites(s) ==
    /\ save[s].pc = "write"
    /\ \/ SaveFails(s)
       \/ /\ tmp' = IF save[s].in = "tmp"
                    THEN [tmp EXCEPT ![save[s].name] = save[s].config] ELSE tmp
          /\ file' = IF save[s].in = "file" THEN save[s].config ELSE file
          /\ SaveGoes(s, "rename")
    /\ UNCHANGED <<ui, probe, load, build, pkgbuild, saves>>

(* A rename takes what is under the name to the file, and what was in its  *)
(* place is under no name any more; one that fails is cleaned up after.    *)
Moved(t, name, to) ==
    CASE save[t].pc = "write" /\ save[t].in = "tmp" /\ save[t].name = name ->
            [save[t] EXCEPT !.in = to]
      [] save[t].pc = "write" /\ save[t].in = "file" /\ to = "file" ->
            [save[t] EXCEPT !.in = "nowhere"]
      [] OTHER -> save[t]
SaveRenames(s) ==
    LET name == save[s].name
        Ends(pc, to) == save' = [t \in Saves |-> IF t = s THEN [save[s] EXCEPT !.pc = pc]
                                               ELSE Moved(t, name, to)]
    IN  /\ save[s].pc = "rename"
        /\ \/ /\ tmp[name] # Missing
              /\ file' = tmp[name]
              /\ Ends("saved", "file")
           \/ /\ file' = file
              /\ Ends("failed", "nowhere")
        /\ tmp' = [tmp EXCEPT ![name] = Missing]
        /\ UNCHANGED <<ui, probe, load, build, pkgbuild, saves>>

(* A save that went well dismisses whatever dialog is up.                  *)
SaveDone(s) ==
    /\ save[s].pc \in {"saved", "failed"}
    /\ dialog' = IF save[s].pc = "saved" THEN None ELSE "error"
    /\ save' = [save EXCEPT ![s] = Idle]
    /\ UNCHANGED <<conf, path, widgets, patches, options, epoch, removed, probe, load,
                   build, disk>>
-------------------------------------------------------------------------------
(* A build gets the variant and the list as they are, and later writes the *)
(* list into the variant's PKGBUILD, in the place of the patches there; it *)
(* may fail before.                                                        *)
BuildRequested(b) ==
    /\ Usable
    /\ build[b].pc = "idle"
    /\ build' = [build EXCEPT ![b] =
            [pc |-> "mutate", variant |-> widgets.variant, patches |-> patches]]
    /\ UNCHANGED <<ui, probe, load, save, disk>>
BuildMutates(b) ==
    /\ build[b].pc = "mutate"
    /\ pkgbuild' \in {pkgbuild, [pkgbuild EXCEPT ![build[b].variant] = BuiltWith(build[b].patches)]}
    /\ build' = [build EXCEPT ![b] = Idle]
    /\ UNCHANGED <<ui, probe, load, save, file, tmp, saves>>

(* The program ends at any moment, its threads with it, and is started     *)
(* again; its temporary files are left behind: a new process has names of  *)
(* its own.                                                                *)
Restart ==
    /\ conf' = "Closed"
    /\ dialog' = None
    /\ path' = None
    /\ widgets' = DefaultWidgets
    /\ patches' = << >>
    /\ options' = DefaultOptions
    /\ removed' = FALSE
    /\ probe' = [p \in Probes |-> IdleProbe]
    /\ load' = [l \in Loads |-> Idle]
    /\ save' = [s \in Saves |-> Idle]
    /\ build' = [b \in Builds |-> Idle]
    /\ tmp' = [n \in TmpNames |-> Missing]
    /\ UNCHANGED <<epoch, pkgbuild, file, saves>>

Next ==
    \/ ConfigureRequested \/ Cancel \/ DialogDismissed \/ Restart
    \/ VariantPicked \/ LtoPicked \/ NvidiaOpenToggled \/ PreemptPicked
    \/ CustomNameChanged \/ OtherCheckToggled
    \/ PatchMoved \/ PatchRemoved \/ PatchAdded
    \/ PathDialogOpened \/ PathDialogDismissed
    \/ \E p \in Probes : GitRefresh(p) \/ ProbePatchEntries(p) \/ ProbeDone(p) \/ ProbePanics(p)
    \/ \E l \in Loads : LoadSubmitted(l) \/ LoadRead(l) \/ ConfigLoaded(l) \/ ConfigError(l)
    \/ \E s \in Saves :
        \/ SaveSubmitted(s) \/ SaveNames(s) \/ SaveOpens(s) \/ SaveWrites(s)
        \/ SaveRenames(s) \/ SaveDone(s)
    \/ \E b \in Builds : BuildRequested(b) \/ BuildMutates(b)

Spec == Init /\ [][Next]_vars
-------------------------------------------------------------------------------
(* Type invariant.                                                         *)
TypeOK ==
    /\ conf \in {"Closed", "Preparing", "Editing"}
    /\ dialog \in {None, "progress", "error"}
    /\ path \in {None, "load", "save", "patch"}
    /\ widgets.variant \in VariantsAll
    /\ widgets.checks \subseteq Check \ {"cachy_config", "builtin_zfs"}
    /\ widgets.switch.hz \in HzTick /\ widgets.switch.lto \in Lto
    /\ widgets.switch.preempt \in Preempt
    /\ epoch \in 0..MaxEpoch
    /\ \A p \in Probes : probe[p].pc # "idle" => probe[p].gen \in 1..epoch

(* A build gets the options the window shows: whatever was picked, typed,  *)
(* loaded or switched, build_options has been brought up to date.          *)
OptionsFollowWidgets == options = OptionsOf(widgets)

(* However the variants were switched, the items added and removed by      *)
(* count are the variant's, and what is selected is one of them, after a   *)
(* load as well.                                                           *)
OfferMatchesVariant == SwitchMatches(widgets.switch, widgets.variant)

(* What is saved now and loaded again at once changes nothing and is not   *)
(* called outdated.                                                        *)
RoundTrip ==
    /\ ~Outdated(widgets, ToConfig(widgets))
    /\ LoadConfig(widgets, ToConfig(widgets)) = widgets

(* No patch of another variant is in the list, nor handed to a build, in   *)
(* whatever order the probes end: "Only the LATEST generation owns the     *)
(* list".                                                                  *)
OwnPatches(variant) ==
    UserPatches \cup Names(SourceArray[variant] \o LtoPatches \o NvidiaPatches)
NoForeignPatches ==
    /\ Names(patches) \subseteq OwnPatches(widgets.variant)
    /\ \A b \in Builds : build[b].pc = "mutate" =>
            Names(build[b].patches) \subseteq OwnPatches(build[b].variant)

(* A probe under way when the user edits the list never changes it: "a     *)
(* list mutation bumps the epoch".                                         *)
EditsSurviveOlderProbes ==
    [][\A p \in Probes : probe[p].overtaken /\ ProbeDone(p) => patches' = patches]_vars

(* The configuration file is never seen half written, whatever fails and   *)
(* whenever the program ends: "Save atomically (D-002)".                   *)
FileIsWhole == file # Cut

-------------------------------------------------------------------------------
(* What one would expect, and the code does not do; see the README.        *)

(* The zfs module is not built for a realtime kernel.                      *)
RtHasNoZfs == options.variant = "rt" => "builtin_zfs" \notin options.checked

(* A build has the patches of its variant, but for those the user removed. *)
BuildHasItsPatches ==
    \A b \in Builds : build[b].pc = "mutate" /\ ~removed =>
        \A e \in Names(SourceArray[build[b].variant]) :
            Patch(e) => e \in Names(build[b].patches)
===============================================================================
