-------------------------------- MODULE AurCorpus --------------------------------
(***************************************************************************)
(* The corpus of the AUR court: the discovery of the kernels of the AUR    *)
(* and the commands of a commit, by aur-oracle-ref, written from the       *)
(* original's source, and by the plan crate.  No window of the program     *)
(* runs either; the feature is off in the shipped build.                   *)
(*                                                                         *)
(* A name is the sequence of its parts, "-headers" being one; the output   *)
(* of the probe is the sequence of its lines.  Commands are sequences of   *)
(* words and names.                                                        *)
(***************************************************************************)
EXTENDS Naturals, Sequences
LOCAL INSTANCE SequencesExt

CONSTANTS
    RepoNames,      \* the lists of kernels found in the repositories
    ParuOutputs,    \* the outputs of the probe
    Selections,     \* the kernels of the AUR that are selected, in order
    PackageLists    \* the packages to install, and to remove

Headers == "-headers"
Mentions(name) == \E i \in DOMAIN name : name[i] \in {Headers, "headers"}

(* Without the feature the reference still commits what is selected of the *)
(* AUR, and the crate does not; the corpus selects nothing then.           *)
AurInputs ==
    {in \in [enabled : BOOLEAN, paru : BOOLEAN, awk : BOOLEAN, names : RepoNames, output : ParuOutputs,
             selections : Selections, install : PackageLists, remove : PackageLists] :
        in.enabled \/ in.selections = << >>}

GateMessage == "Paru and/or AWK are not installed! Disabling AUR kernels support"
Nothing == [probeRun |-> FALSE, rows |-> << >>, message |-> {}]
AurRow(name, headers) ==
    [repo |-> "aur", name |-> name, headers |-> headers, version |-> "unknown-version",
     companions |-> << >>, raw |-> <<"aur/">> \o name]
Url(name) == <<"https://aur.archlinux.org/">> \o name \o <<".git">>
Dir(name) == <<"~/.cache/cachyos-km/aur_pkgbuilds/">> \o name
MakepkgAur == <<"makepkg", "-sicf", "--cleanbuild", "--skipchecksums">>
Command(kind, argv) == [kind |-> kind, argv |-> argv]

-----------------------------------------------------------------------------
(* The reference: one pass over the lines that keeps the names it has.     *)
Multiline(lines) == SelectSeq(lines, LAMBDA line : line # << >>)
RemoveAll(name) == SelectSeq(name, LAMBDA part : part # Headers)

RefDiscovery(in) ==
    LET gated == ~in.paru \/ ~in.awk
        probe == in.names # << >> /\ ~gated
        Row(found, line) ==
            LET name == RemoveAll(line)
            IN  IF name \in found.seen THEN found
                ELSE [seen |-> found.seen \cup {name}, rows |-> Append(found.rows, AurRow(name, line))]
        found == FoldLeft(Row, [seen |-> ToSet(in.names), rows |-> << >>], Multiline(in.output))
    IN  IF ~in.enabled THEN Nothing
        ELSE [probeRun |-> probe, rows |-> IF probe THEN found.rows ELSE << >>,
              message |-> IF gated THEN {GateMessage} ELSE {}]

RefCommit(in) ==
    LET Pair(name) == IF Mentions(name) THEN << >>
                      ELSE <<Command("git-refresh", <<Url(name), Dir(name)>>), Command("build-aur", MakepkgAur)>>
    IN  FlattenSeq([i \in DOMAIN in.selections |-> Pair(in.selections[i])])
        \o (IF in.install = << >> THEN << >>
            ELSE <<Command("install-repo", <<"pacman", "-S", "--needed">> \o in.install)>>)
        \o (IF in.remove = << >> THEN << >>
            ELSE <<Command("remove-repo", <<"pacman", "-Rsn">> \o in.remove)>>)

AurReference == [in \in AurInputs |-> [discovery |-> RefDiscovery(in), commit |-> RefCommit(in)]]

-----------------------------------------------------------------------------
(* A plausible mistake in DiscoverAur; not part of the specification.      *)
DiscoverAurDuplicating(in) ==
    LET rows == [i \in DOMAIN Multiline(in.output) |->
                    AurRow(RemoveAll(Multiline(in.output)[i]), Multiline(in.output)[i])]
        New(row) == row.name \notin ToSet(in.names)
    IN  CASE ~in.enabled -> Nothing
          [] in.enabled /\ ~(in.paru /\ in.awk) -> [Nothing EXCEPT !.message = {GateMessage}]
          [] in.enabled /\ in.paru /\ in.awk /\ in.names = << >> -> Nothing
          [] OTHER -> [probeRun |-> TRUE, rows |-> SelectSeq(rows, New), message |-> {}]

(* The crate: all rows first, of which those are kept whose name neither a *)
(* repository nor an earlier row has.                                      *)
DiscoverAur(in) ==
    LET lines == SelectSeq(in.output, LAMBDA line : line # << >>)
        rows == [i \in DOMAIN lines |-> AurRow(SelectSeq(lines[i], LAMBDA part : part # Headers), lines[i])]
        Already(kept, row) == \/ \E i \in DOMAIN in.names : in.names[i] = row.name
                              \/ \E i \in DOMAIN kept : kept[i].name = row.name
        kept == FoldLeft(LAMBDA k, row : IF Already(k, row) THEN k ELSE Append(k, row), << >>, rows)
    IN  CASE ~in.enabled -> Nothing
          [] in.enabled /\ ~(in.paru /\ in.awk) -> [Nothing EXCEPT !.message = {GateMessage}]
          [] in.enabled /\ in.paru /\ in.awk /\ in.names = << >> -> Nothing
          [] OTHER -> [probeRun |-> TRUE, rows |-> kept, message |-> {}]

(* The plan of a corpus, and its commands: a build carries the directory   *)
(* its refresh has filled.                                                 *)
AurPlan(in) ==
    [install |-> in.install, remove |-> in.remove, aurInstall |-> in.selections, aurEnabled |-> in.enabled]
CommitCommands(plan) ==
    LET built == IF plan.aurEnabled THEN SelectSeq(plan.aurInstall, LAMBDA n : ~Mentions(n)) ELSE << >>
    IN  FlattenSeq([i \in DOMAIN built |->
            <<[kind |-> "GitRefresh", url |-> Url(built[i]), dir |-> Dir(built[i])],
              [kind |-> "BuildAurPackage", dir |-> Dir(built[i])]>>])
        \o (IF plan.install = << >> THEN << >>
            ELSE <<[kind |-> "InstallRepoPackages", packages |-> plan.install, needed |-> TRUE]>>)
        \o (IF plan.remove = << >> THEN << >> ELSE <<[kind |-> "RemovePackages", packages |-> plan.remove]>>)

PacmanInstallArgv(packages, needed) ==
    <<"pacman", "-S">> \o (IF needed THEN <<"--needed">> ELSE << >>) \o packages
PacmanRemoveArgv(packages) == <<"pacman", "-Rsn">> \o packages
RenderCommand(c) ==
    CASE c.kind = "GitRefresh" -> Command("git-refresh", <<c.url, c.dir>>)
      [] c.kind = "BuildAurPackage" -> Command("build-aur", MakepkgAur)
      [] c.kind = "InstallRepoPackages" -> Command("install-repo", PacmanInstallArgv(c.packages, c.needed))
      [] OTHER -> Command("remove-repo", PacmanRemoveArgv(c.packages))

AurModel ==
    [in \in AurInputs |->
        LET commands == CommitCommands(AurPlan(in))
        IN  [discovery |-> DiscoverAur(in), commit |-> [i \in DOMAIN commands |-> RenderCommand(commands[i])]]]
==================================================================================
