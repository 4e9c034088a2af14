------------------------------- MODULE Planning -------------------------------
(***************************************************************************)
(* From check boxes to pacman: the rows of the kernel list, the change     *)
(* list, the install and the removal set, and their expansion into the     *)
(* targets of at most two pacman commands; and what pacman does with them. *)
(*                                                                         *)
(* A row of the list is <<repository, kernel>>.  The local database is a   *)
(* record: per kernel package its installed version (0: not installed) and *)
(* the repository it came from, the installed packages that accompany      *)
(* kernels, and whether nvidia-dkms or nvidia-open-dkms is installed.      *)
(* Kernels of the AUR are left out: discovery never lists one.             *)
(***************************************************************************)
EXTENDS Naturals, FiniteSets

CONSTANTS
    Repos, Kernels,
    CachyKernels,     \* those named linux-cachyos*
    Catalog,          \* the rows: what the repositories offer
    Version,          \* its version, per row
    Companions,       \* the companion modules it has in its repository, per row
    Rank,             \* the order of the repositories in pacman.conf
    Unknown,          \* the origin of a locally built package
    Zfs, ChwdNvidia, ChwdOpen   \* the facts about the machine that never change

Modules == {"headers", "zfs", "nvidia", "open"}

ASSUME CatalogAssumption ==
    /\ Catalog \subseteq Repos \X Kernels
    /\ Catalog # {}
    /\ Unknown \notin Repos
    /\ CachyKernels \subseteq Kernels
ASSUME OfferAssumption ==
    /\ Version \in [Catalog -> Nat \ {0}]
    /\ Companions \in [Catalog -> SUBSET {"zfs", "nvidia", "open"}]
    /\ Rank \in [Repos -> Nat]
    /\ \A q, r \in Repos : Rank[q] = Rank[r] => q = r
ASSUME MachineAssumption ==
    Zfs \in BOOLEAN /\ ChwdNvidia \in BOOLEAN /\ ChwdOpen \in BOOLEAN

(* A kernel that is not installed comes from nowhere.                      *)
Local == {db \in [version : [Kernels -> Nat],
                  from : [Kernels -> Repos \cup {Unknown}],
                  modules : SUBSET (Kernels \X Modules),
                  dkms : BOOLEAN] :
            \A k \in Kernels : db.version[k] = 0 => db.from[k] = Unknown}
Offered == {r[2] : r \in Catalog}
Targets == [kernels : SUBSET Offered, modules : SUBSET (Kernels \X Modules)]
Plans == [install : Targets, remove : Targets]
-------------------------------------------------------------------------------
(* The rows: `installed`, `immutable` and `update_available`, as found in  *)
(* the database db.                                                        *)

Present(db, k) == db.version[k] # 0
Installed(db, r) == Present(db, r[2])
Immutable(db, r) == Installed(db, r) /\ db.from[r[2]] \in {r[1], Unknown}
UpdateAvailable(db, r) == Installed(db, r) /\ db.version[r[2]] < Version[r]

(* The boxes that are checked when the list is filled.                     *)
DefaultChecks(db) == {r \in Catalog : Immutable(db, r)}

(* SelectionState::change_list, for the rows shown and the boxes checked.  *)
ChangeList(rows, db, checked) ==
    {r \in rows : \/ Immutable(db, r) /\ r \notin checked
                  \/ ~Immutable(db, r) /\ r \in checked}

InstallSet(rows, db, checked) ==
    {r \in ChangeList(rows, db, checked) :
        ~Installed(db, r) \/ UpdateAvailable(db, r)}

(* A plausible mistake: the removal phase forgets its filter.              *)
RemovalSetUnfiltered(rows, db, checked) == ChangeList(rows, db, checked)

RemovalSet(rows, db, checked) ==
    {r \in ChangeList(rows, db, checked) : Installed(db, r)}
-------------------------------------------------------------------------------
(* Kernel::install and Kernel::remove.  `found` holds what the worker has  *)
(* read: modules and dkms of the local database, and whether a module of   *)
(* either NVIDIA family is installed for some linux-cachyos kernel.        *)

FamilyInstalled(db, family) == \E k \in CachyKernels : <<k, family>> \in db.modules

(* An installed family is reused; otherwise chwd's profile decides.        *)
ReusesOpen(r, found) == found.openFamily /\ "open" \in Companions[r]
ReusesNvidia(r, found) ==
    ~ReusesOpen(r, found) /\ found.nvidiaFamily /\ "nvidia" \in Companions[r]
Drivers(r, found) ==
    IF found.dkms THEN {}
    ELSE IF \/ ReusesOpen(r, found)
            \/ ~ReusesNvidia(r, found) /\ ChwdOpen /\ "open" \in Companions[r]
         THEN {"open"}
    ELSE IF \/ ReusesNvidia(r, found)
            \/ ChwdNvidia /\ "nvidia" \in Companions[r]
         THEN {"nvidia"}
    ELSE {}

ExpandInstall(r, found) ==
    {r[2]} \X ({"headers"}
                 \cup {m \in {"zfs"} : Zfs /\ m \in Companions[r]}
                 \cup Drivers(r, found))

(* Plausible mistake: companions that are not installed are removed too.   *)
ExpandRemoveUnfiltered(r, found) == {r[2]} \X ({"headers"} \cup Companions[r])

ExpandRemove(r, found) ==
    ({r[2]} \X ({"headers"} \cup Companions[r])) \cap found.modules

(* TransactionPlan::from_selection.                                        *)
FromSelection(rows, db, checked, found) ==
    LET installs == InstallSet(rows, db, checked)
        removals == RemovalSet(rows, db, checked)
    IN  [install |-> [kernels |-> {r[2] : r \in installs},
                      modules |-> UNION {ExpandInstall(r, found) : r \in installs}],
         remove |-> [kernels |-> {r[2] : r \in removals},
                     modules |-> UNION {ExpandRemove(r, found) : r \in removals}]]

(* commit_commands: the install first, each only if it has a target.       *)
Commands(plan) == {c \in {"install", "remove"} : plan[c].kernels # {}}

NothingPlanned == [install |-> [kernels |-> {}, modules |-> {}],
                   remove |-> [kernels |-> {}, modules |-> {}]]
-------------------------------------------------------------------------------
(* pacman.                                                                 *)

(* A bare name is taken from the first repository that has it.             *)
Source(k) ==
    CHOOSE r \in Catalog :
        r[2] = k /\ \A q \in Catalog : q[2] = k => Rank[r[1]] <= Rank[q[1]]

(* `-S --needed`: a target of the same version is skipped.                 *)
InstallEffect(db, t) ==
    [db EXCEPT
        !.version = [k \in Kernels |-> IF k \in t.kernels
                                         THEN Version[Source(k)] ELSE @[k]],
        !.from = [k \in Kernels |-> IF /\ k \in t.kernels
                                       /\ db.version[k] # Version[Source(k)]
                                      THEN Source(k)[1] ELSE @[k]],
        !.modules = @ \cup t.modules]

(* `-Rsn`: every target must be installed, or nothing is removed.          *)
RemovePossible(db, t) ==
    (\A k \in t.kernels : Present(db, k)) /\ t.modules \subseteq db.modules

(* A plausible mistake: the origin of a removed kernel stays.              *)
RemoveEffectKeepsOrigin(db, t) ==
    [db EXCEPT
        !.version = [k \in Kernels |-> IF k \in t.kernels THEN 0 ELSE @[k]],
        !.modules = @ \ t.modules]

RemoveEffect(db, t) ==
    [db EXCEPT
        !.version = [k \in Kernels |-> IF k \in t.kernels THEN 0 ELSE @[k]],
        !.from = [k \in Kernels |-> IF k \in t.kernels THEN Unknown ELSE @[k]],
        !.modules = @ \ t.modules]
-------------------------------------------------------------------------------
(* The kernels-change check after the commands: some package to install is *)
(* there, or some package to remove is gone.                               *)

(* A plausible mistake: a change of either kind is not enough.             *)
ChangedIfBoth(db, plan) ==
    /\ \/ \E k \in plan.install.kernels : Present(db, k)
       \/ plan.install.modules \cap db.modules # {}
    /\ \/ \E k \in plan.remove.kernels : ~Present(db, k)
       \/ ~(plan.remove.modules \subseteq db.modules)

Changed(db, plan) ==
    \/ \E k \in plan.install.kernels : Present(db, k)
    \/ plan.install.modules \cap db.modules # {}
    \/ \E k \in plan.remove.kernels : ~Present(db, k)
    \/ ~(plan.remove.modules \subseteq db.modules)
===============================================================================
