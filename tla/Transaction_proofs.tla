--------------------------- MODULE Transaction_proofs ---------------------------
(***************************************************************************)
(* The planner and the transactions, for every catalog, machine and number *)
(* of changes by others.  The planner first: the list as it is first shown *)
(* asks for nothing; what is planned comes from the rows that were         *)
(* changed; the removal has only what was found installed; the two phases  *)
(* share exactly the kernels that have an update; at most one NVIDIA       *)
(* driver is installed with a kernel.  Then the worker and the refresh.    *)
(***************************************************************************)
EXTENDS Transaction, WellFoundedInduction, TLAPS

Found == [modules : SUBSET (Kernels \X Modules), dkms : BOOLEAN,
          nvidiaFamily : BOOLEAN, openFamily : BOOLEAN]
-------------------------------------------------------------------------------
(* The rows are those of the catalog: a name has a first repository.       *)
LEMMA RowParts == ASSUME NEW r \in Catalog
                  PROVE  r[1] \in Repos /\ r[2] \in Kernels /\ r = <<r[1], r[2]>>
BY CatalogAssumption

LEMMA SourceOffers ==
    ASSUME NEW k \in Offered
    PROVE  Source(k) \in Catalog /\ Source(k)[2] = k
<1> DEFINE T == {Rank[r[1]] : r \in {q \in Catalog : q[2] = k}}
<1> DEFINE Less == {p \in Nat \X Nat : p[1] < p[2]}
<1>1. T \subseteq Nat
  BY RowParts, OfferAssumption
<1>2. T # {}
  BY DEF Offered
<1>3. PICK n \in T : \A y \in T : ~(<<y, n>> \in Less)
  <2>1. IsWellFoundedOn(Less, Nat)
    BY NatLessThanWellFounded DEF OpToRel
  <2> HIDE DEF T, Less
  <2> QED
    BY <1>1, <1>2, <2>1, WFMin
<1>4. \A y \in T : n <= y
  <2> SUFFICES ASSUME NEW y \in T PROVE n <= y
    OBVIOUS
  <2>1. n \in Nat /\ y \in Nat
    BY <1>1
  <2>2. ~(y < n)
    BY <1>3, <2>1
  <2> QED
    BY <2>1, <2>2
<1>5. PICK r \in Catalog : r[2] = k /\ n = Rank[r[1]]
  OBVIOUS
<1>6. \A q \in Catalog : q[2] = k => Rank[r[1]] <= Rank[q[1]]
  BY <1>4, <1>5
<1> QED
  BY <1>5, <1>6 DEF Source

-------------------------------------------------------------------------------
(* Plans, and what pacman makes of them, are of the types they should be.  *)
LEMMA ExpansionTyped ==
    ASSUME NEW r \in Catalog, NEW facts \in Found
    PROVE  /\ ExpandInstall(r, facts) \subseteq {r[2]} \X Modules
           /\ ExpandRemove(r, facts) \subseteq {r[2]} \X Modules
<1>1. Companions[r] \subseteq Modules
  BY OfferAssumption DEF Modules
<1>2. Drivers(r, facts) \subseteq Modules
  BY DEF Drivers, Modules
<1>3. ({"headers"} \cup {m \in {"zfs"} : Zfs /\ m \in Companions[r]}) \subseteq Modules
  BY DEF Modules
<1>4. ExpandInstall(r, facts) \subseteq {r[2]} \X Modules
  BY <1>2, <1>3 DEF ExpandInstall
<1>5. {"headers"} \cup Companions[r] \subseteq Modules
  BY <1>1 DEF Modules
<1>6. ExpandRemove(r, facts) \subseteq {r[2]} \X Modules
  BY <1>5 DEF ExpandRemove
<1> QED
  BY <1>4, <1>6

LEMMA PlanTyped ==
    ASSUME NEW db, NEW shown \in SUBSET Catalog,
           NEW ticked, NEW facts \in Found
    PROVE  FromSelection(shown, db, ticked, facts) \in Plans
<1> DEFINE I == InstallSet(shown, db, ticked)
           R == RemovalSet(shown, db, ticked)
           IK == {r[2] : r \in I}
           RK == {r[2] : r \in R}
           IM == UNION {ExpandInstall(r, facts) : r \in I}
           RM == UNION {ExpandRemove(r, facts) : r \in R}
<1>1. I \subseteq Catalog /\ R \subseteq Catalog
  BY DEF InstallSet, RemovalSet, ChangeList
<1>2. IK \subseteq Offered /\ RK \subseteq Offered
  BY <1>1 DEF Offered
<1>3. \A r \in Catalog : {r[2]} \X Modules \subseteq Kernels \X Modules
  BY RowParts
<1>4. IM \subseteq Kernels \X Modules /\ RM \subseteq Kernels \X Modules
  <2> HIDE DEF I, R
  <2> QED
    BY <1>1, <1>3, ExpansionTyped
<1>5. FromSelection(shown, db, ticked, facts)
        = [install |-> [kernels |-> IK, modules |-> IM],
           remove |-> [kernels |-> RK, modules |-> RM]]
  BY DEF FromSelection
<1> HIDE DEF IK, RK, IM, RM
<1> QED
  BY <1>2, <1>4, <1>5 DEF Plans, Targets

LEMMA InstallTyped ==
    ASSUME NEW db \in Local, NEW t \in Targets
    PROVE  /\ InstallEffect(db, t) \in Local
           /\ \A k \in t.kernels : Present(InstallEffect(db, t), k)
           /\ \A k \in Kernels : Present(db, k) => Present(InstallEffect(db, t), k)
           /\ db.modules \subseteq InstallEffect(db, t).modules
<1> DEFINE e == InstallEffect(db, t)
<1>1. t.kernels \subseteq Offered /\ t.modules \subseteq Kernels \X Modules
  BY DEF Targets
<1>2. \A k \in t.kernels : /\ Version[Source(k)] \in Nat \ {0}
                            /\ Source(k)[1] \in Repos
  BY <1>1, SourceOffers, RowParts, OfferAssumption
<1>3. /\ db.version \in [Kernels -> Nat]
      /\ db.from \in [Kernels -> Repos \cup {Unknown}]
      /\ db.modules \in SUBSET (Kernels \X Modules)
      /\ db.dkms \in BOOLEAN
      /\ \A k \in Kernels : db.version[k] = 0 => db.from[k] = Unknown
  BY DEF Local
<1> DEFINE v == [k \in Kernels |-> IF k \in t.kernels
                                     THEN Version[Source(k)] ELSE db.version[k]]
           f == [k \in Kernels |-> IF /\ k \in t.kernels
                                      /\ db.version[k] # Version[Source(k)]
                                     THEN Source(k)[1] ELSE db.from[k]]
<1>4. v \in [Kernels -> Nat] /\ f \in [Kernels -> Repos \cup {Unknown}]
  BY <1>2, <1>3
<1>5. \A k \in Kernels : v[k] = 0 => f[k] = Unknown
  BY <1>2, <1>3
<1>6. e = [version |-> v, from |-> f, modules |-> db.modules \cup t.modules,
           dkms |-> db.dkms]
  <2>1. db \in [version : [Kernels -> Nat], from : [Kernels -> Repos \cup {Unknown}],
                modules : SUBSET (Kernels \X Modules), dkms : BOOLEAN]
    BY DEF Local
  <2>2. e = [db EXCEPT !.version = v, !.from = f, !.modules = db.modules \cup t.modules]
    BY DEF InstallEffect
  <2> HIDE DEF v, f, e
  <2> QED
    BY <2>1, <2>2
<1>7. e \in Local
  <2> HIDE DEF v, f, e
  <2> QED
    BY <1>1, <1>3, <1>4, <1>5, <1>6 DEF Local
<1>8. \A k \in t.kernels : k \in Kernels
  BY <1>1, RowParts DEF Offered
<1>9. \A k \in Kernels : Present(e, k) <=> v[k] # 0
  <2> HIDE DEF v, f
  <2> QED
    BY <1>6 DEF Present
<1> HIDE DEF e
<1>10. \A k \in t.kernels : Present(e, k)
  BY <1>2, <1>8, <1>9
<1>11. \A k \in Kernels : Present(db, k) => Present(e, k)
  BY <1>2, <1>9 DEF Present
<1>12. db.modules \subseteq e.modules
  BY <1>6
<1> QED
  BY <1>7, <1>10, <1>11, <1>12 DEF e

LEMMA RemoveTyped ==
    ASSUME NEW db \in Local, NEW t \in Targets
    PROVE  /\ RemoveEffect(db, t) \in Local
           /\ \A k \in t.kernels : ~Present(RemoveEffect(db, t), k)
<1> DEFINE v == [k \in Kernels |-> IF k \in t.kernels THEN 0 ELSE db.version[k]]
           f == [k \in Kernels |-> IF k \in t.kernels THEN Unknown ELSE db.from[k]]
           e == RemoveEffect(db, t)
<1>1. t.kernels \subseteq Kernels
  BY RowParts DEF Targets, Offered
<1>2. /\ v \in [Kernels -> Nat]
      /\ f \in [Kernels -> Repos \cup {Unknown}]
      /\ \A k \in Kernels : v[k] = 0 => f[k] = Unknown
  BY DEF Local
<1>3. e = [version |-> v, from |-> f, modules |-> db.modules \ t.modules,
           dkms |-> db.dkms]
  <2>1. db \in [version : [Kernels -> Nat], from : [Kernels -> Repos \cup {Unknown}],
                modules : SUBSET (Kernels \X Modules), dkms : BOOLEAN]
    BY DEF Local
  <2>2. e = [db EXCEPT !.version = v, !.from = f, !.modules = db.modules \ t.modules]
    BY DEF RemoveEffect
  <2> HIDE DEF v, f, e
  <2> QED
    BY <2>1, <2>2
<1>4. /\ db.modules \in SUBSET (Kernels \X Modules)
      /\ db.dkms \in BOOLEAN
  BY DEF Local
<1>5. e \in Local
  <2> HIDE DEF v, f, e
  <2> QED
    BY <1>2, <1>3, <1>4 DEF Local
<1>6. \A k \in t.kernels : e.version[k] = 0
  BY <1>1, <1>3
<1> QED
  BY <1>5, <1>6 DEF Present
-------------------------------------------------------------------------------
(* The list as it is filled asks for nothing: Execute is not enabled       *)
(* before the user has changed a box.                                      *)
THEOREM DefaultsChangeNothing ==
    ASSUME NEW db \in Local, NEW shown \in SUBSET Catalog
    PROVE  ChangeList(shown, db, DefaultChecks(db)) = {}
BY DEF ChangeList, DefaultChecks

(* The install and the removal phase share exactly the changed rows that   *)
(* have an update: such a kernel is upgraded, and then removed.            *)
THEOREM SharedAreUpgraded ==
    ASSUME NEW db \in Local, NEW shown \in SUBSET Catalog, NEW ticked \in SUBSET Catalog
    PROVE  InstallSet(shown, db, ticked) \cap RemovalSet(shown, db, ticked)
             = {r \in ChangeList(shown, db, ticked) : UpdateAvailable(db, r)}
BY DEF InstallSet, RemovalSet, UpdateAvailable

(* A kernel gets at most one NVIDIA driver, and none beside a dkms one.    *)
THEOREM OneDriver ==
    ASSUME NEW r \in Catalog, NEW facts \in Found
    PROVE  /\ \A m, n \in Drivers(r, facts) : m = n
           /\ facts.dkms => Drivers(r, facts) = {}
           /\ Drivers(r, facts) \subseteq Companions[r]
BY DEF Drivers, ReusesOpen, ReusesNvidia

(* Nothing is planned for a kernel none of whose rows was changed: neither *)
(* for the kernel, nor for what accompanies it.                            *)
Concerns(t, k) == k \in t.kernels \/ \E m \in Modules : <<k, m>> \in t.modules

THEOREM PlanConcernsChanged ==
    ASSUME NEW db, NEW shown \in SUBSET Catalog,
           NEW ticked, NEW facts \in Found,
           NEW k \in Kernels, NEW c \in {"install", "remove"},
           Concerns(FromSelection(shown, db, ticked, facts)[c], k)
    PROVE  \E r \in ChangeList(shown, db, ticked) : r[2] = k
<1> DEFINE I == InstallSet(shown, db, ticked)
           R == RemovalSet(shown, db, ticked)
           L == ChangeList(shown, db, ticked)
           p == FromSelection(shown, db, ticked, facts)
<1>1. I \subseteq L /\ R \subseteq L /\ L \subseteq Catalog
  BY DEF InstallSet, RemovalSet, ChangeList
<1>2. \A r \in Catalog : /\ ExpandInstall(r, facts) \subseteq {r[2]} \X Modules
                          /\ ExpandRemove(r, facts) \subseteq {r[2]} \X Modules
  BY ExpansionTyped
<1>3. CASE c = "install"
  <2>1. /\ p[c].kernels = {r[2] : r \in I}
        /\ p[c].modules = UNION {ExpandInstall(r, facts) : r \in I}
    BY <1>3 DEF FromSelection
  <2> HIDE DEF I, R, L, p
  <2>2. (\E m \in Modules : <<k, m>> \in p[c].modules) => \E r \in I : r[2] = k
    BY <1>1, <1>2, <2>1
  <2> QED
    BY <1>1, <2>1, <2>2 DEF Concerns, p, L
<1>4. CASE c = "remove"
  <2>1. /\ p[c].kernels = {r[2] : r \in R}
        /\ p[c].modules = UNION {ExpandRemove(r, facts) : r \in R}
    BY <1>4 DEF FromSelection
  <2> HIDE DEF I, R, L, p
  <2>2. (\E m \in Modules : <<k, m>> \in p[c].modules) => \E r \in R : r[2] = k
    BY <1>1, <1>2, <2>1
  <2> QED
    BY <1>1, <2>1, <2>2 DEF Concerns, p, L
<1> QED
  BY <1>3, <1>4

(* What is to be removed was there: the kernels in the database that the   *)
(* rows are from, the companions in the one that the worker has read.      *)
THEOREM RemovalWasFound ==
    ASSUME NEW db, NEW shown \in SUBSET Catalog,
           NEW ticked, NEW facts \in Found
    PROVE  LET t == FromSelection(shown, db, ticked, facts).remove
           IN  /\ t.modules \subseteq facts.modules
               /\ \A k \in t.kernels : Present(db, k)
<1> DEFINE R == RemovalSet(shown, db, ticked)
           t == FromSelection(shown, db, ticked, facts).remove
<1>1. /\ t.kernels = {r[2] : r \in R}
      /\ t.modules = UNION {ExpandRemove(r, facts) : r \in R}
  BY DEF FromSelection
<1>2. \A r \in R : Present(db, r[2])
  BY DEF RemovalSet, Installed
<1>3. \A r \in R : ExpandRemove(r, facts) \subseteq facts.modules
  BY DEF ExpandRemove
<1> HIDE DEF R, t
<1>4. t.modules \subseteq facts.modules /\ \A k \in t.kernels : Present(db, k)
  BY <1>1, <1>2, <1>3
<1> QED
  BY <1>4 DEF t
-------------------------------------------------------------------------------
(* pacman leaves alone what it is not asked about.                         *)
LEMMA InstallElsewhere ==
    ASSUME NEW db \in Local, NEW t \in Targets, NEW k \in Kernels, ~Concerns(t, k)
    PROVE  LET e == InstallEffect(db, t)
           IN  /\ e.version[k] = db.version[k]
               /\ \A m \in Modules : <<k, m>> \in e.modules <=> <<k, m>> \in db.modules
BY DEF InstallEffect, Concerns, Local

LEMMA RemoveElsewhere ==
    ASSUME NEW db \in Local, NEW t \in Targets, NEW k \in Kernels, ~Concerns(t, k)
    PROVE  LET e == RemoveEffect(db, t)
           IN  /\ e.version[k] = db.version[k]
               /\ \A m \in Modules : <<k, m>> \in e.modules <=> <<k, m>> \in db.modules
BY DEF RemoveEffect, Concerns, Local
-------------------------------------------------------------------------------
(* No transaction is at work while the list is read, and none starts from  *)
(* a list that is about to be replaced.                                    *)
Order ==
    /\ pc # "none" => /\ discovery = "none"
                      /\ transaction \in {"Planning", "Running"}
                      /\ catalog = "Loaded"
                      /\ rows = Catalog
    /\ discovery # "none" => rows = {} \/ catalog = "RefreshPending"
    /\ rows = Catalog => catalog # "Unloaded"
    /\ pc \notin {"run", "report"} => ~did
    /\ verdict # "none" => pc = "report"

(* What has been read is no newer than the machine, and is the machine if  *)
(* nothing has changed since.                                              *)
Readings ==
    /\ seen <= outside
    /\ foundAt <= outside
    /\ discovery = "found" /\ foundAt = outside => found = local

(* While the commands run: the plan concerns only what was requested; the  *)
(* removal still finds its targets; and whatever a command has changed is  *)
(* there for the check to see.                                             *)
Concerned ==
    pc = "run" => \A c \in {"install", "remove"}, k \in Kernels :
                     Concerns(plan[c], k) => \E r \in Requested : r[2] = k
Removable ==
    Undisturbed /\ pc = "run" /\ "remove" \in todo => RemovePossible(local, plan.remove)
Visible ==
    Undisturbed /\ pc = "run" /\ did => Changed(local, plan)
Planned == pc = "run" => todo \subseteq Commands(plan)

(* The inductive invariant.  That the check misses no change needs what    *)
(* the plan was made from, and that needs the list to be the machine when  *)
(* Execute is pressed; which in turn holds only because the check misses   *)
(* no change: the two go through the induction together.                   *)
IInv ==
    /\ TypeOK
    /\ Order
    /\ Readings
    /\ RowsAreMachine
    /\ NoMissedChange
    /\ Planned
    /\ Concerned
    /\ Removable
    /\ Visible
-------------------------------------------------------------------------------
LEMMA NothingIsPlan == NothingPlanned \in Plans
BY DEF NothingPlanned, Plans, Targets

LEMMA FactsTyped ==
    ASSUME NEW db \in Local, families \in Families
    PROVE  Facts(db) \in Found
BY DEF Facts, Found, Families, Local

LEMMA NoFamiliesTyped == NoFamilies \in Families
BY DEF NoFamilies, Families

LEMMA IdleTyped == IdleWorker => WorkTypes'
<1> SUFFICES ASSUME IdleWorker PROVE WorkTypes'
  OBVIOUS
<1>1. did' \in BOOLEAN /\ clean' \in BOOLEAN
  BY DEF IdleWorker
<1> QED
  BY <1>1, NothingIsPlan, NoFamiliesTyped DEF IdleWorker, WorkTypes

LEMMA DefaultsTyped == ASSUME NEW db PROVE DefaultChecks(db) \subseteq Catalog
BY DEF DefaultChecks

LEMMA TypeInit == Init => TypeOK
<1> SUFFICES ASSUME Init PROVE TypeOK
  OBVIOUS
<1>1. local \in Local
  BY StartAssumption DEF Init
<1>2. MachineTypes /\ FlowTypes /\ ListTypes /\ ReadingTypes
  BY <1>1 DEF Init, MachineTypes, FlowTypes, ListTypes, ReadingTypes
<1>3. WorkTypes
  BY NothingIsPlan DEF Init, WorkTypes, Families, NoFamilies
<1>4. lapsed \in BOOLEAN
  BY DEF Init
<1> QED
  BY <1>2, <1>3, <1>4 DEF TypeOK

LEMMA TypeNext == TypeOK /\ [Next]_vars => TypeOK'
<1> SUFFICES ASSUME TypeOK, [Next]_vars PROVE TypeOK'
  OBVIOUS
<1> USE DEF TypeOK
<1>1. ASSUME NEW r \in Catalog, KernelToggled(r) PROVE TypeOK'
  <2>1. checked' \subseteq Catalog
    BY <1>1 DEF KernelToggled, ListTypes
  <2> QED
    BY <1>1, <2>1 DEF KernelToggled, MachineTypes, FlowTypes, ListTypes,
      ReadingTypes, WorkTypes, machine, flows, reading, work
<1>2. CASE ExecuteRequested
  BY <1>2 DEF ExecuteRequested, MachineTypes, FlowTypes, ListTypes,
    ReadingTypes, WorkTypes, machine, list, reading
<1>3. CASE TransactionStarted
  BY <1>3 DEF TransactionStarted, MachineTypes, FlowTypes, ListTypes,
    ReadingTypes, WorkTypes, machine, list, reading, work
<1>4. CASE TransactionChanged
  BY <1>4, IdleTyped DEF TransactionChanged, MachineTypes, FlowTypes, ListTypes,
    ReadingTypes, machine, list
<1>5. CASE TransactionUnchanged
  BY <1>5, IdleTyped DEF TransactionUnchanged, MachineTypes, FlowTypes, ListTypes,
    ReadingTypes, machine, list, reading
<1>6. CASE TransactionFailed
  <2>1. lapsed' \in BOOLEAN
    BY <1>6 DEF TransactionFailed, WorkTypes
  <2> QED
    BY <1>6, <2>1, IdleTyped DEF TransactionFailed, MachineTypes, FlowTypes,
      ListTypes, ReadingTypes, machine, list, reading
<1>7. CASE DialogDismissed
  BY <1>7 DEF DialogDismissed, MachineTypes, FlowTypes, ListTypes,
    ReadingTypes, WorkTypes, machine, list, reading, work
<1>8. CASE CatalogLoaded
  BY <1>8, DefaultsTyped DEF CatalogLoaded, DiscoveryFinished, MachineTypes,
    FlowTypes, ListTypes, ReadingTypes, WorkTypes, machine, work
<1>9. CASE DiscoveryFailed
  BY <1>9 DEF DiscoveryFailed, DiscoveryFinished, MachineTypes,
    FlowTypes, ListTypes, ReadingTypes, WorkTypes, machine, work
<1>10. CASE Discover
  BY <1>10 DEF Discover, MachineTypes, FlowTypes, ListTypes, ReadingTypes,
    WorkTypes, machine, flows, list, work
<1>11. CASE Probe
  <2>1. PICK a \in BOOLEAN, b \in BOOLEAN : families' = [nvidia |-> a, open |-> b]
    BY <1>11 DEF Probe, FamilyInstalled
  <2>2. families' \in Families
    BY <2>1 DEF Families
  <2> QED
    BY <1>11, <2>2 DEF Probe, MachineTypes, FlowTypes, ListTypes, ReadingTypes,
      WorkTypes, machine, flows, list, reading
<1>12. CASE PlanCommands
  <2>1. PICK db \in {local, snapshot} :
          plan' = FromSelection(rows, snapshot, chosen, Facts(db))
    BY <1>12 DEF PlanCommands
  <2>2. plan' \in Plans
    BY <2>1, FactsTyped, PlanTyped DEF MachineTypes, ListTypes, WorkTypes
  <2>3. todo' \subseteq {"install", "remove"} /\ families' \in Families
    BY <1>12 DEF PlanCommands, Commands, NoFamilies, Families
  <2> QED
    BY <1>12, <2>2, <2>3 DEF PlanCommands, MachineTypes, FlowTypes, ListTypes,
      ReadingTypes, WorkTypes, machine, flows, list, reading
<1>13. ASSUME NEW c, NEW effect \in Local, NEW possible \in BOOLEAN,
              Ran(c, effect, possible)
       PROVE  TypeOK'
  <2>1. local' \in Local /\ did' \in BOOLEAN /\ clean' \in BOOLEAN
    BY <1>13 DEF Ran, MachineTypes, WorkTypes
  <2>2. WorkTypes'
    BY <1>13, <2>1 DEF Ran, WorkTypes
  <2>3. /\ todo' = todo \ {c}
        /\ UNCHANGED <<outside, flows, list, reading, lapsed>>
    BY <1>13 DEF Ran
  <2> QED
    BY <2>1, <2>2, <2>3 DEF MachineTypes, FlowTypes, ListTypes, ReadingTypes,
      flows, list, reading
<1>14. CASE RunInstall
  BY <1>13, <1>14, InstallTyped DEF RunInstall, MachineTypes, WorkTypes, Plans
<1>15. CASE RunRemove
  <2>1. RemovePossible(local, plan.remove) \in BOOLEAN
    BY DEF RemovePossible
  <2> QED
    BY <1>13, <1>15, <2>1, RemoveTyped DEF RunRemove, MachineTypes, WorkTypes, Plans
<1>16. ASSUME NEW v \in {"changed", "unchanged", "failed"}, Report(v)
       PROVE  TypeOK'
  BY <1>16, NothingIsPlan DEF Report, MachineTypes, FlowTypes, ListTypes,
    ReadingTypes, WorkTypes, machine, flows, list, reading, NoFamilies, Families
<1>17. CASE CheckChange
  BY <1>16, <1>17 DEF CheckChange
<1>18. CASE WorkerPanics
  BY <1>16, <1>18 DEF WorkerPanics
<1>19. CASE Outside
  BY <1>19, StartAssumption DEF Outside, MachineTypes, FlowTypes, ListTypes,
    ReadingTypes, WorkTypes, flows, list, reading, work
<1>20. CASE CloseRequested
  BY <1>20, IdleTyped DEF CloseRequested, MachineTypes, FlowTypes, ListTypes,
    ReadingTypes, machine
<1>21. CASE UNCHANGED vars
  BY <1>21 DEF vars, MachineTypes, FlowTypes, ListTypes, ReadingTypes, WorkTypes,
    machine, flows, list, reading, work
<1> QED
  BY <1>1, <1>2, <1>3, <1>4, <1>5, <1>6, <1>7, <1>8, <1>9, <1>10, <1>11, <1>12,
     <1>14, <1>15, <1>17, <1>18, <1>19, <1>20, <1>21 DEF Next

(* Whatever fails and whatever others do, every variable stays of its type;*)
(* a kernel that is not installed comes from nowhere.                      *)
THEOREM TypeCorrect == Spec => []TypeOK
BY TypeInit, TypeNext, PTL DEF Spec
-------------------------------------------------------------------------------
(* The groups of actions that the other conjuncts tell apart.              *)
Quiet ==
    \/ \E r \in Catalog : KernelToggled(r)
    \/ ExecuteRequested
    \/ TransactionStarted
    \/ DialogDismissed
    \/ Probe
Outcomes == TransactionChanged \/ TransactionUnchanged \/ TransactionFailed
Refreshes == CatalogLoaded \/ DiscoveryFailed
Reports == CheckChange \/ WorkerPanics
Runs == RunInstall \/ RunRemove

LEMMA NextCases ==
    [Next]_vars => \/ Quiet \/ Outcomes \/ Refreshes \/ Reports \/ Runs
                   \/ Discover \/ PlanCommands \/ Outside \/ CloseRequested
                   \/ UNCHANGED vars
BY DEF Next, Quiet, Outcomes, Refreshes, Reports, Runs

LEMMA OrderNext == TypeOK /\ Order /\ [Next]_vars => Order'
<1> SUFFICES ASSUME TypeOK, Order, [Next]_vars PROVE Order'
  OBVIOUS
<1> USE DEF Order
<1>1. CASE Quiet
  <2>1. ASSUME NEW r \in Catalog, KernelToggled(r) PROVE Order'
    BY <2>1 DEF KernelToggled, flows, reading, work
  <2>2. CASE ExecuteRequested
    <3>1. rows = Catalog
      BY <2>2, CatalogAssumption DEF ExecuteRequested, ChangeList, TypeOK, ListTypes
    <3> QED
      BY <2>2, <3>1, CatalogAssumption
      DEF ExecuteRequested, TypeOK, FlowTypes, machine, list, reading
  <2>3. CASE TransactionStarted
    BY <2>3 DEF TransactionStarted, list, reading, work
  <2>4. CASE DialogDismissed
    BY <2>4 DEF DialogDismissed, list, reading, work
  <2>5. CASE Probe
    BY <2>5 DEF Probe, flows, list, reading
  <2> QED
    BY <1>1, <2>1, <2>2, <2>3, <2>4, <2>5 DEF Quiet
<1>2. CASE Outcomes
  BY <1>2 DEF Outcomes, Outcome, TransactionChanged, TransactionUnchanged,
    TransactionFailed, IdleWorker, list, reading
<1>3. CASE Refreshes
  BY <1>3, CatalogAssumption
  DEF Refreshes, CatalogLoaded, DiscoveryFailed, DiscoveryFinished, machine, work
<1>4. CASE Reports
  BY <1>4 DEF Reports, CheckChange, WorkerPanics, Report, flows, list, reading
<1>5. CASE Runs
  BY <1>5 DEF Runs, RunInstall, RunRemove, Ran, flows, list, reading
<1>6. CASE Discover
  BY <1>6 DEF Discover, flows, list, work
<1>7. CASE PlanCommands
  BY <1>7 DEF PlanCommands, flows, list, reading
<1>8. CASE Outside
  BY <1>8 DEF Outside, flows, list, reading, work
<1>9. CASE CloseRequested
  BY <1>9, CatalogAssumption DEF CloseRequested, IdleWorker
<1>10. CASE UNCHANGED vars
  BY <1>10 DEF vars, flows, list, reading, work
<1> QED
  BY <1>1, <1>2, <1>3, <1>4, <1>5, <1>6, <1>7, <1>8, <1>9, <1>10, NextCases

LEMMA ReadingsNext == TypeOK /\ Order /\ Readings /\ [Next]_vars => Readings'
<1> SUFFICES ASSUME TypeOK, Order, Readings, [Next]_vars PROVE Readings'
  OBVIOUS
<1>0. seen \in Nat /\ foundAt \in Nat /\ outside \in Nat
  BY DEF TypeOK, MachineTypes, ListTypes, ReadingTypes
<1> USE DEF Readings
<1>1. CASE Quiet
  BY <1>1 DEF Quiet, KernelToggled, ExecuteRequested, TransactionStarted,
    DialogDismissed, Probe, machine, list, reading
<1>2. CASE Outcomes
  BY <1>2 DEF Outcomes, TransactionChanged, TransactionUnchanged, TransactionFailed,
    machine, list, reading
<1>3. CASE Refreshes
  BY <1>3 DEF Refreshes, CatalogLoaded, DiscoveryFailed, DiscoveryFinished, machine
<1>4. CASE Reports
  BY <1>4 DEF Reports, CheckChange, WorkerPanics, Report, machine, list, reading
<1>5. CASE Runs
  BY <1>5 DEF Order, Runs, RunInstall, RunRemove, Ran, list, reading
<1>6. CASE Discover
  BY <1>0, <1>6 DEF Discover, machine, list
<1>7. CASE PlanCommands
  BY <1>7 DEF PlanCommands, machine, list, reading
<1>8. CASE Outside
  BY <1>0, <1>8 DEF Outside, list, reading
<1>9. CASE CloseRequested
  BY <1>0, <1>9 DEF CloseRequested, machine
<1>10. CASE UNCHANGED vars
  BY <1>10 DEF vars, machine, list, reading
<1> QED
  BY <1>1, <1>2, <1>3, <1>4, <1>5, <1>6, <1>7, <1>8, <1>9, <1>10, NextCases

(* The list is the machine: see IInv for what its steps rest on.           *)
LEMMA RowsNext == IInv /\ [Next]_vars => RowsAreMachine'
<1> SUFFICES ASSUME IInv, [Next]_vars PROVE RowsAreMachine'
  OBVIOUS
<1>0. seen \in Nat /\ foundAt \in Nat /\ outside \in Nat
  BY DEF IInv, TypeOK, MachineTypes, ListTypes, ReadingTypes
<1>a. RowsAreMachine /\ Order /\ Readings /\ NoMissedChange
  BY DEF IInv
<1> USE DEF RowsAreMachine, Undisturbed
<1>1. CASE Quiet
  BY <1>a, <1>1 DEF Quiet, KernelToggled, ExecuteRequested, TransactionStarted,
    DialogDismissed, Probe, machine, list, flows, work
<1>2. CASE TransactionChanged
  BY <1>2 DEF TransactionChanged
<1>3. CASE TransactionUnchanged
  BY <1>a, <1>3 DEF TransactionUnchanged, Outcome, NoMissedChange, Order, machine, list
<1>4. CASE TransactionFailed
  BY <1>a, <1>4 DEF TransactionFailed, machine, list
<1>5. CASE CatalogLoaded
  BY <1>a, <1>5 DEF CatalogLoaded, DiscoveryFinished, Readings, machine
<1>6. CASE DiscoveryFailed
  BY <1>6 DEF DiscoveryFailed
<1>7. CASE Reports
  BY <1>a, <1>7 DEF Reports, CheckChange, WorkerPanics, Report, machine, flows, list
<1>8. CASE Runs
  <2>1. \/ UNCHANGED <<local, did>>
        \/ did' = (did \/ local' # local)
    BY <1>8 DEF Runs, RunInstall, RunRemove, Ran
  <2>2. UNCHANGED <<outside, flows, list, lapsed>>
    BY <1>8 DEF Runs, RunInstall, RunRemove, Ran
  <2> QED
    BY <1>a, <2>1, <2>2 DEF flows, list
<1>9. CASE Discover
  BY <1>a, <1>9 DEF Discover, machine, flows, list, work
<1>10. CASE PlanCommands
  BY <1>a, <1>10 DEF PlanCommands, machine, flows, list
<1>11. CASE Outside
  BY <1>0, <1>a, <1>11 DEF Outside, Readings, list
<1>12. CASE CloseRequested
  BY <1>12 DEF CloseRequested
<1>13. CASE UNCHANGED vars
  BY <1>a, <1>13 DEF vars, machine, flows, list, work
<1> QED
  BY <1>1, <1>2, <1>3, <1>4, <1>5, <1>6, <1>7, <1>8, <1>9, <1>10, <1>11, <1>12,
     <1>13, NextCases DEF Outcomes, Refreshes

(* The check misses no change, since every change is there to see.         *)
LEMMA MissedNext == IInv /\ [Next]_vars => NoMissedChange'
<1> SUFFICES ASSUME IInv, [Next]_vars PROVE NoMissedChange'
  OBVIOUS
<1>0. seen \in Nat /\ outside \in Nat
  BY DEF IInv, TypeOK, MachineTypes, ListTypes
<1>a. NoMissedChange /\ Order /\ Readings /\ Visible
  BY DEF IInv
<1> USE DEF NoMissedChange, Undisturbed
<1>1. CASE Quiet
  BY <1>a, <1>1 DEF Quiet, KernelToggled, ExecuteRequested, TransactionStarted,
    DialogDismissed, Probe, machine, list, work
<1>2. CASE Outcomes
  BY <1>2 DEF Outcomes, TransactionChanged, TransactionUnchanged, TransactionFailed,
    IdleWorker
<1>3. CASE Refreshes
  <2>1. verdict = "none"
    BY <1>a, <1>3 DEF Order, Refreshes, CatalogLoaded, DiscoveryFailed
  <2> QED
    BY <1>3, <2>1
    DEF Refreshes, CatalogLoaded, DiscoveryFailed, DiscoveryFinished, work
<1>4. CASE CheckChange
  <2>1. CASE Report(IF Changed(local, plan) THEN "changed" ELSE "unchanged")
    BY <1>a, <1>4, <2>1 DEF CheckChange, Report, Visible, machine, list
  <2>2. CASE Report("failed")
    BY <2>2 DEF Report
  <2> QED
    BY <1>4, <2>1, <2>2 DEF CheckChange
<1>5. CASE WorkerPanics
  BY <1>5 DEF WorkerPanics, Report
<1>6. CASE Runs
  <2>1. verdict = "none" /\ verdict' = verdict
    BY <1>a, <1>6 DEF Order, Runs, RunInstall, RunRemove, Ran
  <2> QED
    BY <2>1
<1>7. CASE Discover
  BY <1>a, <1>7 DEF Discover, machine, list, work
<1>8. CASE PlanCommands
  BY <1>a, <1>8 DEF PlanCommands, machine, list
<1>9. CASE Outside
  BY <1>0, <1>a, <1>9 DEF Outside, Readings, list, work
<1>10. CASE CloseRequested
  BY <1>10 DEF CloseRequested, IdleWorker
<1>11. CASE UNCHANGED vars
  BY <1>a, <1>11 DEF vars, machine, list, work
<1> QED
  BY <1>1, <1>2, <1>3, <1>4, <1>5, <1>6, <1>7, <1>8, <1>9, <1>10, <1>11, NextCases
  DEF Reports
-------------------------------------------------------------------------------
(* The conjuncts about the commands, which only the worker's steps and the *)
(* changes by others can touch.                                            *)
InRun == Planned /\ Concerned /\ Removable /\ Visible

(* Steps that leave the run, or are not of it.                             *)
LEMMA RunUntouched ==
    ASSUME IInv, pc' # "run" \/ UNCHANGED <<machine, rows, snapshot, seen, work, lapsed>>
    PROVE  InRun'
<1>1. CASE pc' # "run"
  BY <1>1 DEF InRun, Planned, Concerned, Removable, Visible
<1>2. CASE UNCHANGED <<machine, rows, snapshot, seen, work, lapsed>>
  BY <1>2 DEF IInv, InRun, Planned, Concerned, Removable, Visible, Undisturbed,
    Requested, machine, work
<1> QED
  BY <1>1, <1>2

LEMMA PlanStarts == IInv /\ PlanCommands => InRun'
<1> SUFFICES ASSUME IInv, PlanCommands PROVE InRun'
  OBVIOUS
<1>0. /\ local \in Local /\ snapshot \in Local
      /\ rows \subseteq Catalog /\ chosen \subseteq Catalog
      /\ families \in Families
  BY DEF IInv, TypeOK, MachineTypes, ListTypes, WorkTypes
<1>1. PICK db \in {local, snapshot} :
        plan' = FromSelection(rows, snapshot, chosen, Facts(db))
  BY DEF PlanCommands
<1>2. Facts(db) \in Found
  BY <1>0, FactsTyped
<1>3. Planned'
  BY DEF PlanCommands, Planned
<1>4. UNCHANGED <<machine, rows, snapshot, seen, chosen, did, lapsed>>
  BY DEF PlanCommands, list
<1>5. Concerned'
  <2>1. SUFFICES ASSUME NEW c \in {"install", "remove"}, NEW k \in Kernels,
                        Concerns(plan'[c], k)
                 PROVE  \E r \in Requested' : r[2] = k
    BY DEF Concerned, Concerns
  <2>2. \E r \in ChangeList(rows, snapshot, chosen) : r[2] = k
    BY <1>0, <1>1, <1>2, <2>1, PlanConcernsChanged
  <2>3. Requested' = ChangeList(rows, snapshot, chosen)
    BY <1>4 DEF Requested
  <2> QED
    BY <2>2, <2>3
<1>6. ~did
  BY DEF IInv, Order, PlanCommands
<1>7. Visible'
  BY <1>4, <1>6 DEF Visible
<1>8. Removable'
  <2>1. SUFFICES ASSUME Undisturbed PROVE RemovePossible(local, plan'.remove)
    BY <1>4 DEF Removable, Undisturbed, machine, RemovePossible
  <2>2. snapshot = local
    BY <1>6, <2>1, CatalogAssumption DEF IInv, Order, RowsAreMachine, PlanCommands
  <2>3. Facts(db).modules = local.modules
    BY <2>2 DEF Facts
  <2>4. /\ plan'.remove.modules \subseteq local.modules
        /\ \A k \in plan'.remove.kernels : Present(local, k)
    BY <1>0, <1>1, <1>2, <2>2, <2>3, RemovalWasFound
  <2> QED
    BY <2>4 DEF RemovePossible
<1> QED
  BY <1>3, <1>5, <1>7, <1>8 DEF InRun

(* A command keeps the plan; it matters what it has changed, and that the  *)
(* removal, if it is still to come, finds its targets.                     *)
LEMMA RunsOn ==
    ASSUME IInv, NEW c, pc = "run", pc' = "run", todo' = todo \ {c},
           UNCHANGED <<outside, flows, list, reading, chosen, plan, lapsed>>,
           "remove" \in todo' /\ Undisturbed => RemovePossible(local', plan.remove),
           did' /\ Undisturbed => Changed(local', plan)
    PROVE  InRun'
<1>1. Planned'
  BY DEF IInv, Planned
<1>2. Concerned'
  BY DEF IInv, Concerned, Requested, list
<1>3. Undisturbed' <=> Undisturbed
  BY DEF Undisturbed, list
<1>4. Removable'
  BY <1>3 DEF Removable, RemovePossible
<1>5. Visible'
  BY <1>3 DEF Visible, Changed
<1> QED
  BY <1>1, <1>2, <1>4, <1>5 DEF InRun

LEMMA RunsKeep == IInv /\ Runs => InRun'
<1> SUFFICES ASSUME IInv, Runs PROVE InRun'
  OBVIOUS
<1>0. /\ local \in Local
      /\ plan.install \in Targets /\ plan.remove \in Targets
  BY DEF IInv, TypeOK, MachineTypes, WorkTypes, Plans
<1>1. ASSUME NEW c, NEW effect, NEW possible, Ran(c, effect, possible)
      PROVE  /\ pc = "run" /\ pc' = "run" /\ todo' = todo \ {c}
             /\ UNCHANGED <<outside, flows, list, reading, chosen, plan, lapsed>>
             /\ local' = effect \/ UNCHANGED <<local, did>>
  BY <1>1 DEF Ran
<1>2. ASSUME UNCHANGED <<local, did>>, Undisturbed, pc = "run"
      PROVE  /\ "remove" \in todo => RemovePossible(local', plan.remove)
             /\ did' => Changed(local', plan)
  <2>1. /\ "remove" \in todo => RemovePossible(local, plan.remove)
        /\ did => Changed(local, plan)
    BY <1>2 DEF IInv, Removable, Visible
  <2> QED
    BY <1>2, <2>1
<1>3. CASE RunInstall
  <2>1. Ran("install", InstallEffect(local, plan.install), TRUE)
    BY <1>3 DEF RunInstall
  <2>2. pc = "run" /\ "install" \in Commands(plan)
    BY <1>3, <2>1 DEF RunInstall, Ran, IInv, Planned
  <2>3. PICK k \in plan.install.kernels : TRUE
    BY <2>2 DEF Commands
  <2>4. ASSUME local' = InstallEffect(local, plan.install)
        PROVE  Changed(local', plan)
    BY <1>0, <2>3, <2>4, InstallTyped DEF Changed
  <2>5. ASSUME local' = InstallEffect(local, plan.install), RemovePossible(local, plan.remove)
        PROVE  RemovePossible(local', plan.remove)
    <3>1. plan.remove.kernels \subseteq Kernels
      BY <1>0, RowParts DEF Targets, Offered
    <3> QED
      BY <1>0, <2>5, <3>1, InstallTyped DEF RemovePossible
  <2>6. "remove" \in todo' /\ Undisturbed => RemovePossible(local', plan.remove)
    <3>1. SUFFICES ASSUME "remove" \in todo, Undisturbed
                   PROVE  RemovePossible(local', plan.remove)
      BY <1>1, <2>1
    <3>2. RemovePossible(local, plan.remove)
      BY <2>2, <3>1 DEF IInv, Removable
    <3> QED
      BY <1>1, <1>2, <2>1, <2>2, <2>5, <3>1, <3>2
  <2>7. did' /\ Undisturbed => Changed(local', plan)
    BY <1>1, <1>2, <2>1, <2>2, <2>4
  <2> QED
    BY <1>1, <2>1, <2>6, <2>7, RunsOn
<1>4. CASE RunRemove
  <2>1. Ran("remove", RemoveEffect(local, plan.remove),
            RemovePossible(local, plan.remove))
    BY <1>4 DEF RunRemove
  <2>2. pc = "run" /\ "remove" \in Commands(plan)
    BY <1>4, <2>1 DEF RunRemove, Ran, IInv, Planned
  <2>3. PICK k \in plan.remove.kernels : TRUE
    BY <2>2 DEF Commands
  <2>4. ASSUME local' = RemoveEffect(local, plan.remove)
        PROVE  Changed(local', plan)
    BY <1>0, <2>3, <2>4, RemoveTyped DEF Changed
  <2>5. "remove" \notin todo'
    BY <1>1, <2>1
  <2>6. did' /\ Undisturbed => Changed(local', plan)
    BY <1>1, <1>2, <2>1, <2>2, <2>4
  <2> QED
    BY <1>1, <2>1, <2>5, <2>6, RunsOn
<1> QED
  BY <1>3, <1>4 DEF Runs

LEMMA OutsideKeeps == IInv /\ Outside => InRun'
<1> SUFFICES ASSUME IInv, Outside PROVE InRun'
  OBVIOUS
<1>1. ~Undisturbed'
  BY DEF IInv, Readings, TypeOK, MachineTypes, ListTypes, Undisturbed, Outside, list
<1>2. Planned'
  BY DEF IInv, Planned, Outside, work
<1>3. Concerned'
  BY DEF IInv, Concerned, Requested, Outside, list, work
<1> QED
  BY <1>1, <1>2, <1>3 DEF InRun, Removable, Visible

LEMMA InRunNext == IInv /\ [Next]_vars => InRun'
<1> SUFFICES ASSUME IInv, [Next]_vars PROVE InRun'
  OBVIOUS
<1>1. CASE Quiet
  <2>1. \/ pc' # "run"
        \/ UNCHANGED <<machine, rows, snapshot, seen, work, lapsed>>
    BY <1>1 DEF Quiet, KernelToggled, ExecuteRequested, TransactionStarted,
      DialogDismissed, Probe, list
  <2> QED
    BY <2>1, RunUntouched
<1>2. CASE Outcomes
  BY <1>2, RunUntouched DEF Outcomes, TransactionChanged, TransactionUnchanged,
    TransactionFailed, IdleWorker
<1>3. CASE Refreshes
  <2>1. pc' = "none"
    BY <1>3 DEF IInv, Order, Refreshes, CatalogLoaded, DiscoveryFailed,
      DiscoveryFinished, work
  <2> QED
    BY <2>1, RunUntouched
<1>4. CASE Reports
  BY <1>4, RunUntouched DEF Reports, CheckChange, WorkerPanics, Report
<1>5. CASE Discover
  BY <1>5, RunUntouched DEF Discover, list
<1>6. CASE CloseRequested
  BY <1>6, RunUntouched DEF CloseRequested, IdleWorker
<1>7. CASE UNCHANGED vars
  BY <1>7, RunUntouched DEF vars, list
<1> QED
  BY <1>1, <1>2, <1>3, <1>4, <1>5, <1>6, <1>7, RunsKeep, PlanStarts, OutsideKeeps,
     NextCases
-------------------------------------------------------------------------------
LEMMA InvInit == Init => IInv
<1> SUFFICES ASSUME Init PROVE IInv
  OBVIOUS
<1>1. Order /\ Readings /\ RowsAreMachine /\ NoMissedChange
  BY CatalogAssumption DEF Init, Order, Readings, RowsAreMachine, NoMissedChange
<1>2. Planned /\ Concerned /\ Removable /\ Visible
  BY DEF Init, Planned, Concerned, Removable, Visible
<1> QED
  BY <1>1, <1>2, TypeInit DEF IInv

LEMMA InvNext == IInv /\ [Next]_vars => IInv'
BY TypeNext, OrderNext, ReadingsNext, RowsNext, MissedNext, InRunNext DEF IInv, InRun

THEOREM InvHolds == Spec => []IInv
BY InvInit, InvNext, PTL DEF Spec

(* What the user sees is what there is: whenever the list can be acted on, *)
(* it shows the machine, unless others or a failed transaction interfered. *)
THEOREM RowsAlwaysMachine == Spec => []RowsAreMachine
<1>1. IInv => RowsAreMachine
  BY DEF IInv
<1> QED
  BY <1>1, InvHolds, PTL

(* A transaction that changed the machine never reports "unchanged", which *)
(* would skip the refresh, whichever of its commands failed.               *)
THEOREM NoChangeIsMissed == Spec => []NoMissedChange
<1>1. IInv => NoMissedChange
  BY DEF IInv
<1> QED
  BY <1>1, InvHolds, PTL

(* The removal finds all its targets, after the install as without it.     *)
THEOREM RemovalAlwaysPossible == Spec => []RemovalFindsTargets
<1>1. IInv => RemovalFindsTargets
  BY DEF IInv, Removable, RemovalFindsTargets
<1> QED
  BY <1>1, InvHolds, PTL

LEMMA ElsewhereStep == IInv /\ [Next]_vars => [Elsewhere]_vars
<1> SUFFICES ASSUME IInv, [Next]_vars PROVE Elsewhere \/ UNCHANGED vars
  OBVIOUS
<1>1. ASSUME local' = local PROVE Elsewhere
  BY <1>1 DEF Elsewhere
<1>2. CASE Quiet
  BY <1>1, <1>2 DEF Quiet, KernelToggled, ExecuteRequested, TransactionStarted,
    DialogDismissed, Probe, machine
<1>3. CASE Outcomes
  BY <1>1, <1>3 DEF Outcomes, TransactionChanged, TransactionUnchanged,
    TransactionFailed, machine
<1>4. CASE Refreshes
  BY <1>1, <1>4 DEF Refreshes, CatalogLoaded, DiscoveryFailed, DiscoveryFinished, machine
<1>5. CASE Reports
  BY <1>1, <1>5 DEF Reports, CheckChange, WorkerPanics, Report, machine
<1>6. CASE Discover \/ PlanCommands \/ CloseRequested
  BY <1>1, <1>6 DEF Discover, PlanCommands, CloseRequested, machine
<1>7. CASE Outside
  BY <1>7 DEF Outside, Elsewhere, IInv, TypeOK, MachineTypes
<1>8. CASE Runs
  <2>1. /\ local \in Local /\ plan.install \in Targets /\ plan.remove \in Targets
        /\ pc = "run"
    BY <1>8 DEF IInv, TypeOK, MachineTypes, WorkTypes, Plans, Runs, RunInstall,
      RunRemove, Ran
  <2>2. \/ local' = local
        \/ local' = InstallEffect(local, plan.install)
        \/ local' = RemoveEffect(local, plan.remove)
    BY <1>8 DEF Runs, RunInstall, RunRemove, Ran
  <2>3. SUFFICES ASSUME NEW k \in Kernels, ~\E r \in Requested : r[2] = k
                 PROVE  /\ local'.version[k] = local.version[k]
                        /\ \A m \in Modules : <<k, m>> \in local'.modules
                                               <=> <<k, m>> \in local.modules
    BY DEF Elsewhere
  <2>4. ~Concerns(plan.install, k) /\ ~Concerns(plan.remove, k)
    BY <2>1, <2>3 DEF IInv, Concerned
  <2> QED
    BY <2>1, <2>2, <2>4, InstallElsewhere, RemoveElsewhere
<1> QED
  BY <1>2, <1>3, <1>4, <1>5, <1>6, <1>7, <1>8, NextCases

(* The machine changes only where the user has asked for it: only the two  *)
(* commands change it, and they concern only the kernels requested.        *)
THEOREM OnlySelectedChanges == Spec => OnlyWhatWasSelected
BY InvHolds, ElsewhereStep, PTL DEF Spec, OnlyWhatWasSelected
-------------------------------------------------------------------------------
(* What was asked of kernel k, between the database a that the rows were   *)
(* made from and the database b.                                           *)
Intended(a, b, k) ==
    LET touched == {r \in Requested : r[2] = k}
        own == \A r \in touched : ~Installed(a, r) \/ Immutable(a, r)
    IN  own =>
          IF touched = {}
          THEN /\ b.version[k] = a.version[k]
               /\ \A m \in Modules : <<k, m>> \in b.modules <=> <<k, m>> \in a.modules
          ELSE IF Present(a, k) THEN ~Present(b, k)
          ELSE Present(b, k) /\ <<k, "headers">> \in b.modules

(* The databases after the install, and after both commands of plan p.     *)
Upgraded(db, p) ==
    IF "install" \in Commands(p) THEN InstallEffect(db, p.install) ELSE db
Finished(db, p) ==
    IF "remove" \in Commands(p) THEN RemoveEffect(Upgraded(db, p), p.remove)
    ELSE Upgraded(db, p)

(* Where a worker has come whose commands have all succeeded, if nobody    *)
(* has interfered: its plan is of the database it changes.                 *)
Clean ==
    Undisturbed /\ clean /\ pc = "run" =>
        /\ \E facts \in Found :
              /\ facts.modules = snapshot.modules
              /\ plan = FromSelection(rows, snapshot, chosen, facts)
        /\ IF "install" \in todo THEN local = snapshot /\ todo = Commands(plan)
           ELSE IF "remove" \in todo
           THEN local = Upgraded(snapshot, plan) /\ "remove" \in Commands(plan)
           ELSE local = Finished(snapshot, plan)

(* Both commands together do what was asked for.                           *)
LEMMA PlanIsIntent ==
    ASSUME NEW db \in Local, rows \subseteq Catalog, chosen \subseteq Catalog,
           snapshot = db, NEW facts \in Found, NEW k \in Kernels
    PROVE  Intended(db, Finished(db, FromSelection(rows, db, chosen, facts)), k)
<1> DEFINE I == InstallSet(rows, db, chosen)
           R == RemovalSet(rows, db, chosen)
           p == FromSelection(rows, db, chosen, facts)
           u == Upgraded(db, p)
           b == Finished(db, p)
           touched == {r \in Requested : r[2] = k}
<1>1. /\ p.install.kernels = {r[2] : r \in I}
      /\ p.install.modules = UNION {ExpandInstall(r, facts) : r \in I}
      /\ p.remove.kernels = {r[2] : r \in R}
      /\ p.remove.modules = UNION {ExpandRemove(r, facts) : r \in R}
  BY DEF FromSelection
<1>2. p \in Plans
  BY PlanTyped
<1>3. p.install \in Targets /\ p.remove \in Targets
  BY <1>2 DEF Plans
<1>4. /\ Requested = ChangeList(rows, db, chosen)
      /\ \A r \in Requested : /\ ~Installed(db, r) => r \in I
                              /\ Installed(db, r) => r \in R
      /\ \A r \in R : Installed(db, r)
      /\ R \subseteq Catalog /\ I \subseteq Catalog
  BY DEF Requested, InstallSet, RemovalSet, ChangeList
<1>5. /\ "install" \in Commands(p) <=> p.install.kernels # {}
      /\ "remove" \in Commands(p) <=> p.remove.kernels # {}
  <2>1. \A c \in {"install", "remove"} : c \in Commands(p) <=> p[c].kernels # {}
    BY DEF Commands
  <2>2. p["install"].kernels = p.install.kernels /\ p["remove"].kernels = p.remove.kernels
    OBVIOUS
  <2> QED
    BY <2>1, <2>2
<1>6. \A c \in {"install", "remove"} : Concerns(p[c], k) => touched # {}
  BY <1>4, PlanConcernsChanged
<1> HIDE DEF p, I, R
<1>7. u \in Local
  BY <1>3, InstallTyped DEF Upgraded
<1>8. ASSUME touched = {} PROVE Intended(db, b, k)
  <2>1. ~Concerns(p.install, k) /\ ~Concerns(p.remove, k)
    <3>1. ~Concerns(p["install"], k) /\ ~Concerns(p["remove"], k)
      BY <1>6, <1>8
    <3> QED
      BY <3>1
  <2>2. /\ u.version[k] = db.version[k]
        /\ \A m \in Modules : <<k, m>> \in u.modules <=> <<k, m>> \in db.modules
    BY <1>3, <2>1, InstallElsewhere DEF Upgraded
  <2>3. /\ b.version[k] = u.version[k]
        /\ \A m \in Modules : <<k, m>> \in b.modules <=> <<k, m>> \in u.modules
    <3> HIDE DEF u
    <3>1. b = IF "remove" \in Commands(p) THEN RemoveEffect(u, p.remove) ELSE u
      BY DEF Finished, u
    <3> QED
      BY <1>3, <1>7, <2>1, <3>1, RemoveElsewhere
  <2> HIDE DEF u, b
  <2> QED
    BY <1>8, <2>2, <2>3 DEF Intended
<1>9. ASSUME touched # {}, Present(db, k) PROVE Intended(db, b, k)
  <2>1. PICK r \in Requested : r[2] = k
    BY <1>9
  <2>2. r \in R
    BY <1>4, <1>9, <2>1 DEF Installed
  <2>3. k \in p.remove.kernels
    BY <1>1, <2>1, <2>2
  <2>4. b = RemoveEffect(u, p.remove)
    BY <1>5, <2>3 DEF Finished
  <2>5. ~Present(b, k)
    <3> HIDE DEF u, b
    <3> QED
      BY <1>3, <1>7, <2>3, <2>4, RemoveTyped
  <2> HIDE DEF u, b
  <2> QED
    BY <1>9, <2>5 DEF Intended
<1>10. ASSUME touched # {}, ~Present(db, k) PROVE Intended(db, b, k)
  <2>1. PICK r \in Requested : r[2] = k
    BY <1>10
  <2>2. r \in I
    BY <1>4, <1>10, <2>1 DEF Installed
  <2>3. k \in p.install.kernels
    BY <1>1, <2>1, <2>2
  <2>4. <<k, "headers">> \in p.install.modules
    <3>1. <<k, "headers">> \in ExpandInstall(r, facts)
      BY <2>1 DEF ExpandInstall
    <3> QED
      BY <1>1, <2>2, <3>1
  <2>5. u = InstallEffect(db, p.install)
    BY <1>5, <2>3 DEF Upgraded
  <2>6. Present(u, k) /\ <<k, "headers">> \in u.modules
    <3>1. u.modules = db.modules \cup p.install.modules
      BY <2>5 DEF InstallEffect, Local
    <3>2. Present(u, k)
      <4> HIDE DEF u
      <4> QED
        BY <1>3, <2>3, <2>5, InstallTyped
    <3> HIDE DEF u
    <3> QED
      BY <2>4, <3>1, <3>2
  <2>7. ~Concerns(p.remove, k)
    <3>1. \A q \in R : q[2] # k
      BY <1>4, <1>10 DEF Installed
    <3>2. \A q \in R : ExpandRemove(q, facts) \subseteq {q[2]} \X Modules
      BY <1>4, ExpansionTyped
    <3>3. \A m \in Modules : <<k, m>> \notin p.remove.modules
      BY <1>1, <3>1, <3>2
    <3> QED
      BY <1>1, <3>1, <3>3 DEF Concerns
  <2>8. Present(b, k) /\ <<k, "headers">> \in b.modules
    <3> HIDE DEF u
    <3>1. b = IF "remove" \in Commands(p) THEN RemoveEffect(u, p.remove) ELSE u
      BY DEF Finished, u
    <3>2. "headers" \in Modules
      BY DEF Modules
    <3> QED
      BY <1>3, <1>7, <2>6, <2>7, <3>1, <3>2, RemoveElsewhere DEF Present
  <2> HIDE DEF u, b
  <2> QED
    BY <1>10, <2>8 DEF Intended
<1>11. Intended(db, b, k)
  BY <1>8, <1>9, <1>10
<1> QED
  BY <1>11 DEF p

LEMMA CleanUntouched ==
    ASSUME Clean, pc' # "run" \/ UNCHANGED <<machine, rows, snapshot, seen, work, lapsed>>
    PROVE  Clean'
<1>1. CASE pc' # "run"
  BY <1>1 DEF Clean
<1>2. CASE UNCHANGED <<machine, rows, snapshot, seen, work, lapsed>>
  BY <1>2 DEF Clean, Undisturbed, machine, work
<1> QED
  BY <1>1, <1>2

(* The list is the machine when the plan is made, so the modules that the  *)
(* worker reads are those of the list, whichever database it takes.        *)
LEMMA CleanStarts == IInv /\ PlanCommands => Clean'
<1> SUFFICES ASSUME IInv, PlanCommands, Undisturbed PROVE Clean'
  BY DEF Clean, Undisturbed, PlanCommands, machine, list
<1>0. local \in Local /\ snapshot \in Local /\ families \in Families
  BY DEF IInv, TypeOK, MachineTypes, ListTypes, WorkTypes
<1>1. PICK db \in {local, snapshot} :
        plan' = FromSelection(rows, snapshot, chosen, Facts(db))
  BY DEF PlanCommands
<1>2. snapshot = local
  BY CatalogAssumption DEF IInv, Order, RowsAreMachine, PlanCommands
<1>3. Facts(db) \in Found /\ Facts(db).modules = snapshot.modules
  <2>1. db = snapshot
    BY <1>2
  <2> QED
    BY <1>0, <2>1, FactsTyped DEF Facts
<1>4. UNCHANGED <<local, rows, snapshot, chosen>> /\ todo' = Commands(plan')
  BY DEF PlanCommands, machine, list
<1>5. \/ "install" \in todo' /\ local' = snapshot'
      \/ "install" \notin todo' /\ local' = Upgraded(snapshot', plan')
  BY <1>2, <1>4 DEF Upgraded
<1>6. "install" \notin todo' /\ "remove" \notin todo' => local' = Finished(snapshot', plan')
  BY <1>2, <1>4 DEF Upgraded, Finished
<1>7. \E facts \in Found :
        /\ facts.modules = snapshot'.modules
        /\ plan' = FromSelection(rows', snapshot', chosen', facts)
  BY <1>1, <1>3, <1>4
<1> QED
  BY <1>4, <1>5, <1>6, <1>7 DEF Clean

LEMMA CleanRuns == IInv /\ Clean /\ Runs => Clean'
<1> SUFFICES ASSUME IInv, Clean, Runs, Undisturbed', clean' PROVE Clean'
  BY DEF Clean
<1>1. /\ pc = "run" /\ UNCHANGED <<rows, snapshot, seen, chosen, plan, outside, lapsed>>
      /\ clean' => clean' = clean
  BY DEF Runs, RunInstall, RunRemove, Ran, list
<1>2. Undisturbed
  BY <1>1 DEF Undisturbed
<1>3. CASE RunInstall
  <2>1. /\ "install" \in todo /\ todo' = todo \ {"install"}
        /\ clean = clean' /\ local' = InstallEffect(local, plan.install)
    BY <1>3 DEF RunInstall, Ran
  <2>2. local = snapshot /\ todo = Commands(plan)
    BY <1>1, <1>2, <2>1 DEF Clean
  <2>3. local' = Upgraded(snapshot, plan)
    BY <2>1, <2>2 DEF Upgraded
  <2>4. "remove" \notin todo' => local' = Finished(snapshot, plan)
    BY <2>1, <2>2, <2>3 DEF Finished
  <2> QED
    BY <1>1, <1>2, <2>1, <2>2, <2>3, <2>4 DEF Clean
<1>4. CASE RunRemove
  <2>1. /\ todo = {"remove"} /\ todo' = todo \ {"remove"}
        /\ clean = clean' /\ local' = RemoveEffect(local, plan.remove)
    BY <1>4 DEF RunRemove, Ran
  <2>2. local = Upgraded(snapshot, plan) /\ "remove" \in Commands(plan)
    BY <1>1, <1>2, <2>1 DEF Clean
  <2>3. local' = Finished(snapshot, plan)
    BY <2>1, <2>2 DEF Finished
  <2> QED
    BY <1>1, <1>2, <2>1, <2>3 DEF Clean
<1> QED
  BY <1>3, <1>4 DEF Runs

LEMMA CleanNext == IInv /\ Clean /\ [Next]_vars => Clean'
<1> SUFFICES ASSUME IInv, Clean, [Next]_vars PROVE Clean'
  OBVIOUS
<1>1. CASE Quiet
  <2>1. \/ pc' # "run"
        \/ UNCHANGED <<machine, rows, snapshot, seen, work, lapsed>>
    BY <1>1 DEF Quiet, KernelToggled, ExecuteRequested, TransactionStarted,
      DialogDismissed, Probe, list
  <2> QED
    BY <2>1, CleanUntouched
<1>2. CASE Outcomes
  BY <1>2, CleanUntouched DEF Outcomes, TransactionChanged, TransactionUnchanged,
    TransactionFailed, IdleWorker
<1>3. CASE Refreshes
  <2>1. pc' = "none"
    BY <1>3 DEF IInv, Order, Refreshes, CatalogLoaded, DiscoveryFailed,
      DiscoveryFinished, work
  <2> QED
    BY <2>1, CleanUntouched
<1>4. CASE Reports
  BY <1>4, CleanUntouched DEF Reports, CheckChange, WorkerPanics, Report
<1>5. CASE Discover
  BY <1>5, CleanUntouched DEF Discover, list
<1>6. CASE Outside
  <2>1. ~Undisturbed'
    BY <1>6 DEF IInv, Readings, TypeOK, MachineTypes, ListTypes, Undisturbed, Outside, list
  <2> QED
    BY <2>1 DEF Clean
<1>7. CASE CloseRequested
  BY <1>7, CleanUntouched DEF CloseRequested, IdleWorker
<1>8. CASE UNCHANGED vars
  BY <1>8, CleanUntouched DEF vars, list
<1> QED
  BY <1>1, <1>2, <1>3, <1>4, <1>5, <1>6, <1>7, <1>8, CleanRuns, CleanStarts, NextCases

LEMMA IntentUntouched ==
    ASSUME SuccessIsIntent,
           \/ pc' # "report" \/ verdict' = "failed"
           \/ UNCHANGED <<machine, rows, snapshot, seen, work, lapsed>>
    PROVE  SuccessIsIntent'
<1>1. CASE pc' # "report" \/ verdict' = "failed"
  BY <1>1 DEF SuccessIsIntent
<1>2. CASE UNCHANGED <<machine, rows, snapshot, seen, work, lapsed>>
  BY <1>2 DEF SuccessIsIntent, Undisturbed, Requested, machine, work
<1> QED
  BY <1>1, <1>2

LEMMA IntentNext == IInv /\ Clean /\ SuccessIsIntent /\ [Next]_vars => SuccessIsIntent'
<1> SUFFICES ASSUME IInv, Clean, SuccessIsIntent, [Next]_vars PROVE SuccessIsIntent'
  OBVIOUS
<1>1. CASE Quiet
  <2>1. \/ pc' # "report"
        \/ UNCHANGED <<machine, rows, snapshot, seen, work, lapsed>>
    BY <1>1 DEF Quiet, KernelToggled, ExecuteRequested, TransactionStarted,
      DialogDismissed, Probe, list
  <2> QED
    BY <2>1, IntentUntouched
<1>2. CASE Outcomes
  BY <1>2, IntentUntouched DEF Outcomes, TransactionChanged, TransactionUnchanged,
    TransactionFailed, IdleWorker
<1>3. CASE Refreshes
  <2>1. pc' = "none"
    BY <1>3 DEF IInv, Order, Refreshes, CatalogLoaded, DiscoveryFailed,
      DiscoveryFinished, work
  <2> QED
    BY <2>1, IntentUntouched
<1>4. CASE CheckChange
  <2>1. SUFFICES ASSUME Undisturbed, clean, NEW k \in Kernels
                 PROVE  Intended(snapshot, local, k)
    BY <1>4 DEF CheckChange, Report, SuccessIsIntent, Intended, Undisturbed, Requested,
      machine, list
  <2>2. PICK facts \in Found : plan = FromSelection(rows, snapshot, chosen, facts)
    BY <1>4, <2>1 DEF CheckChange, Clean
  <2>3. local = Finished(snapshot, plan)
    BY <1>4, <2>1 DEF CheckChange, Clean
  <2>4. snapshot \in Local /\ rows \subseteq Catalog /\ chosen \subseteq Catalog
    BY DEF IInv, TypeOK, ListTypes, WorkTypes
  <2> QED
    BY <2>2, <2>3, <2>4, PlanIsIntent
<1>5. CASE WorkerPanics
  BY <1>5, IntentUntouched DEF WorkerPanics, Report
<1>6. CASE Runs \/ PlanCommands
  <2>1. pc' = "run"
    BY <1>6 DEF Runs, RunInstall, RunRemove, Ran, PlanCommands
  <2> QED
    BY <2>1, IntentUntouched
<1>7. CASE Discover
  BY <1>7, IntentUntouched DEF Discover, list
<1>8. CASE Outside
  <2>1. ~Undisturbed'
    BY <1>8 DEF IInv, Readings, TypeOK, MachineTypes, ListTypes, Undisturbed, Outside, list
  <2> QED
    BY <2>1 DEF SuccessIsIntent
<1>9. CASE CloseRequested
  BY <1>9, IntentUntouched DEF CloseRequested, IdleWorker
<1>10. CASE UNCHANGED vars
  BY <1>10, IntentUntouched DEF vars, list
<1> QED
  BY <1>1, <1>2, <1>3, <1>4, <1>5, <1>6, <1>7, <1>8, <1>9, <1>10, NextCases DEF Reports

(* If every command succeeds and nobody interferes, what was asked for is  *)
(* what happened, for every catalog, machine and selection.                *)
THEOREM SuccessMeansIntent == Spec => []SuccessIsIntent
<1>1. Init => Clean /\ SuccessIsIntent
  BY DEF Init, Clean, SuccessIsIntent
<1>2. IInv /\ Clean /\ SuccessIsIntent /\ [Next]_vars => Clean' /\ SuccessIsIntent'
  BY CleanNext, IntentNext
<1> QED
  BY <1>1, <1>2, InvHolds, PTL DEF Spec
-------------------------------------------------------------------------------
(* The step by step transaction implements the coarse one.  What the       *)
(* KernelManager sees of a state:                                          *)
Selection ==
    IF rows = {} THEN "empty"
    ELSE IF ChangeList(rows, snapshot, checked) = {} THEN "clean" ELSE "dirty"
Discoveries == IF discovery = "none" THEN 0 ELSE 1
Worker ==
    IF pc = "none" THEN "none" ELSE IF transaction = "Planning" THEN "starting" ELSE "working"

(* Its other flows are at rest.                                            *)
LEMMA ManagerVars ==
    ASSUME UNCHANGED <<lifecycle, catalog, transaction, dialog, Selection, Discoveries, Worker>>
    PROVE  UNCHANGED Manager!vars
BY DEF Selection, Discoveries, Worker, Manager!vars, Manager!flows, Manager!windows,
  Manager!overlay, Manager!execution, Manager!preparing, Manager!tasks

LEMMA ManagerInit == Init => Manager!Init
BY DEF Init, Manager!Init

LEMMA ListShown ==
    UNCHANGED list => UNCHANGED Selection
BY DEF list, Selection

LEMMA ManagerMessage ==
    ASSUME IInv, Outcomes
    PROVE  Manager!Message
<1>1. /\ lifecycle # "Shutdown" /\ pc # "none" /\ Worker = "working" /\ Discoveries = 0
      /\ Worker' = "none" /\ UNCHANGED <<lifecycle, Selection>>
  <2>1. UNCHANGED list /\ UNCHANGED lifecycle /\ pc = "report" /\ transaction = "Running"
        /\ pc' = "none"
    BY DEF Outcomes, TransactionChanged, TransactionUnchanged, TransactionFailed,
      Outcome, IdleWorker
  <2>2. discovery = "none" /\ lifecycle # "Shutdown"
    BY <2>1 DEF IInv, Order, TypeOK, FlowTypes
  <2> QED
    BY <2>1, <2>2, ListShown DEF Worker, Discoveries
<1> USE DEF Manager!Message, Manager!Open, Manager!windows, Manager!preparing,
      Manager!tasks, Manager!overlay, Selection, Discoveries, Worker
<1>2. CASE TransactionChanged
  <2>1. /\ transaction' = "Complete" /\ catalog' = "RefreshPending" /\ dialog' = "Progress"
        /\ discovery' = "reading"
    BY <1>2 DEF TransactionChanged
  <2>2. Manager!TransactionChanged
    BY <1>1, <2>1 DEF Manager!TransactionChanged
  <2> QED
    BY <2>2
<1>3. CASE TransactionUnchanged
  <2>1. /\ transaction' = "Idle" /\ catalog' = "Loaded" /\ UNCHANGED discovery
        /\ dialog' = IF dialog = "Progress" THEN "None" ELSE dialog
    BY <1>3 DEF TransactionUnchanged, reading
  <2>2. Manager!TransactionUnchanged
    BY <1>1, <2>1 DEF Manager!TransactionUnchanged, Manager!HideProgress
  <2> QED
    BY <2>2
<1>4. CASE TransactionFailed
  <2>1. transaction' = "Failed" /\ dialog' = "Error" /\ UNCHANGED <<discovery, catalog>>
    BY <1>4 DEF TransactionFailed, reading
  <2>2. Manager!TransactionFailed
    BY <1>1, <2>1 DEF Manager!TransactionFailed
  <2> QED
    BY <2>2
<1> QED
  BY <1>2, <1>3, <1>4 DEF Outcomes

LEMMA ManagerRefresh ==
    ASSUME IInv, Refreshes
    PROVE  Manager!Message
<1>1. /\ lifecycle # "Shutdown" /\ pc = "none" /\ pc' = "none" /\ discovery # "none"
      /\ discovery' = "none" /\ lifecycle' = "Ready" /\ catalog' = "Loaded"
      /\ transaction' = IF catalog = "RefreshPending" THEN "Idle" ELSE transaction
  BY DEF Refreshes, CatalogLoaded, DiscoveryFailed, DiscoveryFinished, work, IInv, Order,
    TypeOK, FlowTypes
<1> USE DEF Manager!Message, Manager!Open, Manager!windows, Manager!preparing,
      Manager!tasks, Manager!overlay
<1>2. Manager!DiscoveryFinished
  BY <1>1 DEF Manager!DiscoveryFinished
<1>3. CASE CatalogLoaded
  <2>1. Selection' = "clean"
    <3>1. rows' = Catalog /\ snapshot' = found /\ checked' = DefaultChecks(found)
      BY <1>3 DEF CatalogLoaded
    <3>2. found \in Local
      BY DEF IInv, TypeOK, ReadingTypes
    <3>3. ChangeList(Catalog, found, DefaultChecks(found)) = {}
      BY <3>2, DefaultsChangeNothing
    <3> QED
      BY <3>1, <3>3, CatalogAssumption DEF Selection
  <2>2. dialog' = IF dialog = "Progress" THEN "None" ELSE dialog
    BY <1>3 DEF CatalogLoaded
  <2>3. Manager!CatalogLoaded
    BY <1>2, <2>1, <2>2 DEF Manager!CatalogLoaded, Manager!HideProgress, Selection
  <2> QED
    BY <2>3
<1>4. CASE DiscoveryFailed
  <2>1. Selection' = "empty" /\ dialog' = "Error"
    BY <1>4 DEF DiscoveryFailed, Selection
  <2>2. Manager!DiscoveryFailed
    BY <1>2, <2>1 DEF Manager!DiscoveryFailed, Selection
  <2> QED
    BY <2>2
<1> QED
  BY <1>3, <1>4 DEF Refreshes

LEMMA ManagerQuiet ==
    ASSUME IInv, Quiet
    PROVE  Manager!Next \/ UNCHANGED Manager!vars
<1>0. lifecycle # "Shutdown" /\ Order
  BY DEF IInv, TypeOK, FlowTypes
<1> USE DEF Manager!Next, Manager!User, Manager!Message
<1>1. ASSUME NEW r \in Catalog, KernelToggled(r) PROVE Manager!Next
  <2>1. /\ rows # {} /\ UNCHANGED <<lifecycle, catalog, transaction, dialog, rows>>
        /\ UNCHANGED <<discovery, pc>>
    BY <1>1 DEF KernelToggled, flows, reading, work
  <2>2. Selection # "empty" /\ Selection' \in {"clean", "dirty"}
    BY <2>1 DEF Selection
  <2>3. Manager!KernelToggled
    BY <1>0, <2>1, <2>2 DEF Manager!KernelToggled, Manager!Clickable, Manager!Open,
      Manager!flows, Manager!windows, Manager!overlay, Manager!execution,
      Manager!preparing, Manager!tasks, Selection
  <2> QED
    BY <2>3
<1>2. CASE ExecuteRequested
  <2>1. /\ transaction = "Idle" /\ catalog # "RefreshPending" /\ transaction' = "Planning"
        /\ pc' = "probe" /\ UNCHANGED <<lifecycle, catalog, dialog, discovery, list>>
    BY <1>2 DEF ExecuteRequested, reading
  <2>2. Selection = "dirty" /\ UNCHANGED Selection
    BY <1>2, <2>1, ListShown DEF Selection, ExecuteRequested, ChangeList
  <2>3. Manager!ExecuteRequested
    BY <1>0, <2>1, <2>2 DEF Manager!ExecuteRequested, Manager!ExecuteEnabled,
      Manager!InProgress, Manager!Clickable, Manager!Open, Manager!windows,
      Manager!overlay, Manager!preparing, Manager!tasks, Selection
  <2> QED
    BY <2>3
<1>3. CASE TransactionStarted
  <2>1. /\ pc # "none" /\ transaction = "Planning" /\ transaction' = "Running"
        /\ UNCHANGED <<pc, lifecycle, catalog, dialog, discovery, list>>
    BY <1>3 DEF TransactionStarted, reading, work
  <2>2. Manager!TransactionStarted
    BY <1>0, <2>1, ListShown DEF Manager!TransactionStarted, Manager!Open, Manager!windows,
      Manager!overlay, Manager!preparing, Manager!tasks, Selection
  <2> QED
    BY <2>2
<1>4. CASE DialogDismissed
  <2>1. /\ dialog = "Error" /\ dialog' = "None"
        /\ transaction' = IF transaction = "Failed" THEN "Idle" ELSE transaction
        /\ UNCHANGED <<pc, lifecycle, catalog, discovery, list>>
    BY <1>4 DEF DialogDismissed, reading, work
  <2>2. UNCHANGED Worker
    BY <1>0, <2>1 DEF Worker, Order
  <2>3. Manager!DialogDismissed
    BY <1>0, <2>1, <2>2, ListShown DEF Manager!DialogDismissed, Manager!Dismiss,
      Manager!Open, Manager!windows, Manager!execution, Manager!preparing,
      Manager!tasks, Selection, Worker
  <2> QED
    BY <2>3
<1>5. CASE Probe
  <2>1. UNCHANGED <<lifecycle, catalog, transaction, dialog, Selection, Discoveries, Worker>>
    BY <1>5, ListShown DEF Probe, flows, reading, Discoveries, Worker
  <2> QED
    BY <2>1, ManagerVars
<1> QED
  BY <1>1, <1>2, <1>3, <1>4, <1>5 DEF Quiet

LEMMA ManagerStep == IInv /\ [Next]_vars => [Manager!Next \/ CloseRequested]_(Manager!vars)
<1> SUFFICES ASSUME IInv, [Next]_vars
             PROVE  Manager!Next \/ CloseRequested \/ UNCHANGED Manager!vars
  OBVIOUS
<1>1. CASE Reports \/ Runs \/ Discover \/ PlanCommands \/ Outside
  <2>1. UNCHANGED <<lifecycle, catalog, transaction, dialog, Selection, Discoveries, Worker>>
    <3>1. UNCHANGED flows /\ UNCHANGED list
      BY <1>1 DEF Reports, CheckChange, WorkerPanics, Report, Runs, RunInstall, RunRemove,
        Ran, Discover, PlanCommands, Outside
    <3>2. UNCHANGED Discoveries
      BY <1>1 DEF Reports, CheckChange, WorkerPanics, Report, Runs, RunInstall, RunRemove,
        Ran, Discover, PlanCommands, Outside, reading, Discoveries
    <3>3. pc = "none" <=> pc' = "none"
      BY <1>1 DEF Reports, CheckChange, WorkerPanics, Report, Runs, RunInstall, RunRemove,
        Ran, Discover, PlanCommands, Outside, work
    <3> QED
      BY <3>1, <3>2, <3>3, ListShown DEF flows, Worker
  <2> QED
    BY <2>1, ManagerVars
<1>2. CASE UNCHANGED vars
  <2>1. UNCHANGED <<lifecycle, catalog, transaction, dialog, Selection, Discoveries, Worker>>
    BY <1>2, ListShown DEF vars, flows, reading, work, Discoveries, Worker
  <2> QED
    BY <2>1, ManagerVars
<1>3. CASE Outcomes \/ Refreshes
  BY <1>3, ManagerMessage, ManagerRefresh DEF Manager!Next
<1>4. CASE Quiet
  BY <1>4, ManagerQuiet
<1> QED
  BY <1>1, <1>2, <1>3, <1>4, NextCases

(* For every catalog and machine, what the application's state machine     *)
(* assumes of its transaction worker is what the worker does, step by step.*)
THEOREM ImplementsTheManager == Spec => ImplementsManager
BY ManagerInit, ManagerStep, InvHolds, PTL DEF Spec, ImplementsManager
===============================================================================
