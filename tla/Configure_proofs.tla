---------------------------- MODULE Configure_proofs ----------------------------
(***************************************************************************)
(* Proofs about Configure, for any variants, values, files and numbers of  *)
(* threads: that a build gets the options shown, that what is offered is   *)
(* the variant's, that a save can be loaded back, that no probe undoes a   *)
(* later edit, and that the references of the courts agree.                *)
(***************************************************************************)
EXTENDS Configure, SequenceTheorems, WellFoundedInduction, TLAPS

(* The lists of items as the counting finds and leaves them.               *)
LEMMA DropLastAppend ==
    ASSUME NEW S, NEW s \in Seq(S), NEW e \in S
    PROVE  DropLast(Append(s, e)) = s /\ Len(Append(s, e)) = Len(s) + 1 /\ Append(s, e) \in Seq(S)
  <1>. DEFINE t == Append(s, e)
  <1>1. /\ t \in Seq(S) /\ Len(t) = Len(s) + 1 /\ Len(s) \in Nat
        /\ \A i \in 1..Len(s) : t[i] = s[i]
    BY AppendProperties, LenProperties
  <1>. HIDE DEF t
  <1>2. \A i \in 1..Len(s) : t[i] \in S
    BY <1>1, ElementOfSeq
  <1>. DEFINE u == SubSeq(t, 1, Len(s))
  <1>3. /\ u \in Seq(S)
        /\ Len(u) = IF 1 <= Len(s) THEN Len(s) - 1 + 1 ELSE 0
        /\ \A i \in 1..(Len(s) - 1 + 1) : u[i] = t[1 + i - 1]
    BY <1>1, <1>2, SubSeqProperties
  <1>. HIDE DEF u
  <1>4. Len(u) = Len(s) /\ \A i \in 1..Len(u) : u[i] = s[i]
    BY <1>1, <1>3
  <1>5. u = s
    BY <1>3, <1>4, SeqEqual
  <1>. QED BY <1>1, <1>5 DEF DropLast, t, u

LEMMA OfferedAppend ==
    ASSUME NEW S, NEW s \in Seq(S), NEW e \in S
    PROVE  Offered(Append(s, e)) = Offered(s) \cup {e}
  <1>. DEFINE t == Append(s, e)
  <1>1. /\ DOMAIN t = 1..(Len(s) + 1) /\ DOMAIN s = 1..Len(s) /\ Len(s) \in Nat
        /\ \A i \in 1..Len(s) : t[i] = s[i]
        /\ t[Len(s) + 1] = e
    BY AppendProperties, LenProperties
  <1>. HIDE DEF t
  <1>2. {t[i] : i \in 1..(Len(s) + 1)} = {s[i] : i \in 1..Len(s)} \cup {e}
    BY <1>1
  <1>. QED BY <1>1, <1>2 DEF Offered, t

LtoFour == Append(LtoBase, "thin-dist")
LEMMA LtoLists ==
    /\ Len(LtoBase) = 3 /\ Len(LtoFour) = 4 /\ DropLast(LtoFour) = LtoBase
    /\ Offered(LtoBase) = {"none", "full", "thin"}
    /\ Offered(LtoFour) = {"none", "full", "thin", "thin-dist"}
  <1>1. LtoBase \in Seq(Lto) /\ Len(LtoBase) = 3
    BY DEF LtoBase, Lto
  <1>2. /\ DOMAIN LtoBase = {1, 2, 3}
        /\ LtoBase[1] = "none" /\ LtoBase[2] = "full" /\ LtoBase[3] = "thin"
    BY DEF LtoBase, Lto
  <1>3. Offered(LtoBase) = {"none", "full", "thin"}
    BY <1>2 DEF Offered
  <1>4. "thin-dist" \in Lto
    BY DEF Lto
  <1>5. DropLast(LtoFour) = LtoBase /\ Len(LtoFour) = Len(LtoBase) + 1
    BY <1>1, <1>4, DropLastAppend DEF LtoFour
  <1>6. Offered(LtoFour) = Offered(LtoBase) \cup {"thin-dist"}
    BY <1>1, OfferedAppend DEF LtoFour, Lto
  <1>. QED BY <1>1, <1>3, <1>5, <1>6

PreemptThree == Append(PreemptBase, "voluntary")
PreemptFour == Append(PreemptThree, "none")
LEMMA PreemptLists ==
    /\ Len(PreemptBase) = 2 /\ Len(PreemptFour) = 4
    /\ DropLast(DropLast(PreemptFour)) = PreemptBase
    /\ Offered(PreemptBase) = {"full", "lazy"}
    /\ Offered(PreemptFour) = {"full", "lazy", "voluntary", "none"}
  <1>1. PreemptBase \in Seq(Preempt) /\ Len(PreemptBase) = 2
    BY DEF PreemptBase, Preempt
  <1>2. DOMAIN PreemptBase = {1, 2} /\ PreemptBase[1] = "full" /\ PreemptBase[2] = "lazy"
    BY DEF PreemptBase, Preempt
  <1>3. Offered(PreemptBase) = {"full", "lazy"}
    BY <1>2 DEF Offered
  <1>4. "voluntary" \in Preempt /\ "none" \in Preempt
    BY DEF Preempt
  <1>5. /\ PreemptThree \in Seq(Preempt) /\ Len(PreemptThree) = Len(PreemptBase) + 1
        /\ DropLast(PreemptThree) = PreemptBase
    BY <1>1, <1>4, DropLastAppend DEF PreemptThree
  <1>6. Offered(PreemptThree) = Offered(PreemptBase) \cup {"voluntary"}
    BY <1>1, OfferedAppend DEF PreemptThree, Preempt
  <1>7. DropLast(PreemptFour) = PreemptThree /\ Len(PreemptFour) = Len(PreemptThree) + 1
    BY <1>5, <1>4, DropLastAppend DEF PreemptFour
  <1>8. Offered(PreemptFour) = Offered(PreemptThree) \cup {"none"}
    BY <1>5, OfferedAppend DEF PreemptFour, Preempt
  <1>. QED BY <1>1, <1>3, <1>5, <1>6, <1>7, <1>8
-------------------------------------------------------------------------------
(* The widgets, field by field: what is said of them needs no type of the  *)
(* constants, only that an EXCEPT finds its field.                         *)
SwitchShape(s) ==
    s = [ltoItems |-> s.ltoItems, lto |-> s.lto, preemptItems |-> s.preemptItems,
         preempt |-> s.preempt, hz |-> s.hz, cachyConfig |-> s.cachyConfig,
         zfs |-> s.zfs, zfsEnabled |-> s.zfsEnabled]
WidgetsShape(w) ==
    /\ w = [variant |-> w.variant, switch |-> w.switch, checks |-> w.checks,
            tickless |-> w.tickless, hugepage |-> w.hugepage, cpuOpt |-> w.cpuOpt,
            customName |-> w.customName]
    /\ SwitchShape(w.switch)

(* What the widgets hold is known to a load.                               *)
Values(w) ==
    /\ w.checks \cap {"cachy_config", "builtin_zfs"} = {}
    /\ w.switch.cachyConfig \in BOOLEAN /\ w.switch.zfs \in BOOLEAN
    /\ w.tickless \in Tickless /\ w.hugepage \in Hugepage /\ w.cpuOpt \in CpuOpt
    /\ w.switch.hz \in HzTick

Good(w) == WidgetsShape(w) /\ Values(w) /\ SwitchMatches(w.switch, w.variant)

(* The counting, from either list.                                         *)
LEMMA LtoCounted ==
    ASSUME NEW items \in {LtoBase, LtoFour}, NEW to
    PROVE  LtoItems(items, to) = IF to \notin {"lts", "hardened"} THEN LtoFour ELSE LtoBase
  <1>1. LtoFour = Append(LtoBase, "thin-dist")
    BY DEF LtoFour
  <1>2. CASE items = LtoBase
    <2>1. Len(items) = 3 /\ Append(items, "thin-dist") = LtoFour
      BY <1>1, <1>2, LtoLists
    <2>2. CASE to \in {"lts", "hardened"}
      BY <1>2, <2>1, <2>2 DEF LtoItems
    <2>3. CASE to \notin {"lts", "hardened"}
      <3>1. LtoItems(items, to) = Append(items, "thin-dist")
        BY <2>1, <2>3 DEF LtoItems
      <3>. QED BY <2>1, <2>3, <3>1
    <2>. QED BY <2>2, <2>3
  <1>3. CASE items = LtoFour
    <2>1. Len(items) = 4 /\ DropLast(items) = LtoBase
      BY <1>3, LtoLists
    <2>. QED BY <1>3, <2>1 DEF LtoItems
  <1>. QED BY <1>2, <1>3

LEMMA PreemptCounted ==
    ASSUME NEW items \in {PreemptBase, PreemptFour}, NEW to
    PROVE  PreemptItems(items, to) =
               IF to \in {"lts", "hardened"} THEN PreemptFour ELSE PreemptBase
  <1>1. PreemptFour = Append(Append(PreemptBase, "voluntary"), "none")
    BY DEF PreemptFour, PreemptThree
  <1>2. CASE items = PreemptBase
    <2>1. Len(items) = 2 /\ Append(Append(items, "voluntary"), "none") = PreemptFour
      BY <1>1, <1>2, PreemptLists
    <2>2. CASE to \notin {"lts", "hardened"}
      BY <1>2, <2>1, <2>2 DEF PreemptItems
    <2>3. CASE to \in {"lts", "hardened"}
      <3>1. PreemptItems(items, to) = Append(Append(items, "voluntary"), "none")
        BY <2>1, <2>3 DEF PreemptItems
      <3>. QED BY <2>1, <2>3, <3>1
    <2>. QED BY <2>2, <2>3
  <1>3. CASE items = PreemptFour
    <2>1. Len(items) = 4 /\ DropLast(DropLast(items)) = PreemptBase
      BY <1>3, PreemptLists
    <2>. QED BY <1>3, <2>1 DEF PreemptItems
  <1>. QED BY <1>2, <1>3

(* Wherever a switch comes from, the counting ends with the items of the   *)
(* variant it goes to.                                                     *)
LEMMA SwitchKeepsMatching ==
    ASSUME NEW s, NEW from, NEW to, SwitchMatches(s, from)
    PROVE  SwitchMatches(SwitchTo(s, to), to)
  <1>. DEFINE t == SwitchTo(s, to)
  <1>1. /\ Transitions(from).thinDist = (from \notin {"lts", "hardened"})
        /\ Transitions(from).extendedPreempt = (from \in {"lts", "hardened"})
        /\ Transitions(to).thinDist = (to \notin {"lts", "hardened"})
        /\ Transitions(to).extendedPreempt = (to \in {"lts", "hardened"})
        /\ Transitions(to).zfsEnabled = (to # "rt")
    BY DEF Transitions
  <1>2. /\ s.ltoItems = IF from \notin {"lts", "hardened"} THEN LtoFour ELSE LtoBase
        /\ s.preemptItems = IF from \in {"lts", "hardened"} THEN PreemptFour ELSE PreemptBase
    BY <1>1 DEF SwitchMatches, LtoFour, PreemptFour, PreemptThree
  <1>3. /\ t.ltoItems = LtoItems(s.ltoItems, to)
        /\ t.preemptItems = PreemptItems(s.preemptItems, to)
        /\ t.lto = IF to \in {"cachyos", "rc"} THEN "thin" ELSE "none"
        /\ t.preempt = IF to = "server" THEN "lazy" ELSE "full"
        /\ t.zfsEnabled = (to # "rt")
    BY DEF SwitchTo
  <1>4. t.ltoItems = IF to \notin {"lts", "hardened"} THEN LtoFour ELSE LtoBase
    BY <1>2, <1>3, LtoCounted
  <1>5. t.preemptItems = IF to \in {"lts", "hardened"} THEN PreemptFour ELSE PreemptBase
    BY <1>2, <1>3, PreemptCounted
  <1>6. t.lto \in Offered(t.ltoItems)
    BY <1>3, <1>4, LtoLists
  <1>7. t.preempt \in Offered(t.preemptItems)
    BY <1>3, <1>5, PreemptLists
  <1>. HIDE DEF t
  <1>. QED BY <1>1, <1>3, <1>4, <1>5, <1>6, <1>7
           DEF SwitchMatches, LtoFour, PreemptFour, PreemptThree, t

(* Every control leaves widgets that a load knows and that match.          *)
LEMMA DefaultGood == Good(DefaultWidgets)
  <1>1. Append(LtoBase, "thin-dist") = LtoFour
    BY DEF LtoFour
  <1>2. "thin" \in Offered(LtoFour) /\ "full" \in Offered(PreemptBase)
    BY LtoLists, PreemptLists
  <1>3. SwitchMatches(DefaultSwitch, "cachyos")
    BY <1>1, <1>2 DEF SwitchMatches, DefaultSwitch, Transitions
  <1>4. WidgetsShape(DefaultWidgets)
    BY DEF WidgetsShape, SwitchShape, DefaultWidgets, DefaultSwitch
  <1>5. Values(DefaultWidgets)
    BY DEF Values, DefaultWidgets, DefaultSwitch, Tickless, Hugepage, CpuOpt, HzTick
  <1>6. DefaultWidgets.switch = DefaultSwitch /\ DefaultWidgets.variant = "cachyos"
    BY DEF DefaultWidgets
  <1>. QED BY <1>3, <1>4, <1>5, <1>6 DEF Good

(* A record of that shape, by its fields.                                  *)
LEMMA Fields ==
    ASSUME NEW w, WidgetsShape(w)
    PROVE  \E v, s, c, t, h, o, n :
               w = [variant |-> v, switch |-> s, checks |-> c, tickless |-> t,
                    hugepage |-> h, cpuOpt |-> o, customName |-> n]
  BY DEF WidgetsShape

LEMMA VariantGood ==
    ASSUME NEW w, Good(w), NEW v
    PROVE  Good(OnVariantChanged(w, v))
  <1>. DEFINE x == OnVariantChanged(w, v)
  <1>. DEFINE u == SwitchTo(w.switch, v)
  <1>1. /\ x.variant = v /\ x.switch = u /\ x.checks = w.checks
        /\ x.tickless = w.tickless /\ x.hugepage = w.hugepage /\ x.cpuOpt = w.cpuOpt
        /\ x.customName = w.customName
        /\ x = [variant |-> x.variant, switch |-> x.switch, checks |-> x.checks,
             tickless |-> x.tickless, hugepage |-> x.hugepage, cpuOpt |-> x.cpuOpt,
             customName |-> x.customName]
    <2>. HIDE DEF u
    <2>1. PICK v0, s, c, t, h, o, n :
              w = [variant |-> v0, switch |-> s, checks |-> c, tickless |-> t,
                   hugepage |-> h, cpuOpt |-> o, customName |-> n]
      BY Fields DEF Good
    <2>2. x = [w EXCEPT !.variant = v, !.switch = u]
      BY DEF OnVariantChanged, u
    <2>. HIDE DEF x
    <2>. QED BY <2>1, <2>2
  <1>2. SwitchMatches(u, v)
    BY SwitchKeepsMatching DEF Good
  <1>3. SwitchShape(u)
    BY DEF SwitchShape, SwitchTo
  <1>4. u.hz \in HzTick /\ u.cachyConfig \in BOOLEAN /\ u.zfs \in BOOLEAN
    BY DEF SwitchTo, HzTick, Good, Values
  <1>. HIDE DEF x, u
  <1>5. WidgetsShape(x)
    BY <1>1, <1>3 DEF WidgetsShape
  <1>6. Values(x)
    BY <1>1, <1>4 DEF Values, Good
  <1>7. Good(x)
    BY <1>1, <1>2, <1>5, <1>6 DEF Good
  <1>. QED BY <1>7 DEF x

LEMMA SwitchFields ==
    ASSUME NEW s, SwitchShape(s)
    PROVE  \E a, b, c, d, e, f, g, h :
               s = [ltoItems |-> a, lto |-> b, preemptItems |-> c, preempt |-> d,
                    hz |-> e, cachyConfig |-> f, zfs |-> g, zfsEnabled |-> h]
  BY DEF SwitchShape

(* What the controls other than the variant can make of w.                 *)
With(w, l, p, z, cc, zf, c, t, h, o, n) ==
    [variant |-> w.variant,
     switch |-> [ltoItems |-> w.switch.ltoItems, lto |-> l,
                 preemptItems |-> w.switch.preemptItems, preempt |-> p, hz |-> z,
                 cachyConfig |-> cc, zfs |-> zf, zfsEnabled |-> w.switch.zfsEnabled],
     checks |-> c, tickless |-> t, hugepage |-> h, cpuOpt |-> o, customName |-> n]
Same(w) == With(w, w.switch.lto, w.switch.preempt, w.switch.hz, w.switch.cachyConfig,
                w.switch.zfs, w.checks, w.tickless, w.hugepage, w.cpuOpt, w.customName)

LEMMA WithGood ==
    ASSUME NEW w, Good(w), NEW l \in Offered(w.switch.ltoItems),
           NEW p \in Offered(w.switch.preemptItems), NEW z \in HzTick,
           NEW cc \in BOOLEAN, NEW zf \in BOOLEAN,
           NEW c, c \cap {"cachy_config", "builtin_zfs"} = {},
           NEW t \in Tickless, NEW h \in Hugepage, NEW o \in CpuOpt, NEW n
    PROVE  Good(With(w, l, p, z, cc, zf, c, t, h, o, n))
  <1>. DEFINE x == With(w, l, p, z, cc, zf, c, t, h, o, n)
  <1>1. WidgetsShape(x)
    BY DEF WidgetsShape, SwitchShape, With
  <1>2. Values(x)
    BY DEF Values, With
  <1>3. SwitchMatches(x.switch, x.variant)
    BY DEF SwitchMatches, Good, With
  <1>. QED BY <1>1, <1>2, <1>3 DEF Good

LEMMA SameIs ==
    ASSUME NEW w, Good(w)
    PROVE  w = Same(w)
  BY DEF Good, WidgetsShape, SwitchShape, Same, With

(* What holds of the values of good widgets, for the lemmas below.         *)
LEMMA GoodValues ==
    ASSUME NEW w, Good(w)
    PROVE  /\ w.switch.lto \in Offered(w.switch.ltoItems)
           /\ w.switch.preempt \in Offered(w.switch.preemptItems)
           /\ Values(w)
  BY DEF Good, SwitchMatches

LEMMA LtoGood ==
    ASSUME NEW w, Good(w), NEW l \in Offered(w.switch.ltoItems)
    PROVE  Good([w EXCEPT !.switch.lto = l])
  <1>1. [w EXCEPT !.switch.lto = l] =
            With(w, l, w.switch.preempt, w.switch.hz, w.switch.cachyConfig,
                 w.switch.zfs, w.checks, w.tickless, w.hugepage, w.cpuOpt, w.customName)
    BY SameIs DEF Same, With
  <1>. QED BY <1>1, GoodValues, WithGood DEF Values

LEMMA PreemptGood ==
    ASSUME NEW w, Good(w), NEW p \in Offered(w.switch.preemptItems)
    PROVE  Good([w EXCEPT !.switch.preempt = p])
  <1>1. [w EXCEPT !.switch.preempt = p] =
            With(w, w.switch.lto, p, w.switch.hz, w.switch.cachyConfig,
                 w.switch.zfs, w.checks, w.tickless, w.hugepage, w.cpuOpt, w.customName)
    BY SameIs DEF Same, With
  <1>. QED BY <1>1, GoodValues, WithGood DEF Values

LEMMA NameGood ==
    ASSUME NEW w, Good(w), NEW n
    PROVE  Good([w EXCEPT !.customName = n])
  <1>1. [w EXCEPT !.customName = n] =
            With(w, w.switch.lto, w.switch.preempt, w.switch.hz, w.switch.cachyConfig,
                 w.switch.zfs, w.checks, w.tickless, w.hugepage, w.cpuOpt, n)
    BY SameIs DEF Same, With
  <1>. QED BY <1>1, GoodValues, WithGood DEF Values

LEMMA CheckGood ==
    ASSUME NEW w, Good(w), NEW c
    PROVE  Good(CheckToggled(w, c))
  <1>1. CASE c = "cachy_config"
    <2>. DEFINE b == ~w.switch.cachyConfig
    <2>1. CheckToggled(w, c) =
              With(w, w.switch.lto, w.switch.preempt, w.switch.hz, b,
                   w.switch.zfs, w.checks, w.tickless, w.hugepage, w.cpuOpt, w.customName)
      BY <1>1, SameIs DEF CheckToggled, Same, With
    <2>2. b \in BOOLEAN
      OBVIOUS
    <2>. HIDE DEF b
    <2>. QED BY <2>1, <2>2, GoodValues, WithGood DEF Values
  <1>2. CASE c = "builtin_zfs"
    <2>. DEFINE b == ~w.switch.zfs
    <2>1. CheckToggled(w, c) =
              With(w, w.switch.lto, w.switch.preempt, w.switch.hz, w.switch.cachyConfig,
                   b, w.checks, w.tickless, w.hugepage, w.cpuOpt, w.customName)
      BY <1>2, SameIs DEF CheckToggled, Same, With
    <2>2. b \in BOOLEAN
      OBVIOUS
    <2>. HIDE DEF b
    <2>. QED BY <2>1, <2>2, GoodValues, WithGood DEF Values
  <1>3. CASE c \notin {"cachy_config", "builtin_zfs"}
    <2>. DEFINE k == IF c \in w.checks THEN w.checks \ {c} ELSE w.checks \cup {c}
    <2>1. CheckToggled(w, c) =
              With(w, w.switch.lto, w.switch.preempt, w.switch.hz, w.switch.cachyConfig,
                   w.switch.zfs, k, w.tickless, w.hugepage, w.cpuOpt, w.customName)
      BY <1>3, SameIs DEF CheckToggled, Same, With
    <2>2. k \cap {"cachy_config", "builtin_zfs"} = {}
      BY <1>3, GoodValues DEF Values
    <2>. HIDE DEF k
    <2>. QED BY <2>1, <2>2, GoodValues, WithGood DEF Values
  <1>. QED BY <1>1, <1>2, <1>3

(* The value a load leaves, of the file or as it was.                      *)
Loaded(ok, new, old) == IF ok THEN new ELSE old

LEMMA LoadIs ==
    ASSUME NEW w, Good(w), NEW config
    PROVE  LET k == Known(w, config) IN
           LoadConfig(w, config) =
               With(w, Loaded(k.lto, config.lto, w.switch.lto),
                    Loaded(k.preempt, config.preempt, w.switch.preempt),
                    Loaded(k.hz, config.hz, w.switch.hz),
                    "cachy_config" \in config.checked, "builtin_zfs" \in config.checked,
                    config.checked \ {"cachy_config", "builtin_zfs"},
                    Loaded(k.tickless, config.tickless, w.tickless),
                    Loaded(k.hugepage, config.hugepage, w.hugepage),
                    Loaded(k.cpuOpt, config.cpuOpt, w.cpuOpt), config.customName)
  <1>. DEFINE k == Known(w, config)
              l == Loaded(k.lto, config.lto, w.switch.lto)
              p == Loaded(k.preempt, config.preempt, w.switch.preempt)
              z == Loaded(k.hz, config.hz, w.switch.hz)
              c == config.checked \ {"cachy_config", "builtin_zfs"}
              t == Loaded(k.tickless, config.tickless, w.tickless)
              h == Loaded(k.hugepage, config.hugepage, w.hugepage)
              o == Loaded(k.cpuOpt, config.cpuOpt, w.cpuOpt)
              cc == "cachy_config" \in config.checked
              zf == "builtin_zfs" \in config.checked
  <1>1. LoadConfig(w, config) =
            [w EXCEPT !.checks = c, !.customName = config.customName,
                      !.tickless = t, !.hugepage = h, !.cpuOpt = o,
                      !.switch.lto = l, !.switch.preempt = p, !.switch.hz = z,
                      !.switch.cachyConfig = cc, !.switch.zfs = zf]
    <2>. HIDE DEF k
    <2>. QED BY DEF LoadConfig, Loaded, k
  <1>. HIDE DEF k, l, p, z, c, t, h, o, cc, zf
  <1>. DEFINE
          n == config.customName
          y1 == [w EXCEPT !.checks = c]
          y2 == [y1 EXCEPT !.customName = n]
          y3 == [y2 EXCEPT !.tickless = t]
          y4 == [y3 EXCEPT !.hugepage = h]
          x1 == [y4 EXCEPT !.cpuOpt = o]
          x2 == [x1 EXCEPT !.switch.lto = l]
          x3 == [x2 EXCEPT !.switch.preempt = p]
          x4 == [x3 EXCEPT !.switch.hz = z]
          x5 == [x4 EXCEPT !.switch.cachyConfig = cc]
          x6 == [x5 EXCEPT !.switch.zfs = zf]
  <1>2. LoadConfig(w, config) = x6
    BY <1>1
  <1>3. x1 = With(w, w.switch.lto, w.switch.preempt, w.switch.hz, w.switch.cachyConfig,
                  w.switch.zfs, c, t, h, o, n)
    <2>. DEFINE s == w.switch
    <2>1. PICK v0, c0, t0, h0, o0, n0 :
              /\ w = [variant |-> v0, switch |-> s, checks |-> c0, tickless |-> t0,
                      hugepage |-> h0, cpuOpt |-> o0, customName |-> n0]
              /\ w.variant = v0
      BY DEF Good, WidgetsShape
    <2>2. SwitchShape(s)
      BY DEF Good, WidgetsShape
    <2>. HIDE DEF s, n
    <2>3. y1 = [variant |-> v0, switch |-> s, checks |-> c, tickless |-> t0,
                hugepage |-> h0, cpuOpt |-> o0, customName |-> n0]
      BY <2>1
    <2>. HIDE DEF y1
    <2>4. y2 = [variant |-> v0, switch |-> s, checks |-> c, tickless |-> t0,
                hugepage |-> h0, cpuOpt |-> o0, customName |-> n]
      BY <2>3
    <2>. HIDE DEF y2
    <2>5. y3 = [variant |-> v0, switch |-> s, checks |-> c, tickless |-> t,
                hugepage |-> h0, cpuOpt |-> o0, customName |-> n]
      BY <2>4
    <2>. HIDE DEF y3
    <2>6. y4 = [variant |-> v0, switch |-> s, checks |-> c, tickless |-> t,
                hugepage |-> h, cpuOpt |-> o0, customName |-> n]
      BY <2>5
    <2>. HIDE DEF y4
    <2>7. x1 = [variant |-> v0, switch |-> s, checks |-> c, tickless |-> t,
                hugepage |-> h, cpuOpt |-> o, customName |-> n]
      BY <2>6
    <2>. HIDE DEF x1
    <2>. QED BY <2>1, <2>2, <2>7 DEF With, SwitchShape, s
  <1>. HIDE DEF x1
  <1>4. x2 = With(w, l, w.switch.preempt, w.switch.hz, w.switch.cachyConfig,
                  w.switch.zfs, c, t, h, o, n)
    BY <1>3 DEF With
  <1>. HIDE DEF x2
  <1>5. x3 = With(w, l, p, w.switch.hz, w.switch.cachyConfig, w.switch.zfs, c, t, h, o, n)
    BY <1>4 DEF With
  <1>. HIDE DEF x3
  <1>6. x4 = With(w, l, p, z, w.switch.cachyConfig, w.switch.zfs, c, t, h, o, n)
    BY <1>5 DEF With
  <1>. HIDE DEF x4
  <1>7. x5 = With(w, l, p, z, cc, w.switch.zfs, c, t, h, o, n)
    BY <1>6 DEF With
  <1>. HIDE DEF x5
  <1>8. x6 = With(w, l, p, z, cc, zf, c, t, h, o, n)
    BY <1>7 DEF With
  <1>9. LoadConfig(w, config) = With(w, l, p, z, cc, zf, c, t, h, o, n)
    BY <1>2, <1>8
  <1>. QED BY <1>9 DEF k, l, p, z, c, t, h, o, cc, zf, n

LEMMA LoadGood ==
    ASSUME NEW w, Good(w), NEW config
    PROVE  Good(LoadConfig(w, config))
  <1>. DEFINE k == Known(w, config)
              l == Loaded(k.lto, config.lto, w.switch.lto)
              p == Loaded(k.preempt, config.preempt, w.switch.preempt)
              z == Loaded(k.hz, config.hz, w.switch.hz)
              c == config.checked \ {"cachy_config", "builtin_zfs"}
              t == Loaded(k.tickless, config.tickless, w.tickless)
              h == Loaded(k.hugepage, config.hugepage, w.hugepage)
              o == Loaded(k.cpuOpt, config.cpuOpt, w.cpuOpt)
              cc == "cachy_config" \in config.checked
              zf == "builtin_zfs" \in config.checked
  <1>1. LoadConfig(w, config) = With(w, l, p, z, cc, zf, c, t, h, o, config.customName)
    BY LoadIs
  <1>2. /\ l \in Offered(w.switch.ltoItems) /\ p \in Offered(w.switch.preemptItems)
        /\ z \in HzTick /\ t \in Tickless /\ h \in Hugepage /\ o \in CpuOpt
    BY GoodValues DEF Known, Values, Loaded
  <1>3. c \cap {"cachy_config", "builtin_zfs"} = {} /\ cc \in BOOLEAN /\ zf \in BOOLEAN
    OBVIOUS
  <1>. HIDE DEF l, p, z, c, t, h, o, cc, zf
  <1>. QED BY <1>1, <1>2, <1>3, WithGood

(* What was read from good widgets is known to them, and loads as they are. *)
LEMMA GoodRoundTrip ==
    ASSUME NEW w, Good(w)
    PROVE  ~Outdated(w, ToConfig(w)) /\ LoadConfig(w, ToConfig(w)) = w
  <1>. DEFINE config == ToConfig(w)
              k == Known(w, config)
  <1>1. /\ config.lto = w.switch.lto /\ config.preempt = w.switch.preempt
        /\ config.hz = w.switch.hz /\ config.tickless = w.tickless
        /\ config.hugepage = w.hugepage /\ config.cpuOpt = w.cpuOpt
        /\ config.customName = w.customName /\ config.checked = Checked(w)
    BY DEF ToConfig
  <1>. HIDE DEF config
  <1>2. k = [tickless |-> TRUE, hugepage |-> TRUE, cpuOpt |-> TRUE, hz |-> TRUE,
             lto |-> TRUE, preempt |-> TRUE]
    BY <1>1, GoodValues DEF Known, Values
  <1>3. ~Outdated(w, config)
    BY <1>2 DEF Outdated
  <1>4. /\ ("cachy_config" \in config.checked) = w.switch.cachyConfig
        /\ ("builtin_zfs" \in config.checked) = w.switch.zfs
        /\ config.checked \ {"cachy_config", "builtin_zfs"} = w.checks
    BY <1>1, GoodValues DEF Checked, Values
  <1>5. LoadConfig(w, config) = Same(w)
    <2>. DEFINE cc == "cachy_config" \in config.checked
                zf == "builtin_zfs" \in config.checked
                c == config.checked \ {"cachy_config", "builtin_zfs"}
    <2>1. LoadConfig(w, config) =
              With(w, Loaded(k.lto, config.lto, w.switch.lto),
                   Loaded(k.preempt, config.preempt, w.switch.preempt),
                   Loaded(k.hz, config.hz, w.switch.hz), cc, zf, c,
                   Loaded(k.tickless, config.tickless, w.tickless),
                   Loaded(k.hugepage, config.hugepage, w.hugepage),
                   Loaded(k.cpuOpt, config.cpuOpt, w.cpuOpt), config.customName)
      BY LoadIs
    <2>2. cc = w.switch.cachyConfig /\ zf = w.switch.zfs /\ c = w.checks
      BY <1>4
    <2>. HIDE DEF cc, zf, c, k
    <2>. QED BY <1>1, <1>2, <2>1, <2>2 DEF Same, Loaded
  <1>. QED BY <1>3, <1>5, SameIs DEF config
-------------------------------------------------------------------------------
(* The probes under way: none is of a later epoch than now, and one that   *)
(* an edit overtook is of an earlier one.                                  *)
ProbeShape(r) ==
    r = [pc |-> r.pc, kind |-> r.kind, gen |-> r.gen, options |-> r.options,
         found |-> r.found, overtaken |-> r.overtaken]
ProbeInv(r, now) ==
    /\ ProbeShape(r)
    /\ r.gen \in Nat /\ r.gen <= now
    /\ r.overtaken => r.gen < now
ProbesInv ==
    /\ epoch \in Nat
    /\ probe = [p \in Probes |-> probe[p]]
    /\ \A p \in Probes : ProbeInv(probe[p], epoch)

LEMMA IdleProbeHolds == \A now \in Nat : ProbeInv(IdleProbe, now)
  BY DEF ProbeInv, ProbeShape, IdleProbe

LEMMA LaterHolds ==
    ASSUME NEW r, NEW now \in Nat, ProbeInv(r, now), NEW mark
    PROVE  ProbeInv(r, now + 1) /\ ProbeInv([r EXCEPT !.overtaken = mark], now + 1)
  <1>. DEFINE x == [r EXCEPT !.overtaken = mark]
  <1>1. r.gen \in Nat /\ r.gen < now + 1 /\ r.gen <= now + 1
    BY DEF ProbeInv
  <1>2. ProbeInv(r, now + 1)
    BY <1>1 DEF ProbeInv
  <1>3. PICK pc, kind, gen, o, found, b :
            r = [pc |-> pc, kind |-> kind, gen |-> gen, options |-> o,
                 found |-> found, overtaken |-> b]
    BY DEF ProbeInv, ProbeShape
  <1>4. x = [pc |-> pc, kind |-> kind, gen |-> gen, options |-> o,
             found |-> found, overtaken |-> mark]
    BY <1>3
  <1>. HIDE DEF x
  <1>5. x.gen = r.gen
    BY <1>3, <1>4
  <1>6. ProbeShape(x)
    BY <1>4 DEF ProbeShape
  <1>7. ProbeInv(x, now + 1)
    BY <1>1, <1>5, <1>6 DEF ProbeInv
  <1>. QED BY <1>2, <1>7 DEF x

(* One probe is replaced by one that holds.                                *)
LEMMA OneProbe ==
    ASSUME ProbesInv, NEW p \in Probes, NEW r, ProbeInv(r, epoch), epoch' = epoch,
           probe' = [probe EXCEPT ![p] = r]
    PROVE  ProbesInv'
  BY DEF ProbesInv

LEMMA StartProbeHolds ==
    ASSUME ProbesInv, NEW kind, NEW o, StartProbe(kind, o)
    PROVE  ProbesInv'
  <1>. DEFINE r == [pc |-> IF kind = "prepare" THEN "git" ELSE "read", kind |-> kind,
                    gen |-> epoch + 1, options |-> o, found |-> << >>,
                    overtaken |-> FALSE]
  <1>1. PICK p \in Probes : probe' = [probe EXCEPT ![p] = r]
    BY DEF StartProbe
  <1>2. epoch' = epoch + 1 /\ epoch \in Nat
    BY DEF StartProbe, ProbesInv
  <1>3. ProbeInv(r, epoch')
    BY <1>2 DEF ProbeInv, ProbeShape
  <1>. HIDE DEF r
  <1>4. \A q \in Probes : ProbeInv(probe[q], epoch')
    BY <1>2, LaterHolds DEF ProbesInv
  <1>. QED BY <1>1, <1>2, <1>3, <1>4 DEF ProbesInv

LEMMA EditedHolds ==
    ASSUME ProbesInv, NEW list, Edited(list)
    PROVE  ProbesInv'
  <1>1. epoch' = epoch + 1 /\ epoch \in Nat
    BY DEF Edited, ProbesInv
  <1>2. probe' = [p \in Probes |-> IF probe[p].pc = "idle" THEN probe[p]
                                   ELSE [probe[p] EXCEPT !.overtaken = TRUE]]
    BY DEF Edited, Overtake
  <1>3. \A q \in Probes : /\ ProbeInv(probe[q], epoch')
                          /\ ProbeInv([probe[q] EXCEPT !.overtaken = TRUE], epoch')
    BY <1>1, LaterHolds DEF ProbesInv
  <1>. QED BY <1>1, <1>2, <1>3 DEF ProbesInv

(* A probe goes on: with its own number and mark.                          *)
LEMMA GoesOn ==
    ASSUME NEW r, NEW now, ProbeInv(r, now), NEW to, NEW what
    PROVE  /\ ProbeInv([r EXCEPT !.pc = to], now)
           /\ ProbeInv([r EXCEPT !.pc = to, !.found = what], now)
  <1>1. PICK pc, kind, gen, o, found, b :
            r = [pc |-> pc, kind |-> kind, gen |-> gen, options |-> o,
                 found |-> found, overtaken |-> b]
    BY DEF ProbeInv, ProbeShape
  <1>. DEFINE x == [r EXCEPT !.pc = to]
              y == [x EXCEPT !.found = what]
  <1>2. x = [pc |-> to, kind |-> kind, gen |-> gen, options |-> o,
             found |-> found, overtaken |-> b]
    BY <1>1
  <1>3. y = [r EXCEPT !.pc = to, !.found = what]
    OBVIOUS
  <1>. HIDE DEF x
  <1>4. y = [pc |-> to, kind |-> kind, gen |-> gen, options |-> o,
             found |-> what, overtaken |-> b]
    BY <1>2
  <1>. HIDE DEF y
  <1>5. /\ gen \in Nat /\ gen <= now
        /\ b => gen < now
    BY <1>1 DEF ProbeInv
  <1>6. ProbeInv(x, now)
    BY <1>2, <1>5 DEF ProbeInv, ProbeShape
  <1>7. ProbeInv(y, now)
    BY <1>4, <1>5 DEF ProbeInv, ProbeShape
  <1>. QED BY <1>3, <1>6, <1>7 DEF x

(* The invariant.                                                          *)
IInv == ProbesInv /\ Good(widgets) /\ OptionsFollowWidgets

LEMMA Initially == Init => IInv
  <1>. SUFFICES ASSUME Init PROVE IInv
    OBVIOUS
  <1>1. ProbesInv
    BY IdleProbeHolds DEF Init, ProbesInv
  <1>2. Good(widgets)
    BY DefaultGood DEF Init
  <1>3. OptionsOf(DefaultWidgets) = DefaultOptions
    BY DEF OptionsOf, DefaultWidgets, DefaultSwitch, DefaultOptions, Transitions, Checked
  <1>. QED BY <1>1, <1>2, <1>3 DEF IInv, OptionsFollowWidgets, Init

(* What the invariant needs of a step that leaves the probes, or the       *)
(* widgets, alone.                                                         *)
LEMMA ProbesKept ==
    ASSUME ProbesInv, UNCHANGED <<probe, epoch>>
    PROVE  ProbesInv'
  BY DEF ProbesInv

LEMMA WidgetsKept ==
    ASSUME Good(widgets), OptionsFollowWidgets, UNCHANGED <<widgets, options>>
    PROVE  Good(widgets)' /\ OptionsFollowWidgets'
  BY DEF OptionsFollowWidgets

LEMMA SyncedHolds ==
    ASSUME NEW w, Good(w), Synced(w)
    PROVE  Good(widgets)' /\ OptionsFollowWidgets'
  BY DEF Synced, OptionsFollowWidgets

LEMMA Inductive == IInv /\ [Next]_vars => IInv'
  <1>. SUFFICES ASSUME IInv, [Next]_vars PROVE IInv'
    OBVIOUS
  <1>. USE DEF IInv
  <1>1. CASE ConfigureRequested
    <2>1. ProbesInv'
      BY <1>1, StartProbeHolds DEF ConfigureRequested
    <2>. QED BY <1>1, <2>1, WidgetsKept DEF ConfigureRequested
  <1>2. CASE Cancel
    BY <1>2, ProbesKept, WidgetsKept DEF Cancel, threads
  <1>3. CASE DialogDismissed
    BY <1>3, ProbesKept, WidgetsKept DEF DialogDismissed, threads
  <1>4. CASE Restart
    <2>1. ProbesInv'
      BY <1>4, IdleProbeHolds DEF Restart, ProbesInv
    <2>2. widgets' = DefaultWidgets /\ options' = DefaultOptions
      BY <1>4 DEF Restart
    <2>3. OptionsOf(DefaultWidgets) = DefaultOptions
      BY DEF OptionsOf, DefaultWidgets, DefaultSwitch, DefaultOptions, Transitions, Checked
    <2>. QED BY <2>1, <2>2, <2>3, DefaultGood DEF OptionsFollowWidgets
  <1>5. CASE VariantPicked
    <2>1. PICK v \in Picks : SyncedAndProbed(OnVariantChanged(widgets, v))
      BY <1>5 DEF VariantPicked
    <2>. DEFINE w == OnVariantChanged(widgets, v)
    <2>2. Good(w)
      BY VariantGood
    <2>. HIDE DEF w
    <2>3. Synced(w) /\ StartProbe("refresh", OptionsOf(w))
      BY <2>1 DEF SyncedAndProbed, w
    <2>. QED BY <2>2, <2>3, SyncedHolds, StartProbeHolds
  <1>6. CASE LtoPicked
    <2>1. PICK l \in Offered(widgets.switch.ltoItems) :
              SyncedAndProbed([widgets EXCEPT !.switch.lto = l])
      BY <1>6 DEF LtoPicked
    <2>. DEFINE w == [widgets EXCEPT !.switch.lto = l]
    <2>2. Good(w)
      BY LtoGood
    <2>. HIDE DEF w
    <2>3. Synced(w) /\ StartProbe("refresh", OptionsOf(w))
      BY <2>1 DEF SyncedAndProbed, w
    <2>. QED BY <2>2, <2>3, SyncedHolds, StartProbeHolds
  <1>7. CASE NvidiaOpenToggled
    <2>. DEFINE w == CheckToggled(widgets, "builtin_nvidia_open")
    <2>2. Good(w)
      BY CheckGood
    <2>. HIDE DEF w
    <2>3. Synced(w) /\ StartProbe("refresh", OptionsOf(w))
      BY <1>7 DEF NvidiaOpenToggled, SyncedAndProbed, w
    <2>. QED BY <2>2, <2>3, SyncedHolds, StartProbeHolds
  <1>8. CASE PreemptPicked
    <2>1. PICK p \in Offered(widgets.switch.preemptItems) :
              Synced([widgets EXCEPT !.switch.preempt = p])
      BY <1>8 DEF PreemptPicked
    <2>2. Good([widgets EXCEPT !.switch.preempt = p])
      BY PreemptGood
    <2>3. UNCHANGED <<probe, epoch>>
      BY <1>8 DEF PreemptPicked, threads
    <2>. QED BY <2>1, <2>2, <2>3, SyncedHolds, ProbesKept
  <1>9. CASE CustomNameChanged
    <2>1. PICK name \in CustomNames : Synced([widgets EXCEPT !.customName = name])
      BY <1>9 DEF CustomNameChanged
    <2>2. Good([widgets EXCEPT !.customName = name])
      BY NameGood
    <2>3. UNCHANGED <<probe, epoch>>
      BY <1>9 DEF CustomNameChanged, threads
    <2>. QED BY <2>1, <2>2, <2>3, SyncedHolds, ProbesKept
  <1>10. CASE OtherCheckToggled
    <2>1. PICK c \in Toggles : Synced(CheckToggled(widgets, c))
      BY <1>10 DEF OtherCheckToggled
    <2>2. Good(CheckToggled(widgets, c))
      BY CheckGood
    <2>3. UNCHANGED <<probe, epoch>>
      BY <1>10 DEF OtherCheckToggled, threads
    <2>. QED BY <2>1, <2>2, <2>3, SyncedHolds, ProbesKept
  <1>11. CASE PatchMoved
    <2>1. PICK list : Edited(list)
      BY <1>11 DEF PatchMoved
    <2>. QED BY <2>1, EditedHolds, WidgetsKept DEF Edited
  <1>12. CASE PatchRemoved
    <2>1. PICK list : Edited(list)
      BY <1>12 DEF PatchRemoved
    <2>. QED BY <2>1, EditedHolds, WidgetsKept DEF Edited
  <1>13. CASE PatchAdded
    <2>1. CASE \E list : Edited(list)
      <3>1. PICK list : Edited(list)
        BY <2>1
      <3>. QED BY <3>1, EditedHolds, WidgetsKept DEF Edited
    <2>2. CASE UNCHANGED <<conf, dialog, widgets, patches, options, epoch, threads, disk>>
      BY <2>2, ProbesKept, WidgetsKept DEF threads
    <2>. QED BY <1>13, <2>1, <2>2 DEF PatchAdded
  <1>14. CASE PathDialogOpened
    BY <1>14, ProbesKept, WidgetsKept DEF PathDialogOpened, threads
  <1>15. CASE PathDialogDismissed
    BY <1>15, ProbesKept, WidgetsKept DEF PathDialogDismissed, threads
  <1>16. ASSUME NEW p \in Probes,
                GitRefresh(p) \/ ProbePatchEntries(p) \/ ProbeDone(p) \/ ProbePanics(p)
         PROVE  IInv'
    <2>0. ProbeInv(probe[p], epoch) /\ ProbeInv(IdleProbe, epoch)
      BY IdleProbeHolds DEF ProbesInv
    <2>1. CASE GitRefresh(p)
      <3>. DEFINE r == [probe[p] EXCEPT !.pc = "read"]
      <3>1. ProbeInv(r, epoch)
        BY <2>0, GoesOn
      <3>2. probe' = [probe EXCEPT ![p] = r] /\ UNCHANGED <<epoch, widgets, options>>
        BY <2>1 DEF GitRefresh, ui
      <3>. HIDE DEF r
      <3>. QED BY <3>1, <3>2, OneProbe, WidgetsKept
    <2>2. CASE ProbePatchEntries(p)
      <3>1. PICK found : probe' = [probe EXCEPT ![p].pc = "done",
                                                ![p].found = ResetPatches(found)]
        BY <2>2 DEF ProbePatchEntries
      <3>. DEFINE what == ResetPatches(found)
                  r == [probe[p] EXCEPT !.pc = "done", !.found = what]
      <3>2. probe' = [probe EXCEPT ![p] = r] /\ UNCHANGED <<epoch, widgets, options>>
        <4>. HIDE DEF what
        <4>1. probe' = [probe EXCEPT ![p].pc = "done", ![p].found = what]
          BY <3>1 DEF what
        <4>2. UNCHANGED <<epoch, widgets, options>>
          BY <2>2 DEF ProbePatchEntries, ui
        <4>3. probe = [q \in Probes |-> probe[q]]
          BY DEF ProbesInv
        <4>. QED BY <4>1, <4>2, <4>3
      <3>. HIDE DEF what
      <3>3. ProbeInv(r, epoch)
        BY <2>0, GoesOn
      <3>. HIDE DEF r
      <3>. QED BY <3>2, <3>3, OneProbe, WidgetsKept
    <2>3. CASE ProbeDone(p)
      <3>1. ProbesInv'
        BY <2>0, <2>3, OneProbe DEF ProbeDone
      <3>2. widgets' = widgets /\ options' \in {options, OptionsOf(widgets)}
        BY <2>3 DEF ProbeDone
      <3>. QED BY <3>1, <3>2 DEF OptionsFollowWidgets
    <2>4. CASE ProbePanics(p)
      <3>1. ProbesInv'
        BY <2>0, <2>4, OneProbe DEF ProbePanics
      <3>. QED BY <2>4, <3>1, WidgetsKept DEF ProbePanics
    <2>. QED BY <1>16, <2>1, <2>2, <2>3, <2>4
  <1>17. ASSUME NEW l \in Loads,
                LoadSubmitted(l) \/ LoadRead(l) \/ ConfigLoaded(l) \/ ConfigError(l)
         PROVE  IInv'
    <2>1. CASE LoadSubmitted(l)
      BY <2>1, ProbesKept, WidgetsKept DEF LoadSubmitted
    <2>2. CASE LoadRead(l)
      BY <2>2, ProbesKept, WidgetsKept DEF LoadRead, ui
    <2>3. CASE ConfigLoaded(l)
      <3>. DEFINE w == LoadConfig(widgets, load[l].config)
      <3>1. Good(w)
        BY LoadGood
      <3>. HIDE DEF w
      <3>2. Synced(w) /\ StartProbe("refresh", options')
        BY <2>3 DEF ConfigLoaded, w
      <3>. QED BY <3>1, <3>2, SyncedHolds, StartProbeHolds
    <2>4. CASE ConfigError(l)
      BY <2>4, ProbesKept, WidgetsKept DEF ConfigError
    <2>. QED BY <1>17, <2>1, <2>2, <2>3, <2>4
  <1>18. ASSUME NEW s \in Saves,
                \/ SaveSubmitted(s) \/ SaveNames(s) \/ SaveOpens(s) \/ SaveWrites(s)
                \/ SaveRenames(s) \/ SaveDone(s)
         PROVE  IInv'
    <2>1. UNCHANGED <<probe, epoch, widgets, options>>
      BY <1>18 DEF SaveSubmitted, SaveNames, SaveOpens, SaveWrites, SaveRenames,
                   SaveDone, ui
    <2>. QED BY <2>1, ProbesKept, WidgetsKept
  <1>19. ASSUME NEW b \in Builds, BuildRequested(b) \/ BuildMutates(b)
         PROVE  IInv'
    BY <1>19, ProbesKept, WidgetsKept DEF BuildRequested, BuildMutates, ui
  <1>20. CASE UNCHANGED vars
    BY <1>20, ProbesKept, WidgetsKept DEF vars, ui, threads
  <1>. QED BY <1>1, <1>2, <1>3, <1>4, <1>5, <1>6, <1>7, <1>8, <1>9, <1>10, <1>11, <1>12,
              <1>13, <1>14, <1>15, <1>16, <1>17, <1>18, <1>19, <1>20 DEF Next

THEOREM Invariance == Spec => []IInv
  BY Initially, Inductive, PTL DEF Spec
-------------------------------------------------------------------------------
(* A build gets the options the window shows, after every pick, load,      *)
(* switch, probe and restart, in any order.                                *)
THEOREM ABuildGetsWhatIsShown == Spec => []OptionsFollowWidgets
  <1>1. IInv => OptionsFollowWidgets
    BY DEF IInv
  <1>. QED BY <1>1, Invariance, PTL

(* Counting the items never goes wrong: from whatever variant to whatever  *)
(* other, what is offered is what the variant has, and what is selected is *)
(* offered.                                                                *)
THEOREM TheOfferIsTheVariants == Spec => []OfferMatchesVariant
  <1>1. IInv => OfferMatchesVariant
    BY DEF IInv, Good, OfferMatchesVariant
  <1>. QED BY <1>1, Invariance, PTL

(* What is saved can be loaded, and changes nothing, in every state the    *)
(* window gets to, loads of files with unknown values included.            *)
THEOREM ASaveCanBeLoaded == Spec => []RoundTrip
  <1>1. IInv => RoundTrip
    BY GoodRoundTrip DEF IInv, RoundTrip
  <1>. QED BY <1>1, Invariance, PTL

(* No probe that was under way at an edit changes the list when it ends,   *)
(* however many there are: none has the number of the list any more.       *)
THEOREM OlderProbesKeepTheList == Spec => EditsSurviveOlderProbes
  <1>1. ASSUME IInv, NEW p \in Probes, probe[p].overtaken, ProbeDone(p)
        PROVE  patches' = patches
    <2>1. probe[p].gen < epoch /\ probe[p].gen \in Nat /\ epoch \in Nat
      BY <1>1 DEF IInv, ProbesInv, ProbeInv
    <2>2. probe[p].gen # epoch
      BY <2>1
    <2>. QED BY <1>1, <2>2 DEF ProbeDone
  <1>2. IInv /\ [Next]_vars =>
            [\A p \in Probes : probe[p].overtaken /\ ProbeDone(p) => patches' = patches]_vars
    BY <1>1
  <1>. QED BY <1>2, Invariance, PTL DEF Spec, EditsSurviveOlderProbes
-------------------------------------------------------------------------------
(* Induction on the natural numbers, from the least number of a set.       *)
LEMMA NatIsWellFounded == IsWellFoundedOn(OpToRel(<, Nat), Nat)
  BY NatLessThanWellFounded

LEMMA NatSetInduction ==
    ASSUME NEW S, 0 \in S, \A n \in Nat : n \in S => n + 1 \in S
    PROVE  Nat \subseteq S
  <1>. DEFINE T == Nat \ S
  <1>. SUFFICES ASSUME T # {} PROVE FALSE
    OBVIOUS
  <1>1. PICK x \in T : \A y \in T : ~(<<y, x>> \in OpToRel(<, Nat))
    <2>. HIDE DEF T
    <2>1. T \subseteq Nat
      BY DEF T
    <2>. QED BY ONLY NatIsWellFounded, <2>1, T # {}, WFMin
  <1>2. x \in Nat /\ x # 0
    OBVIOUS
  <1>3. x - 1 \in Nat /\ x - 1 < x
    BY <1>2
  <1>4. <<x - 1, x>> \in OpToRel(<, Nat)
    BY <1>2, <1>3 DEF OpToRel
  <1>5. x - 1 \in S
    BY <1>1, <1>3, <1>4
  <1>6. x \in S
    BY <1>2, <1>3, <1>5
  <1>. QED BY <1>6

(* What is kept of a list is a list, of entries the list has.              *)
LEMMA KeptIsAList ==
    ASSUME NEW E, NEW list \in Seq(E), NEW set
    PROVE  Kept(list, set) \in Seq(E \cap set)
  <1>. DEFINE
        Rec(g, n) == g = [i \in 0..n |-> IF i = 0 THEN << >>
                                         ELSE IF list[i] \in set THEN Append(g[i - 1], list[i])
                                         ELSE g[i - 1]]
        Has == {n \in Nat : \E g : Rec(g, n)}
        N == Len(list)
  <1>1. N \in Nat /\ DOMAIN list = 1..N
    BY LenProperties
  <1>2. Nat \subseteq Has
    <2>1. 0 \in Has
      <3>1. Rec([i \in 0..0 |-> << >>], 0)
        OBVIOUS
      <3>. QED BY <3>1
    <2>2. ASSUME NEW n \in Nat, n \in Has
          PROVE  n + 1 \in Has
      <3>1. PICK g : Rec(g, n)
        BY <2>2
      <3>. DEFINE h == [i \in 0..(n + 1) |->
                          IF i = n + 1 THEN IF list[i] \in set THEN Append(g[n], list[i])
                                           ELSE g[n]
                          ELSE g[i]]
      <3>2. /\ h[n + 1] = IF list[n + 1] \in set THEN Append(g[n], list[n + 1]) ELSE g[n]
            /\ \A i \in 0..n : h[i] = g[i]
            /\ h = [i \in 0..(n + 1) |-> h[i]]
        OBVIOUS
      <3>. HIDE DEF h
      <3>3. \A i \in 0..n : g[i] = IF i = 0 THEN << >>
                                   ELSE IF list[i] \in set THEN Append(g[i - 1], list[i])
                                   ELSE g[i - 1]
        BY <3>1
      <3>4. ASSUME NEW i \in 0..(n + 1)
            PROVE  h[i] = IF i = 0 THEN << >>
                          ELSE IF list[i] \in set THEN Append(h[i - 1], list[i])
                          ELSE h[i - 1]
        <4>1. CASE i = n + 1
          <5>1. i # 0 /\ i - 1 = n /\ n \in 0..n
            BY <4>1
          <5>2. h[n] = g[n]
            BY <3>2, <5>1
          <5>. QED BY <3>2, <4>1, <5>1, <5>2
        <4>2. CASE i \in 0..n
          <5>1. i # 0 => i - 1 \in 0..n
            BY <4>2
          <5>2. i # 0 => h[i - 1] = g[i - 1]
            BY <3>2, <5>1
          <5>. QED BY <3>2, <3>3, <4>2, <5>2
        <4>. QED BY <4>1, <4>2
      <3>5. Rec(h, n + 1)
        BY <3>2, <3>4
      <3>. QED BY <3>5
    <2>. HIDE DEF Has
    <2>. QED BY <2>1, <2>2, NatSetInduction
  <1>. DEFINE f == CHOOSE g : Rec(g, N)
  <1>3. Rec(f, N)
    BY <1>1, <1>2
  <1>4. Kept(list, set) = f[N]
    BY DEF Kept
  <1>. HIDE DEF f
  <1>5. \A i \in 0..N : f[i] = IF i = 0 THEN << >>
                               ELSE IF list[i] \in set THEN Append(f[i - 1], list[i])
                               ELSE f[i - 1]
    BY <1>3
  <1>. DEFINE Typed == {n \in Nat : n <= N => f[n] \in Seq(E \cap set)}
  <1>6. Nat \subseteq Typed
    <2>1. 0 \in Typed
      <3>1. f[0] = << >>
        BY <1>1, <1>5
      <3>2. << >> \in Seq(E \cap set)
        BY EmptySeq
      <3>. QED BY <3>1, <3>2
    <2>2. ASSUME NEW n \in Nat, n \in Typed
          PROVE  n + 1 \in Typed
      <3>. SUFFICES ASSUME n + 1 <= N PROVE f[n + 1] \in Seq(E \cap set)
        OBVIOUS
      <3>1. f[n] \in Seq(E \cap set)
        BY <1>1, <2>2
      <3>2. list[n + 1] \in E
        BY <1>1, ElementOfSeq
      <3>3. f[n + 1] = IF list[n + 1] \in set THEN Append(f[n], list[n + 1]) ELSE f[n]
        <4>1. n + 1 \in 0..N /\ n + 1 # 0 /\ (n + 1) - 1 = n
          BY <1>1
        <4>. QED BY <1>5, <4>1
      <3>4. list[n + 1] \in set => Append(f[n], list[n + 1]) \in Seq(E \cap set)
        BY <3>1, <3>2, AppendProperties
      <3>. QED BY <3>1, <3>3, <3>4
    <2>. HIDE DEF Typed
    <2>. QED BY <2>1, <2>2, NatSetInduction
  <1>. QED BY <1>1, <1>4, <1>6
(* The names of lists put together.                                        *)
LEMMA ConcatNames ==
    ASSUME NEW E, NEW s \in Seq(E), NEW t \in Seq(E)
    PROVE  Names(s \o t) = Names(s) \cup Names(t)
  <1>. DEFINE u == s \o t
  <1>1. /\ Len(u) = Len(s) + Len(t) /\ u \in Seq(E)
        /\ \A i \in 1..(Len(s) + Len(t)) : u[i] = IF i <= Len(s) THEN s[i] ELSE t[i - Len(s)]
    BY ConcatProperties
  <1>2. /\ DOMAIN u = 1..(Len(s) + Len(t)) /\ DOMAIN s = 1..Len(s) /\ DOMAIN t = 1..Len(t)
        /\ Len(s) \in Nat /\ Len(t) \in Nat
    BY <1>1, LenProperties
  <1>. HIDE DEF u
  <1>3. \A i \in DOMAIN s : i \in DOMAIN u /\ u[i] = s[i]
    BY <1>1, <1>2
  <1>4. \A i \in DOMAIN t : i + Len(s) \in DOMAIN u /\ u[i + Len(s)] = t[i]
    BY <1>1, <1>2
  <1>5. \A i \in DOMAIN u : \/ i \in DOMAIN s /\ u[i] = s[i]
                            \/ i - Len(s) \in DOMAIN t /\ u[i] = t[i - Len(s)]
    BY <1>1, <1>2
  <1>6. Names(u) \subseteq Names(s) \cup Names(t)
    BY <1>5 DEF Names
  <1>7. Names(s) \subseteq Names(u)
    BY <1>3 DEF Names
  <1>8. Names(t) \subseteq Names(u)
    <2>1. ASSUME NEW i \in DOMAIN t
          PROVE  t[i] \in Names(u)
      <3>. DEFINE k == i + Len(s)
      <3>1. k \in DOMAIN u /\ u[k] = t[i]
        BY <1>4
      <3>. HIDE DEF k
      <3>. QED BY <3>1 DEF Names
    <2>. QED BY <2>1 DEF Names
  <1>. QED BY <1>6, <1>7, <1>8 DEF u

LEMMA NamesOf ==
    ASSUME NEW E, NEW s \in Seq(E)
    PROVE  Names(s) \subseteq E
  <1>1. \A i \in DOMAIN s : s[i] \in E
    BY LenProperties, ElementOfSeq
  <1>. QED BY <1>1 DEF Names

(* A variant's own patches: those of its source array among them.          *)
LEMMA SourceIsOwn ==
    ASSUME NEW v \in DOMAIN SourceArray
    PROVE  /\ SourceArray[v] \in Seq(OwnPatches(v))
           /\ LtoPatches \in Seq(OwnPatches(v))
           /\ NvidiaPatches \in Seq(OwnPatches(v))
  <1>. DEFINE a == SourceArray[v]
              E == Names(a) \cup Names(LtoPatches) \cup Names(NvidiaPatches)
  <1>1. a \in Seq(Names(a)) /\ LtoPatches \in Seq(Names(LtoPatches))
        /\ NvidiaPatches \in Seq(Names(NvidiaPatches))
    BY EntriesAssumption DEF Names
  <1>2. a \in Seq(E) /\ LtoPatches \in Seq(E) /\ NvidiaPatches \in Seq(E)
    <2>1. Names(a) \subseteq E /\ Names(LtoPatches) \subseteq E /\ Names(NvidiaPatches) \subseteq E
      OBVIOUS
    <2>. HIDE DEF E, a
    <2>2. a \in Seq(E)
      BY <1>1, <2>1, SeqMonotonic
    <2>3. LtoPatches \in Seq(E)
      BY <1>1, <2>1, SeqMonotonic
    <2>4. NvidiaPatches \in Seq(E)
      BY <1>1, <2>1, SeqMonotonic
    <2>. QED BY <2>2, <2>3, <2>4
  <1>3. Names(a \o LtoPatches \o NvidiaPatches) = E
    <2>. DEFINE al == a \o LtoPatches
    <2>. HIDE DEF a
    <2>1. Names(al) = Names(a) \cup Names(LtoPatches)
      BY ONLY <1>2, ConcatNames
    <2>2. al \in Seq(E)
      BY ONLY <1>2, ConcatProperties
    <2>. HIDE DEF al
    <2>3. Names(al \o NvidiaPatches) = Names(al) \cup Names(NvidiaPatches)
      BY ONLY <1>2, <2>2, ConcatNames
    <2>. QED BY <2>1, <2>3 DEF al
  <1>4. E \subseteq OwnPatches(v)
    BY <1>3 DEF OwnPatches
  <1>. HIDE DEF E, a
  <1>5. a \in Seq(OwnPatches(v))
    BY ONLY <1>2, <1>4, SeqMonotonic
  <1>6. LtoPatches \in Seq(OwnPatches(v))
    BY ONLY <1>2, <1>4, SeqMonotonic
  <1>7. NvidiaPatches \in Seq(OwnPatches(v))
    BY ONLY <1>2, <1>4, SeqMonotonic
  <1>. QED BY <1>5, <1>6, <1>7 DEF a

(* What a PKGBUILD was left with.                                          *)
WrittenFor(v, f) == f = Pristine \/ f.patches \in Seq(OwnPatches(v))

(* Whatever is read for a variant is a list of its own patches.            *)
LEMMA KeptOwn ==
    ASSUME NEW E, NEW list \in Seq(E), NEW set
    PROVE  Kept(list, set) \in Seq(E)
  <1>. DEFINE k == Kept(list, set)
  <1>1. k \in Seq(E \cap set)
    BY KeptIsAList
  <1>. HIDE DEF k
  <1>2. k \in Seq(E)
    BY <1>1, SeqMonotonic
  <1>. QED BY <1>2 DEF k

LEMMA ReadIsOwn ==
    ASSUME NEW o, o.variant \in DOMAIN SourceArray,
           WrittenFor(o.variant, pkgbuild[o.variant])
    PROVE  \A found \in {Source(o), << >>} : ResetPatches(found) \in Seq(OwnPatches(o.variant))
  <1>. DEFINE Own == OwnPatches(o.variant)
              lto == IF o.lto # "none" THEN LtoPatches ELSE << >>
              nvidia == IF "builtin_nvidia_open" \in o.checked THEN NvidiaPatches ELSE << >>
              a == SourceArray[o.variant]
              git == a \o lto \o nvidia
              files == Kept(git, {e \in Names(git) : ~Patch(e)})
  <1>1. a \in Seq(Own) /\ lto \in Seq(Own) /\ nvidia \in Seq(Own)
    <2>1. << >> \in Seq(Own)
      BY EmptySeq
    <2>. QED BY <2>1, SourceIsOwn
  <1>2. Source(o) = IF pkgbuild[o.variant] = Pristine THEN git
                    ELSE files \o pkgbuild[o.variant].patches
    BY DEF Source
  <1>. HIDE DEF a, lto, nvidia, Own
  <1>3. git \in Seq(Own)
    <2>1. a \o lto \in Seq(Own)
      BY ONLY <1>1, ConcatProperties
    <2>. QED BY ONLY <1>1, <2>1, ConcatProperties
  <1>. HIDE DEF git
  <1>4. files \in Seq(Own)
    BY <1>3, KeptOwn
  <1>. HIDE DEF files
  <1>5. Source(o) \in Seq(Own)
    <2>1. CASE pkgbuild[o.variant] = Pristine
      BY <1>2, <1>3, <2>1
    <2>2. CASE pkgbuild[o.variant] # Pristine
      <3>1. pkgbuild[o.variant].patches \in Seq(Own)
        BY <2>2 DEF WrittenFor, Own
      <3>2. files \o pkgbuild[o.variant].patches \in Seq(Own)
        BY ONLY <1>4, <3>1, ConcatProperties
      <3>. QED BY <1>2, <2>2, <3>2
    <2>. QED BY <2>1, <2>2
  <1>6. << >> \in Seq(Own)
    BY EmptySeq
  <1>7. ASSUME NEW found \in Seq(Own)
        PROVE  ResetPatches(found) \in Seq(Own)
    BY KeptOwn DEF ResetPatches
  <1>. QED BY <1>5, <1>6, <1>7 DEF Own

(* The edits of a list add nothing but what the user adds.                 *)
LEMMA SwappedOwn ==
    ASSUME NEW E, NEW list \in Seq(E), NEW i \in 1..Len(list), NEW j \in 1..Len(list)
    PROVE  Swapped(list, i, j) \in Seq(E)
  <1>. DEFINE s == [list EXCEPT ![i] = list[j]]
  <1>1. list[i] \in E /\ list[j] \in E
    BY ElementOfSeq
  <1>2. s \in Seq(E) /\ Len(s) = Len(list)
    BY <1>1, ExceptSeq
  <1>3. Swapped(list, i, j) = [s EXCEPT ![j] = list[i]]
    BY DEF Swapped
  <1>. HIDE DEF s
  <1>. QED BY <1>1, <1>2, <1>3, ExceptSeq

LEMMA WithoutOwn ==
    ASSUME NEW E, NEW list \in Seq(E), NEW i \in 1..Len(list)
    PROVE  Without(list, i) \in Seq(E)
  <1>. DEFINE s == SubSeq(list, 1, i - 1)
              t == SubSeq(list, i + 1, Len(list))
  <1>1. Len(list) \in Nat /\ \A k \in 1..Len(list) : list[k] \in E
    BY LenProperties, ElementOfSeq
  <1>2. s \in Seq(E)
    BY <1>1, SubSeqProperties
  <1>3. t \in Seq(E)
    BY <1>1, SubSeqProperties
  <1>. HIDE DEF s, t
  <1>4. s \o t \in Seq(E)
    BY <1>2, <1>3, ConcatProperties
  <1>. QED BY <1>4 DEF Without, s, t
-------------------------------------------------------------------------------
(* Whose patches are where: a probe that is still of the list's epoch is   *)
(* of the variant shown; whatever its epoch, it finds its own variant's.   *)
ProbeOf(r, now, variant) ==
    /\ r.pc # "idle" => /\ r.options.variant \in DOMAIN SourceArray
                        /\ r.gen = now => r.options.variant = variant
    /\ r.pc = "done" => r.found \in Seq(OwnPatches(r.options.variant))
BuildOf(r) ==
    r.pc = "mutate" => /\ r.variant \in DOMAIN SourceArray
                       /\ r.patches \in Seq(OwnPatches(r.variant))

ProbesOf == \A p \in Probes : ProbeOf(probe[p], epoch, widgets.variant)
BuildsOf ==
    /\ build = [b \in Builds |-> build[b]]
    /\ \A b \in Builds : BuildOf(build[b])
FilesOf ==
    /\ pkgbuild = [v \in DOMAIN SourceArray |-> pkgbuild[v]]
    /\ \A v \in DOMAIN SourceArray : WrittenFor(v, pkgbuild[v])
ShownOf ==
    /\ widgets.variant \in DOMAIN SourceArray
    /\ patches \in Seq(OwnPatches(widgets.variant))
ListInv == ShownOf /\ ProbesOf /\ BuildsOf /\ FilesOf

LEMMA OthersKept ==
    ASSUME BuildsOf, FilesOf, UNCHANGED <<build, pkgbuild>>
    PROVE  BuildsOf' /\ FilesOf'
  BY DEF BuildsOf, FilesOf

LEMMA ShownKept ==
    ASSUME ShownOf, UNCHANGED patches, widgets'.variant = widgets.variant
    PROVE  ShownOf'
  BY DEF ShownOf

LEMMA ProbesOfKept ==
    ASSUME ProbesOf, UNCHANGED <<probe, epoch>>, widgets'.variant = widgets.variant
    PROVE  ProbesOf'
  BY DEF ProbesOf

LEMMA OneProbeOf ==
    ASSUME ProbesInv, ProbesOf, NEW p \in Probes, NEW r, ProbeOf(r, epoch, widgets.variant),
           probe' = [probe EXCEPT ![p] = r], epoch' = epoch, widgets' = widgets
    PROVE  ProbesOf'
  BY DEF ProbesInv, ProbesOf

(* The probes of before have an earlier epoch than the one that starts.    *)
LEMMA StartedOf ==
    ASSUME ProbesInv, ProbesOf, NEW kind, NEW o, StartProbe(kind, o),
           o.variant = widgets'.variant, o.variant \in DOMAIN SourceArray
    PROVE  ProbesOf'
  <1>. DEFINE pc == IF kind = "prepare" THEN "git" ELSE "read"
              r == [pc |-> pc, kind |-> kind, gen |-> epoch + 1, options |-> o,
                    found |-> << >>, overtaken |-> FALSE]
  <1>1. PICK p \in Probes : probe' = [probe EXCEPT ![p] = r]
    BY DEF StartProbe
  <1>2. epoch' = epoch + 1 /\ epoch \in Nat
    BY DEF StartProbe, ProbesInv
  <1>3. pc # "done" /\ r.pc = pc /\ r.options = o
    OBVIOUS
  <1>. HIDE DEF pc, r
  <1>4. ProbeOf(r, epoch', widgets'.variant)
    BY <1>3 DEF ProbeOf
  <1>5. \A q \in Probes : probe[q].gen \in Nat /\ probe[q].gen <= epoch
    BY DEF ProbesInv, ProbeInv
  <1>6. \A q \in Probes : probe[q].gen # epoch'
    BY <1>2, <1>5
  <1>7. \A q \in Probes : ProbeOf(probe[q], epoch', widgets'.variant)
    BY <1>6 DEF ProbesOf, ProbeOf
  <1>8. probe = [q \in Probes |-> probe[q]]
    BY DEF ProbesInv
  <1>. QED BY <1>1, <1>4, <1>7, <1>8 DEF ProbesOf

(* After an edit, none has the epoch any more.                             *)
LEMMA EditedOf ==
    ASSUME ProbesInv, ProbesOf, NEW list, Edited(list)
    PROVE  ProbesOf'
  <1>1. epoch' = epoch + 1 /\ epoch \in Nat /\ widgets' = widgets
    BY DEF Edited, ProbesInv
  <1>2. probe' = [p \in Probes |-> IF probe[p].pc = "idle" THEN probe[p]
                                   ELSE [probe[p] EXCEPT !.overtaken = TRUE]]
    BY DEF Edited, Overtake
  <1>3. ASSUME NEW p \in Probes
        PROVE  ProbeOf(probe'[p], epoch', widgets'.variant)
    <2>1. ProbeInv(probe[p], epoch) /\ ProbeOf(probe[p], epoch, widgets.variant)
      BY DEF ProbesInv, ProbesOf
    <2>2. PICK pc, kind, gen, o, found, b :
              probe[p] = [pc |-> pc, kind |-> kind, gen |-> gen, options |-> o,
                          found |-> found, overtaken |-> b]
      BY <2>1 DEF ProbeInv, ProbeShape
    <2>3. gen # epoch'
      BY <1>1, <2>1, <2>2 DEF ProbeInv
    <2>. DEFINE x == [probe[p] EXCEPT !.overtaken = TRUE]
    <2>4. /\ x.pc = pc /\ x.gen = gen /\ x.options = o /\ x.found = found
          /\ probe[p].pc = pc /\ probe[p].gen = gen /\ probe[p].options = o
          /\ probe[p].found = found
      BY <2>2
    <2>5. probe'[p] \in {probe[p], x}
      BY <1>2
    <2>. HIDE DEF x
    <2>6. ProbeOf(probe[p], epoch', widgets'.variant)
      BY <1>1, <2>1, <2>3, <2>4 DEF ProbeOf
    <2>7. ProbeOf(x, epoch', widgets'.variant)
      BY <2>4, <2>6 DEF ProbeOf
    <2>. QED BY <2>5, <2>6, <2>7
  <1>. QED BY <1>3 DEF ProbesOf

(* Only a switch of the variant, and a restart, change the variant.        *)
LEMMA VariantKept ==
    ASSUME NEW w, Good(w)
    PROVE  /\ \A l : [w EXCEPT !.switch.lto = l].variant = w.variant
           /\ \A p : [w EXCEPT !.switch.preempt = p].variant = w.variant
           /\ \A n : [w EXCEPT !.customName = n].variant = w.variant
           /\ \A c : CheckToggled(w, c).variant = w.variant
           /\ \A config : LoadConfig(w, config).variant = w.variant
           /\ \A v : OnVariantChanged(w, v).variant = v
  <1>1. PICK v0, s, c0, t, h, o, n0 :
            w = [variant |-> v0, switch |-> s, checks |-> c0, tickless |-> t,
                 hugepage |-> h, cpuOpt |-> o, customName |-> n0]
    BY Fields DEF Good
  <1>2. \A c : CheckToggled(w, c).variant = w.variant
    <2>1. \A b : [w EXCEPT !.switch.cachyConfig = b].variant = w.variant
      BY <1>1
    <2>2. \A b : [w EXCEPT !.switch.zfs = b].variant = w.variant
      BY <1>1
    <2>3. \A b : [w EXCEPT !.checks = b].variant = w.variant
      BY <1>1
    <2>4. ASSUME NEW c
          PROVE  CheckToggled(w, c).variant = w.variant
      <3>1. CASE c = "cachy_config"
        BY <2>1, <3>1 DEF CheckToggled
      <3>2. CASE c = "builtin_zfs"
        BY <2>2, <3>2 DEF CheckToggled
      <3>3. CASE c \notin {"cachy_config", "builtin_zfs"}
        BY <2>3, <3>3 DEF CheckToggled
      <3>. QED BY <3>1, <3>2, <3>3
    <2>. QED BY <2>4
  <1>3. ASSUME NEW config
        PROVE  LoadConfig(w, config).variant = w.variant
    <2>. DEFINE k == Known(w, config)
                lt == Loaded(k.lto, config.lto, w.switch.lto)
                pr == Loaded(k.preempt, config.preempt, w.switch.preempt)
                hz == Loaded(k.hz, config.hz, w.switch.hz)
                ck == config.checked \ {"cachy_config", "builtin_zfs"}
                ti == Loaded(k.tickless, config.tickless, w.tickless)
                hu == Loaded(k.hugepage, config.hugepage, w.hugepage)
                cp == Loaded(k.cpuOpt, config.cpuOpt, w.cpuOpt)
                cc == "cachy_config" \in config.checked
                zf == "builtin_zfs" \in config.checked
    <2>1. LoadConfig(w, config) = With(w, lt, pr, hz, cc, zf, ck, ti, hu, cp, config.customName)
      BY LoadIs
    <2>. HIDE DEF lt, pr, hz, cc, zf, ck, ti, hu, cp
    <2>. QED BY <2>1 DEF With
  <1>4. \A v : OnVariantChanged(w, v).variant = v
    BY <1>1 DEF OnVariantChanged
  <1>5. \A l : [w EXCEPT !.switch.lto = l].variant = w.variant
    BY <1>1
  <1>6. \A p : [w EXCEPT !.switch.preempt = p].variant = w.variant
    BY <1>1
  <1>7. \A n : [w EXCEPT !.customName = n].variant = w.variant
    BY <1>1
  <1>. QED BY <1>2, <1>3, <1>4, <1>5, <1>6, <1>7

LEMMA IdleOf == \A now, variant : ProbeOf(IdleProbe, now, variant)
  BY DEF ProbeOf, IdleProbe

LEMMA NothingListed == \A variant : << >> \in Seq(OwnPatches(variant))
  BY EmptySeq

LEMMA ListInitially == Init => ListInv
  <1>. SUFFICES ASSUME Init PROVE ListInv
    OBVIOUS
  <1>1. widgets.variant = "cachyos" /\ patches = << >>
    BY DEF Init, DefaultWidgets
  <1>2. ShownOf
    BY <1>1, NothingListed, SourceAssumption DEF ShownOf
  <1>3. ProbesOf
    BY IdleOf DEF Init, ProbesOf
  <1>4. BuildsOf
    BY DEF Init, BuildsOf, BuildOf, Idle
  <1>5. FilesOf
    BY DEF Init, FilesOf, WrittenFor
  <1>. QED BY <1>2, <1>3, <1>4, <1>5 DEF ListInv

(* A control that starts a refresh, and one that does not.                 *)
LEMMA RefreshedOf ==
    ASSUME IInv, ListInv, NEW w, w.variant \in DOMAIN SourceArray, SyncedAndProbed(w),
           patches' \in Seq(OwnPatches(w.variant))
    PROVE  ListInv'
  <1>. DEFINE o == OptionsOf(w)
  <1>1. widgets' = w /\ o.variant = w.variant /\ StartProbe("refresh", o)
    BY DEF SyncedAndProbed, Synced, OptionsOf
  <1>2. UNCHANGED <<build, pkgbuild>>
    BY DEF SyncedAndProbed, disk
  <1>. HIDE DEF o
  <1>3. ProbesOf'
    BY <1>1, StartedOf DEF IInv, ListInv
  <1>4. ShownOf'
    BY <1>1 DEF ShownOf
  <1>. QED BY <1>2, <1>3, <1>4, OthersKept DEF ListInv

LEMMA LeftOf ==
    ASSUME ListInv, UNCHANGED <<probe, epoch, patches, build, pkgbuild>>,
           widgets'.variant = widgets.variant
    PROVE  ListInv'
  BY ShownKept, ProbesOfKept, OthersKept DEF ListInv

LEMMA ListEditedOf ==
    ASSUME IInv, ListInv, NEW list \in Seq(OwnPatches(widgets.variant)), Edited(list)
    PROVE  ListInv'
  <1>1. ProbesOf'
    BY EditedOf DEF IInv, ListInv
  <1>2. ShownOf'
    BY DEF Edited, ListInv, ShownOf
  <1>3. UNCHANGED <<build, pkgbuild>>
    BY DEF Edited, disk
  <1>. QED BY <1>1, <1>2, <1>3, OthersKept DEF ListInv

LEMMA ListInductive == IInv /\ ListInv /\ [Next]_vars => ListInv'
  <1>. SUFFICES ASSUME IInv, ListInv, [Next]_vars PROVE ListInv'
    OBVIOUS
  <1>0. /\ ProbesInv /\ Good(widgets) /\ options.variant = widgets.variant
        /\ ShownOf /\ ProbesOf /\ BuildsOf /\ FilesOf
        /\ widgets.variant \in DOMAIN SourceArray
        /\ patches \in Seq(OwnPatches(widgets.variant))
    BY DEF IInv, ListInv, ShownOf, OptionsFollowWidgets, OptionsOf
  <1>1. CASE ConfigureRequested
    <2>1. StartProbe("prepare", options)
      BY <1>1 DEF ConfigureRequested
    <2>2. UNCHANGED <<widgets, patches, build, pkgbuild>>
      BY <1>1 DEF ConfigureRequested, disk
    <2>3. ProbesOf'
      BY <1>0, <2>1, <2>2, StartedOf
    <2>. QED BY <1>0, <2>2, <2>3, ShownKept, OthersKept DEF ListInv
  <1>2. CASE Cancel \/ DialogDismissed \/ PathDialogOpened \/ PathDialogDismissed
    <2>1. UNCHANGED <<widgets, probe, epoch, patches, build, pkgbuild>>
      BY <1>2 DEF Cancel, DialogDismissed, PathDialogOpened, PathDialogDismissed,
                  threads, disk
    <2>. QED BY <2>1, LeftOf
  <1>3. CASE Restart
    <2>1. /\ widgets'.variant = "cachyos" /\ patches' = << >>
          /\ probe' = [p \in Probes |-> IdleProbe] /\ build' = [b \in Builds |-> Idle]
          /\ pkgbuild' = pkgbuild
      BY <1>3 DEF Restart, DefaultWidgets
    <2>2. ShownOf'
      BY <2>1, NothingListed, SourceAssumption DEF ShownOf
    <2>3. ProbesOf'
      BY <2>1, IdleOf DEF ProbesOf
    <2>4. BuildsOf'
      BY <2>1 DEF BuildsOf, BuildOf, Idle
    <2>5. FilesOf'
      BY <1>0, <2>1 DEF FilesOf
    <2>. QED BY <2>2, <2>3, <2>4, <2>5 DEF ListInv
  <1>4. CASE VariantPicked
    <2>1. PICK v \in Picks : SyncedAndProbed(OnVariantChanged(widgets, v))
      BY <1>4 DEF VariantPicked
    <2>. DEFINE w == OnVariantChanged(widgets, v)
    <2>2. w.variant = v
      BY <1>0, VariantKept
    <2>3. patches' = << >>
      BY <1>4 DEF VariantPicked
    <2>. HIDE DEF w
    <2>4. SyncedAndProbed(w)
      BY <2>1 DEF w
    <2>. QED BY <2>2, <2>3, <2>4, NothingListed, SourceAssumption, RefreshedOf
  <1>5. CASE LtoPicked
    <2>1. PICK l : SyncedAndProbed([widgets EXCEPT !.switch.lto = l])
      BY <1>5 DEF LtoPicked
    <2>. DEFINE w == [widgets EXCEPT !.switch.lto = l]
    <2>2. w.variant = widgets.variant
      BY <1>0, VariantKept
    <2>3. patches' = patches
      BY <1>5 DEF LtoPicked
    <2>. HIDE DEF w
    <2>4. SyncedAndProbed(w)
      BY <2>1 DEF w
    <2>. QED BY <1>0, <2>2, <2>3, <2>4, RefreshedOf
  <1>6. CASE NvidiaOpenToggled
    <2>. DEFINE w == CheckToggled(widgets, "builtin_nvidia_open")
    <2>2. w.variant = widgets.variant
      BY <1>0, VariantKept
    <2>3. patches' = patches
      BY <1>6 DEF NvidiaOpenToggled
    <2>. HIDE DEF w
    <2>4. SyncedAndProbed(w)
      BY <1>6 DEF NvidiaOpenToggled, w
    <2>. QED BY <1>0, <2>2, <2>3, <2>4, RefreshedOf
  <1>7. CASE PreemptPicked \/ CustomNameChanged \/ OtherCheckToggled
    <2>1. UNCHANGED <<probe, epoch, patches, build, pkgbuild>>
      BY <1>7 DEF PreemptPicked, CustomNameChanged, OtherCheckToggled, threads, disk
    <2>2. widgets'.variant = widgets.variant
      <3>1. CASE PreemptPicked
        BY <1>0, <3>1, VariantKept DEF PreemptPicked, Synced
      <3>2. CASE CustomNameChanged
        BY <1>0, <3>2, VariantKept DEF CustomNameChanged, Synced
      <3>3. CASE OtherCheckToggled
        BY <1>0, <3>3, VariantKept DEF OtherCheckToggled, Synced
      <3>. QED BY <1>7, <3>1, <3>2, <3>3
    <2>. QED BY <2>1, <2>2, LeftOf
  <1>8. CASE PatchMoved
    <2>1. PICK i \in DOMAIN patches :
              i + 1 \in DOMAIN patches /\ Edited(Swapped(patches, i, i + 1))
      BY <1>8 DEF PatchMoved
    <2>. DEFINE list == Swapped(patches, i, i + 1)
    <2>2. DOMAIN patches = 1..Len(patches)
      BY <1>0, LenProperties
    <2>3. list \in Seq(OwnPatches(widgets.variant))
      BY <1>0, <2>1, <2>2, SwappedOwn
    <2>4. Edited(list)
      BY <2>1
    <2>. HIDE DEF list
    <2>. QED BY <2>3, <2>4, ListEditedOf
  <1>9. CASE PatchRemoved
    <2>1. PICK i \in DOMAIN patches : Edited(Without(patches, i))
      BY <1>9 DEF PatchRemoved
    <2>. DEFINE list == Without(patches, i)
    <2>2. DOMAIN patches = 1..Len(patches)
      BY <1>0, LenProperties
    <2>3. list \in Seq(OwnPatches(widgets.variant))
      BY <1>0, <2>1, <2>2, WithoutOwn
    <2>4. Edited(list)
      BY <2>1
    <2>. HIDE DEF list
    <2>. QED BY <2>3, <2>4, ListEditedOf
  <1>10. CASE PatchAdded
    <2>1. ASSUME NEW u \in UserPatches, Edited(Append(patches, u))
          PROVE  ListInv'
      <3>. DEFINE list == Append(patches, u)
      <3>1. u \in OwnPatches(widgets.variant)
        BY DEF OwnPatches
      <3>2. list \in Seq(OwnPatches(widgets.variant))
        BY <1>0, <3>1, AppendProperties
      <3>3. Edited(list)
        BY <2>1
      <3>. HIDE DEF list
      <3>. QED BY <3>2, <3>3, ListEditedOf
    <2>2. CASE UNCHANGED <<conf, dialog, widgets, patches, options, epoch, threads, disk>>
      BY <2>2, LeftOf DEF threads, disk
    <2>. QED BY <1>10, <2>1, <2>2 DEF PatchAdded
  <1>11. ASSUME NEW p \in Probes, GitRefresh(p)
         PROVE  ListInv'
    <2>. DEFINE r == [probe[p] EXCEPT !.pc = "read"]
    <2>1. /\ probe' = [probe EXCEPT ![p] = r]
          /\ UNCHANGED <<epoch, widgets, patches, build>>
          /\ pkgbuild' \in {pkgbuild, [v \in DOMAIN pkgbuild |-> Pristine]}
          /\ probe[p].pc = "git"
      BY <1>11 DEF GitRefresh, ui
    <2>2. PICK pc, kind, gen, o, found, b :
              probe[p] = [pc |-> pc, kind |-> kind, gen |-> gen, options |-> o,
                          found |-> found, overtaken |-> b]
      BY <1>0 DEF ProbesInv, ProbeInv, ProbeShape
    <2>3. /\ r.pc = "read" /\ r.gen = probe[p].gen /\ r.options = probe[p].options
      BY <2>2
    <2>. HIDE DEF r
    <2>4. ProbeOf(r, epoch, widgets.variant)
      BY <1>0, <2>1, <2>3 DEF ProbesOf, ProbeOf
    <2>5. ProbesOf'
      BY <1>0, <2>1, <2>4, OneProbeOf
    <2>6. FilesOf'
      BY <1>0, <2>1 DEF FilesOf, WrittenFor
    <2>. QED BY <1>0, <2>1, <2>5, <2>6 DEF ListInv, ShownOf, BuildsOf
  <1>12. ASSUME NEW p \in Probes, ProbePatchEntries(p)
         PROVE  ListInv'
    <2>1. PICK found \in {Source(probe[p].options), << >>} :
              probe' = [probe EXCEPT ![p].pc = "done", ![p].found = ResetPatches(found)]
      BY <1>12 DEF ProbePatchEntries
    <2>. DEFINE what == ResetPatches(found)
                r == [probe[p] EXCEPT !.pc = "done", !.found = what]
                v == probe[p].options.variant
    <2>2. probe[p].pc = "read" /\ UNCHANGED <<epoch, widgets, patches, build, pkgbuild>>
      BY <1>12 DEF ProbePatchEntries, ui, disk
    <2>3. ProbeOf(probe[p], epoch, widgets.variant)
      BY <1>0 DEF ProbesOf
    <2>4. v \in DOMAIN SourceArray
      BY <2>2, <2>3 DEF ProbeOf
    <2>5. what \in Seq(OwnPatches(v))
      BY <1>0, <2>1, <2>4, ReadIsOwn DEF FilesOf
    <2>6. PICK pc, kind, gen, o, f, b :
              probe[p] = [pc |-> pc, kind |-> kind, gen |-> gen, options |-> o,
                          found |-> f, overtaken |-> b]
      BY <1>0 DEF ProbesInv, ProbeInv, ProbeShape
    <2>. HIDE DEF what
    <2>7. r = [pc |-> "done", kind |-> kind, gen |-> gen, options |-> o,
               found |-> what, overtaken |-> b]
      <3>. DEFINE x == [probe[p] EXCEPT !.pc = "done"]
      <3>1. x = [pc |-> "done", kind |-> kind, gen |-> gen, options |-> o,
                 found |-> f, overtaken |-> b]
        BY <2>6
      <3>2. r = [x EXCEPT !.found = what]
        OBVIOUS
      <3>. HIDE DEF x
      <3>. QED BY <3>1, <3>2
    <2>8. r.gen = probe[p].gen /\ r.options = probe[p].options /\ r.found = what
      BY <2>6, <2>7
    <2>9. probe' = [probe EXCEPT ![p] = r]
      <3>1. probe' = [probe EXCEPT ![p].pc = "done", ![p].found = what]
        BY <2>1 DEF what
      <3>2. probe = [q \in Probes |-> probe[q]]
        BY <1>0 DEF ProbesInv
      <3>. QED BY <3>1, <3>2
    <2>. HIDE DEF r
    <2>10. ProbeOf(r, epoch, widgets.variant)
      BY <2>2, <2>3, <2>5, <2>8 DEF ProbeOf
    <2>11. ProbesOf'
      BY <1>0, <2>2, <2>9, <2>10, OneProbeOf
    <2>. QED BY <1>0, <2>2, <2>11, ShownKept, OthersKept DEF ListInv
  <1>13. ASSUME NEW p \in Probes, ProbeDone(p)
         PROVE  ListInv'
    <2>1. /\ probe' = [probe EXCEPT ![p] = IdleProbe] /\ probe[p].pc = "done"
          /\ UNCHANGED <<epoch, widgets, build, pkgbuild>>
          /\ patches' = patches \/ (probe[p].gen = epoch /\ patches' = probe[p].found)
      BY <1>13 DEF ProbeDone, Landed, disk
    <2>2. ProbesOf'
      BY <1>0, <2>1, IdleOf, OneProbeOf
    <2>3. ProbeOf(probe[p], epoch, widgets.variant)
      BY <1>0 DEF ProbesOf
    <2>4. ShownOf'
      BY <1>0, <2>1, <2>3 DEF ShownOf, ProbeOf
    <2>. QED BY <1>0, <2>1, <2>2, <2>4, OthersKept DEF ListInv
  <1>14. ASSUME NEW p \in Probes, ProbePanics(p)
         PROVE  ListInv'
    <2>1. /\ probe' = [probe EXCEPT ![p] = IdleProbe]
          /\ UNCHANGED <<epoch, widgets, patches, build, pkgbuild>>
      BY <1>14 DEF ProbePanics, disk
    <2>2. ProbesOf'
      BY <1>0, <2>1, IdleOf, OneProbeOf
    <2>. QED BY <1>0, <2>1, <2>2, ShownKept, OthersKept DEF ListInv
  <1>15. ASSUME NEW l \in Loads, LoadSubmitted(l) \/ LoadRead(l) \/ ConfigError(l)
         PROVE  ListInv'
    <2>1. UNCHANGED <<widgets, probe, epoch, patches, build, pkgbuild>>
      BY <1>15 DEF LoadSubmitted, LoadRead, ConfigError, ui, disk
    <2>. QED BY <2>1, LeftOf
  <1>16. ASSUME NEW l \in Loads, ConfigLoaded(l)
         PROVE  ListInv'
    <2>. DEFINE w == LoadConfig(widgets, load[l].config)
    <2>1. w.variant = widgets.variant
      BY <1>0, VariantKept
    <2>. HIDE DEF w
    <2>2. /\ widgets' = w /\ options' = OptionsOf(w) /\ StartProbe("refresh", options')
          /\ UNCHANGED <<patches, build, pkgbuild>>
      BY <1>16 DEF ConfigLoaded, Synced, disk, w
    <2>3. options'.variant = widgets.variant
      BY <2>1, <2>2 DEF OptionsOf
    <2>4. ProbesOf'
      BY <1>0, <2>1, <2>2, <2>3, StartedOf
    <2>. QED BY <1>0, <2>1, <2>2, <2>4, ShownKept, OthersKept DEF ListInv
  <1>17. ASSUME NEW s \in Saves,
                \/ SaveSubmitted(s) \/ SaveNames(s) \/ SaveOpens(s) \/ SaveWrites(s)
                \/ SaveRenames(s) \/ SaveDone(s)
         PROVE  ListInv'
    <2>1. UNCHANGED <<widgets, probe, epoch, patches, build, pkgbuild>>
      BY <1>17 DEF SaveSubmitted, SaveNames, SaveOpens, SaveWrites, SaveRenames,
                   SaveDone, ui, disk
    <2>. QED BY <2>1, LeftOf
  <1>18. ASSUME NEW b \in Builds, BuildRequested(b)
         PROVE  ListInv'
    <2>. DEFINE r == [pc |-> "mutate", variant |-> widgets.variant, patches |-> patches]
    <2>1. /\ build' = [build EXCEPT ![b] = r]
          /\ UNCHANGED <<widgets, probe, epoch, patches, pkgbuild>>
      BY <1>18 DEF BuildRequested, ui, disk
    <2>2. BuildOf(r)
      BY <1>0 DEF BuildOf
    <2>. HIDE DEF r
    <2>3. BuildsOf'
      BY <1>0, <2>1, <2>2 DEF BuildsOf
    <2>4. FilesOf'
      BY <1>0, <2>1 DEF FilesOf
    <2>. QED BY <1>0, <2>1, <2>3, <2>4, ShownKept, ProbesOfKept DEF ListInv
  <1>19. ASSUME NEW b \in Builds, BuildMutates(b)
         PROVE  ListInv'
    <2>1. /\ build[b].pc = "mutate" /\ build' = [build EXCEPT ![b] = Idle]
          /\ UNCHANGED <<widgets, probe, epoch, patches>>
      BY <1>19 DEF BuildMutates, ui
    <2>2. BuildsOf'
      BY <1>0, <2>1 DEF BuildsOf, BuildOf, Idle
    <2>. DEFINE v == build[b].variant
                f == BuiltWith(build[b].patches)
    <2>3. v \in DOMAIN SourceArray /\ build[b].patches \in Seq(OwnPatches(v))
      BY <1>0, <2>1 DEF BuildsOf, BuildOf
    <2>4. pkgbuild' \in {pkgbuild, [pkgbuild EXCEPT ![v] = f]}
      BY <1>19 DEF BuildMutates
    <2>5. WrittenFor(v, f)
      BY <2>3 DEF WrittenFor, BuiltWith
    <2>. HIDE DEF v, f
    <2>6. FilesOf'
      BY <1>0, <2>3, <2>4, <2>5 DEF FilesOf
    <2>. QED BY <1>0, <2>1, <2>2, <2>6, ShownKept, ProbesOfKept DEF ListInv
  <1>20. CASE UNCHANGED vars
    BY <1>20, LeftOf DEF vars, ui, threads, disk
  <1>. QED BY <1>1, <1>2, <1>3, <1>4, <1>5, <1>6, <1>7, <1>8, <1>9, <1>10, <1>11, <1>12,
              <1>13, <1>14, <1>15, <1>16, <1>17, <1>18, <1>19, <1>20 DEF Next

THEOREM ListInvariance == Spec => []ListInv
  BY Initially, Inductive, ListInitially, ListInductive, PTL DEF Spec

(* In whatever order the probes end, and however the variants are          *)
(* switched, loaded and built meanwhile, neither the list shown nor the    *)
(* one a build was given has a patch of another variant: a probe whose     *)
(* epoch is the list's was started on the variant shown, and any other is  *)
(* dropped.                                                                *)
THEOREM NoProbeBringsForeignPatches == Spec => []NoForeignPatches
  <1>1. ListInv => NoForeignPatches
    <2>. SUFFICES ASSUME ListInv PROVE NoForeignPatches
      OBVIOUS
    <2>1. Names(patches) \subseteq OwnPatches(widgets.variant)
      BY NamesOf DEF ListInv, ShownOf
    <2>2. ASSUME NEW b \in Builds, build[b].pc = "mutate"
          PROVE  Names(build[b].patches) \subseteq OwnPatches(build[b].variant)
      BY <2>2, NamesOf DEF ListInv, BuildsOf, BuildOf
    <2>. QED BY <2>1, <2>2 DEF NoForeignPatches
  <1>. QED BY <1>1, ListInvariance, PTL
-------------------------------------------------------------------------------
(* The file, as long as no two saves are at work at the same time.         *)
SaveShape(r) ==
    \/ r = Idle
    \/ r = [pc |-> "name", config |-> r.config]
    \/ r = [pc |-> r.pc, config |-> r.config, name |-> r.name, in |-> r.in]

(* A save writes the temporary file, and renames what it wrote.            *)
At(pc, config, n) == [pc |-> pc, config |-> config, name |-> n, in |-> "tmp"]
SaveInv(r, files) ==
    /\ SaveShape(r)
    /\ r.pc \in {"idle", "name", "open", "write", "rename", "saved", "failed"}
    /\ r.pc \in {"name", "open", "write"} => r.config # Cut
    /\ r.pc \in {"open", "write", "rename"} =>
           r = At(r.pc, r.config, r.name) /\ r.name \in TmpNames
    /\ r.pc = "rename" => files[r.name] # Cut
FileInv ==
    /\ file # Cut
    /\ tmp = [n \in TmpNames |-> tmp[n]]
    /\ save = [s \in Saves |-> save[s]]
    /\ \A s \in Saves : SaveInv(save[s], tmp)

LEMMA ConfigsAreWhole == \A w : ToConfig(w) # Cut
  <1>1. \A w : "hz" \in DOMAIN ToConfig(w)
    BY DEF ToConfig
  <1>2. "hz" \notin DOMAIN Cut
    BY DEF Cut
  <1>. QED BY <1>1, <1>2

LEMMA FileKept ==
    ASSUME FileInv, UNCHANGED <<file, tmp, save>>
    PROVE  FileInv'
  BY DEF FileInv

LEMMA IdleSaveHolds == \A files : SaveInv(Idle, files)
  BY DEF SaveInv, SaveShape, Idle

LEMMA AtHolds ==
    ASSUME NEW files, NEW config, NEW n, NEW pc \in {"open", "write", "rename", "saved", "failed"},
           pc \in {"open", "write"} => config # Cut,
           pc \in {"open", "write", "rename"} => n \in TmpNames,
           pc = "rename" => files[n] # Cut
    PROVE  SaveInv(At(pc, config, n), files)
  <1>. DEFINE r == At(pc, config, n)
  <1>1. r.pc = pc /\ r.config = config /\ r.name = n /\ r = At(r.pc, r.config, r.name)
    BY DEF At
  <1>2. SaveShape(r)
    BY DEF SaveShape, At
  <1>. HIDE DEF r
  <1>3. SaveInv(r, files)
    BY <1>1, <1>2 DEF SaveInv
  <1>. QED BY <1>3 DEF r

(* The one save takes a step.                                              *)
LEMMA OneSave ==
    ASSUME FileInv, \A s, t \in Saves : s = t, NEW s \in Saves, NEW r,
           save' = [save EXCEPT ![s] = r], SaveInv(r, tmp'), file' # Cut,
           tmp' = [n \in TmpNames |-> tmp'[n]]
    PROVE  FileInv'
  <1>1. \A t \in Saves : t = s
    OBVIOUS
  <1>2. save' = [t \in Saves |-> r]
    BY <1>1 DEF FileInv
  <1>. QED BY <1>2 DEF FileInv

LEMMA FileInductive ==
    ASSUME \A s, t \in Saves : s = t
    PROVE  FileInv /\ [Next]_vars => FileInv'
  <1>. SUFFICES ASSUME FileInv, [Next]_vars PROVE FileInv'
    OBVIOUS
  <1>0. file # Cut /\ tmp = [n \in TmpNames |-> tmp[n]]
    BY DEF FileInv
  <1>1. CASE Restart
    <2>1. /\ file' = file /\ save' = [s \in Saves |-> Idle]
          /\ tmp' = [n \in TmpNames |-> Missing]
      BY <1>1 DEF Restart, disk
    <2>. QED BY <2>1, IdleSaveHolds DEF FileInv
  <1>2. ASSUME NEW s \in Saves, SaveSubmitted(s)
        PROVE  FileInv'
    <2>1. PICK c : c # Cut /\ save' = [save EXCEPT ![s] = [pc |-> "name", config |-> c]]
      BY <1>2, ConfigsAreWhole DEF SaveSubmitted
    <2>2. UNCHANGED <<file, tmp>>
      BY <1>2 DEF SaveSubmitted
    <2>3. SaveInv([pc |-> "name", config |-> c], tmp')
      BY <2>1 DEF SaveInv, SaveShape
    <2>. QED BY <1>0, <2>1, <2>2, <2>3, OneSave
  <1>3. ASSUME NEW s \in Saves, SaveNames(s)
        PROVE  FileInv'
    <2>1. save[s].pc = "name" /\ UNCHANGED <<file, tmp>>
      BY <1>3 DEF SaveNames, disk
    <2>2. PICK n, c : /\ n \in TmpNames
                      /\ c = save[s].config
                      /\ save' = [save EXCEPT ![s] = At("open", c, n)]
      BY <1>3 DEF SaveNames, At
    <2>3. c # Cut
      BY <2>1, <2>2 DEF FileInv, SaveInv
    <2>4. SaveInv(At("open", c, n), tmp')
      BY <2>2, <2>3, AtHolds
    <2>. QED BY <1>0, <2>1, <2>2, <2>4, OneSave
  <1>4. ASSUME NEW s \in Saves, SaveOpens(s) \/ SaveWrites(s) \/ SaveRenames(s)
        PROVE  FileInv'
    <2>1. PICK c, n : /\ n \in TmpNames
                      /\ save[s] = At(save[s].pc, c, n)
                      /\ save[s].pc \in {"open", "write"} => c # Cut
                      /\ save[s].pc = "rename" => tmp[n] # Cut
      BY <1>4 DEF FileInv, SaveInv, SaveOpens, SaveWrites, SaveRenames
    <2>2. \A pc : [save[s] EXCEPT !.pc = pc] = At(pc, c, n)
      BY <2>1 DEF At
    <2>3. save[s].name = n /\ save[s].config = c /\ save[s].in = "tmp"
      BY <2>1 DEF At
    <2>4. \A to : SaveGoes(s, to) => save' = [save EXCEPT ![s] = At(to, c, n)]
      BY <2>2 DEF SaveGoes, FileInv
    <2>5. \A files : SaveInv(At("failed", c, n), files) /\ SaveInv(At("saved", c, n), files)
      BY AtHolds
    <2>6. CASE SaveFails(s)
      BY <1>0, <2>4, <2>5, <2>6, OneSave DEF SaveFails
    <2>7. CASE SaveOpens(s) /\ ~SaveFails(s)
      <3>1. /\ file' = file /\ tmp' = [tmp EXCEPT ![n] = Cut]
            /\ save' = [save EXCEPT ![s] = At("write", c, n)]
        BY <2>3, <2>4, <2>7 DEF SaveOpens
      <3>2. SaveInv(At("write", c, n), tmp')
        BY <2>1, <2>7, AtHolds DEF SaveOpens
      <3>. QED BY <1>0, <3>1, <3>2, OneSave
    <2>8. CASE SaveWrites(s) /\ ~SaveFails(s)
      <3>1. /\ file' = file /\ tmp' = [tmp EXCEPT ![n] = c]
            /\ save' = [save EXCEPT ![s] = At("rename", c, n)]
        BY <2>3, <2>4, <2>8 DEF SaveWrites
      <3>2. tmp'[n] = c /\ c # Cut
        BY <1>0, <2>1, <2>8, <3>1 DEF SaveWrites
      <3>3. SaveInv(At("rename", c, n), tmp')
        BY <2>1, <3>2, AtHolds
      <3>. QED BY <1>0, <3>1, <3>3, OneSave
    <2>9. CASE SaveRenames(s)
      <3>1. save[s].pc = "rename" /\ tmp' = [tmp EXCEPT ![n] = Missing]
        BY <2>3, <2>9 DEF SaveRenames
      <3>2. file' \in {file, tmp[n]}
        BY <2>3, <2>9 DEF SaveRenames
      <3>3. PICK pc \in {"saved", "failed"} :
                \E to : save' = [t \in Saves |->
                    IF t = s THEN [save[s] EXCEPT !.pc = pc] ELSE Moved(t, n, to)]
        BY <2>3, <2>9 DEF SaveRenames
      <3>4. save' = [save EXCEPT ![s] = At(pc, c, n)]
        BY <2>2, <3>3 DEF FileInv
      <3>5. file' # Cut
        BY <1>0, <2>1, <3>1, <3>2
      <3>. QED BY <1>0, <2>5, <3>1, <3>4, <3>5, OneSave
    <2>. QED BY <1>4, <2>6, <2>7, <2>8, <2>9
  <1>5. ASSUME NEW s \in Saves, SaveDone(s)
        PROVE  FileInv'
    <2>1. save' = [save EXCEPT ![s] = Idle] /\ UNCHANGED <<file, tmp>>
      BY <1>5 DEF SaveDone, disk
    <2>. QED BY <1>0, <2>1, IdleSaveHolds, OneSave
  <1>6. CASE UNCHANGED <<file, tmp, save>>
    BY <1>6, FileKept
  <1>7. ASSUME NEW p \in Probes,
               GitRefresh(p) \/ ProbePatchEntries(p) \/ ProbeDone(p) \/ ProbePanics(p)
        PROVE  UNCHANGED <<file, tmp, save>>
    BY <1>7 DEF GitRefresh, ProbePatchEntries, ProbeDone, ProbePanics, disk
  <1>8. ASSUME NEW l \in Loads,
               LoadSubmitted(l) \/ LoadRead(l) \/ ConfigLoaded(l) \/ ConfigError(l)
        PROVE  UNCHANGED <<file, tmp, save>>
    BY <1>8 DEF LoadSubmitted, LoadRead, ConfigLoaded, ConfigError, disk
  <1>9. ASSUME NEW b \in Builds, BuildRequested(b) \/ BuildMutates(b)
        PROVE  UNCHANGED <<file, tmp, save>>
    BY <1>9 DEF BuildRequested, BuildMutates, disk
  <1>10. ASSUME NEW list, Edited(list)
         PROVE  UNCHANGED <<file, tmp, save>>
    BY <1>10 DEF Edited, disk
  <1>11. CASE PatchMoved \/ PatchRemoved \/ PatchAdded
    <2>1. (\E list : Edited(list)) \/ UNCHANGED <<threads, disk>>
      BY <1>11 DEF PatchMoved, PatchRemoved, PatchAdded
    <2>. QED BY <1>10, <2>1, FileKept DEF threads, disk
  <1>12. CASE \/ ConfigureRequested \/ Cancel \/ DialogDismissed
              \/ PathDialogOpened \/ PathDialogDismissed
              \/ PreemptPicked \/ CustomNameChanged \/ OtherCheckToggled
    <2>1. UNCHANGED <<file, tmp, save>>
      BY <1>12 DEF ConfigureRequested, Cancel, DialogDismissed, PathDialogOpened,
            PathDialogDismissed, PreemptPicked, CustomNameChanged, OtherCheckToggled,
            threads, disk
    <2>. QED BY <2>1, FileKept
  <1>13. CASE VariantPicked \/ LtoPicked \/ NvidiaOpenToggled
    <2>1. \E w : SyncedAndProbed(w)
      BY <1>13 DEF VariantPicked, LtoPicked, NvidiaOpenToggled
    <2>. QED BY <2>1, FileKept DEF SyncedAndProbed, disk
  <1>14. CASE UNCHANGED vars
    BY <1>14, FileKept DEF vars, threads, disk
  <1>. QED BY <1>1, <1>2, <1>3, <1>4, <1>5, <1>7, <1>8, <1>9, <1>11, <1>12, <1>13, <1>14,
              FileKept DEF Next

(* As long as the user starts one save at a time, the file is never seen   *)
(* half written, whatever fails and whenever the program ends.             *)
THEOREM OneSaveKeepsTheFileWhole ==
    ASSUME \A s, t \in Saves : s = t, Cut \notin Files
    PROVE  Spec => []FileIsWhole
  <1>1. Init => FileInv
    BY IdleSaveHolds DEF Init, FileInv
  <1>2. FileInv /\ [Next]_vars => FileInv'
    BY FileInductive
  <1>3. FileInv => FileIsWhole
    BY DEF FileInv, FileIsWhole
  <1>. QED BY <1>1, <1>2, <1>3, PTL DEF Spec
-------------------------------------------------------------------------------
(* Type correctness.  A configuration, in a file or in the hands of a      *)
(* thread, checks boxes there are.                                         *)
ConfigOf(f) == f \notin {Missing, Cut} => f.checked \subseteq Check
Typed(w) == w.variant \in VariantsAll /\ w.checks \subseteq Check

SaveOf(r) ==
    /\ SaveShape(r)
    /\ r.pc # "idle" => ConfigOf(r.config)
    /\ r.pc \in {"open", "write", "rename"} => r.name \in TmpNames
SavesOf ==
    /\ save = [s \in Saves |-> save[s]]
    /\ \A s \in Saves : SaveOf(save[s])
OnDisk ==
    /\ ConfigOf(file)
    /\ tmp = [n \in TmpNames |-> tmp[n]]
    /\ \A n \in TmpNames : ConfigOf(tmp[n])
LoadsOf ==
    /\ load = [l \in Loads |-> load[l]]
    /\ \A l \in Loads : load[l].pc = "done" => ConfigOf(load[l].config)
ConfigsOf == OnDisk /\ SavesOf /\ LoadsOf

(* A probe under way has a number of its own.                              *)
NumbersOf ==
    /\ epoch <= MaxEpoch
    /\ \A p \in Probes : probe[p].pc # "idle" => probe[p].gen # 0
WindowOf ==
    /\ conf \in {"Closed", "Preparing", "Editing"}
    /\ dialog \in {None, "progress", "error"}
    /\ path \in {None, "load", "save", "patch"}
TypeInv == Typed(widgets) /\ ConfigsOf /\ NumbersOf /\ WindowOf

LEMMA SpecialBoxes == {"hardly", "cachy_config", "builtin_zfs"} \subseteq Check
  <1>1. CheckboxBindings[1] = <<"hardly", "_cc_harder">> /\ 1 \in DOMAIN CheckboxBindings
    BY DEF CheckboxBindings
  <1>2. CheckboxBindings[4] = <<"cachy_config", "_cachy_config">> /\ 4 \in DOMAIN CheckboxBindings
    BY DEF CheckboxBindings
  <1>3. CheckboxBindings[9] = <<"builtin_zfs", "_build_zfs">> /\ 9 \in DOMAIN CheckboxBindings
    BY DEF CheckboxBindings
  <1>4. /\ CheckboxBindings[1][1] = "hardly" /\ CheckboxBindings[4][1] = "cachy_config"
        /\ CheckboxBindings[9][1] = "builtin_zfs"
    BY <1>1, <1>2, <1>3
  <1>. QED BY <1>1, <1>2, <1>3, <1>4 DEF Check

LEMMA DefaultTyped == Typed(DefaultWidgets)
  <1>1. DefaultWidgets.variant = "cachyos" /\ DefaultWidgets.checks = {"hardly"}
    BY DEF DefaultWidgets
  <1>. QED BY <1>1, SpecialBoxes DEF Typed, VariantsAll

(* Each control leaves boxes there are, and a variant there is.            *)
LEMMA ControlsTyped ==
    ASSUME NEW w, Good(w), Typed(w)
    PROVE  /\ \A l : Typed([w EXCEPT !.switch.lto = l])
           /\ \A p : Typed([w EXCEPT !.switch.preempt = p])
           /\ \A n : Typed([w EXCEPT !.customName = n])
           /\ \A c \in Toggles : Typed(CheckToggled(w, c))
           /\ \A v \in Picks : Typed(OnVariantChanged(w, v))
  <1>1. PICK v0, s, c0, t, h, o, n0 :
            w = [variant |-> v0, switch |-> s, checks |-> c0, tickless |-> t,
                 hugepage |-> h, cpuOpt |-> o, customName |-> n0]
    BY Fields DEF Good
  <1>2. v0 \in VariantsAll /\ c0 \subseteq Check
    BY <1>1 DEF Typed
  <1>3. \A l : Typed([w EXCEPT !.switch.lto = l])
    BY <1>1, <1>2 DEF Typed
  <1>4. \A p : Typed([w EXCEPT !.switch.preempt = p])
    BY <1>1, <1>2 DEF Typed
  <1>5. \A n : Typed([w EXCEPT !.customName = n])
    BY <1>1, <1>2 DEF Typed
  <1>6. ASSUME NEW c \in Toggles
        PROVE  Typed(CheckToggled(w, c))
    <2>1. \A b : Typed([w EXCEPT !.switch.cachyConfig = b])
      BY <1>1, <1>2 DEF Typed
    <2>2. \A b : Typed([w EXCEPT !.switch.zfs = b])
      BY <1>1, <1>2 DEF Typed
    <2>3. \A b : b \subseteq Check => Typed([w EXCEPT !.checks = b])
      BY <1>1, <1>2 DEF Typed
    <2>4. c \in Check
      BY ValuesAssumption
    <2>5. CASE c = "cachy_config"
      BY <2>1, <2>5 DEF CheckToggled
    <2>6. CASE c = "builtin_zfs"
      BY <2>2, <2>6 DEF CheckToggled
    <2>7. CASE c \notin {"cachy_config", "builtin_zfs"}
      <3>. DEFINE b == IF c \in w.checks THEN w.checks \ {c} ELSE w.checks \cup {c}
      <3>1. CheckToggled(w, c) = [w EXCEPT !.checks = b]
        BY <2>7 DEF CheckToggled
      <3>2. b \subseteq Check
        BY <2>4 DEF Typed
      <3>. HIDE DEF b
      <3>. QED BY <2>3, <3>1, <3>2
    <2>. QED BY <2>5, <2>6, <2>7
  <1>7. ASSUME NEW v \in Picks
        PROVE  Typed(OnVariantChanged(w, v))
    <2>. DEFINE u == SwitchTo(w.switch, v)
                x == [w EXCEPT !.variant = v, !.switch = u]
    <2>1. OnVariantChanged(w, v) = x
      BY DEF OnVariantChanged
    <2>. HIDE DEF u
    <2>2. x.variant = v /\ x.checks = w.checks
      BY <1>1
    <2>3. v \in VariantsAll
      BY ValuesAssumption
    <2>. HIDE DEF x
    <2>. QED BY <2>1, <2>2, <2>3 DEF Typed
  <1>. QED BY <1>3, <1>4, <1>5, <1>6, <1>7

LEMMA LoadTyped ==
    ASSUME NEW w, Good(w), Typed(w), NEW config, config.checked \subseteq Check
    PROVE  Typed(LoadConfig(w, config))
  <1>. DEFINE k == Known(w, config)
              lt == Loaded(k.lto, config.lto, w.switch.lto)
              pr == Loaded(k.preempt, config.preempt, w.switch.preempt)
              hz == Loaded(k.hz, config.hz, w.switch.hz)
              ck == config.checked \ {"cachy_config", "builtin_zfs"}
              ti == Loaded(k.tickless, config.tickless, w.tickless)
              hu == Loaded(k.hugepage, config.hugepage, w.hugepage)
              cp == Loaded(k.cpuOpt, config.cpuOpt, w.cpuOpt)
              cc == "cachy_config" \in config.checked
              zf == "builtin_zfs" \in config.checked
  <1>1. LoadConfig(w, config) = With(w, lt, pr, hz, cc, zf, ck, ti, hu, cp, config.customName)
    BY LoadIs
  <1>2. ck \subseteq Check
    OBVIOUS
  <1>. HIDE DEF lt, pr, hz, cc, zf, ck, ti, hu, cp
  <1>. QED BY <1>1, <1>2 DEF With, Typed

(* What is saved checks boxes there are.                                   *)
LEMMA SavedOf ==
    ASSUME NEW w, Typed(w)
    PROVE  ConfigOf(ToConfig(w))
  <1>1. Checked(w) \subseteq Check
    BY SpecialBoxes DEF Checked, Typed
  <1>2. ToConfig(w).checked = Checked(w)
    BY DEF ToConfig
  <1>. QED BY <1>1, <1>2 DEF ConfigOf

LEMMA IdleSaveOf == SaveOf(Idle)
  BY DEF SaveOf, SaveShape, Idle

LEMMA NothingOf == ConfigOf(Missing) /\ ConfigOf(Cut)
  BY DEF ConfigOf

LEMMA ConfigsKept ==
    ASSUME ConfigsOf, UNCHANGED <<file, tmp, save, load>>
    PROVE  ConfigsOf'
  BY DEF ConfigsOf, OnDisk, SavesOf, LoadsOf

LEMMA TypeInitially == Init => TypeInv
  <1>. SUFFICES ASSUME Init PROVE TypeInv
    OBVIOUS
  <1>1. Typed(widgets)
    BY DefaultTyped DEF Init
  <1>2. OnDisk
    BY ValuesAssumption, NothingOf DEF Init, OnDisk, ConfigOf
  <1>3. SavesOf
    BY IdleSaveOf DEF Init, SavesOf
  <1>4. LoadsOf
    BY DEF Init, LoadsOf, Idle
  <1>5. NumbersOf
    BY BoundsAssumption DEF Init, NumbersOf, IdleProbe
  <1>6. WindowOf
    BY DEF Init, WindowOf, None
  <1>. QED BY <1>1, <1>2, <1>3, <1>4, <1>5, <1>6 DEF TypeInv, ConfigsOf

(* The window and its dialogs.                                             *)
LEMMA WindowTyped == WindowOf /\ [Next]_vars => WindowOf'
  <1>. SUFFICES ASSUME WindowOf, [Next]_vars PROVE WindowOf'
    OBVIOUS
  <1>. USE DEF WindowOf, None
  <1>1. CASE ConfigureRequested \/ Cancel \/ DialogDismissed \/ Restart
    BY <1>1 DEF ConfigureRequested, Cancel, DialogDismissed, Restart
  <1>2. CASE VariantPicked \/ LtoPicked \/ NvidiaOpenToggled
    BY <1>2 DEF VariantPicked, LtoPicked, NvidiaOpenToggled, SyncedAndProbed
  <1>3. CASE PreemptPicked \/ CustomNameChanged \/ OtherCheckToggled
    BY <1>3 DEF PreemptPicked, CustomNameChanged, OtherCheckToggled
  <1>4. CASE PatchMoved \/ PatchRemoved \/ PatchAdded
    BY <1>4 DEF PatchMoved, PatchRemoved, PatchAdded, Edited
  <1>5. CASE PathDialogOpened \/ PathDialogDismissed
    BY <1>5 DEF PathDialogOpened, PathDialogDismissed
  <1>6. ASSUME NEW p \in Probes,
               GitRefresh(p) \/ ProbePatchEntries(p) \/ ProbeDone(p) \/ ProbePanics(p)
        PROVE  WindowOf'
    BY <1>6 DEF GitRefresh, ProbePatchEntries, ProbeDone, ProbePanics, ui
  <1>7. ASSUME NEW l \in Loads,
               LoadSubmitted(l) \/ LoadRead(l) \/ ConfigLoaded(l) \/ ConfigError(l)
        PROVE  WindowOf'
    BY <1>7 DEF LoadSubmitted, LoadRead, ConfigLoaded, ConfigError, ui
  <1>8. ASSUME NEW s \in Saves,
               \/ SaveSubmitted(s) \/ SaveNames(s) \/ SaveOpens(s) \/ SaveWrites(s)
               \/ SaveRenames(s) \/ SaveDone(s)
        PROVE  WindowOf'
    BY <1>8 DEF SaveSubmitted, SaveNames, SaveOpens, SaveWrites, SaveRenames, SaveDone, ui
  <1>9. ASSUME NEW b \in Builds, BuildRequested(b) \/ BuildMutates(b)
        PROVE  WindowOf'
    BY <1>9 DEF BuildRequested, BuildMutates, ui
  <1>10. CASE UNCHANGED vars
    BY <1>10 DEF vars, ui
  <1>. QED BY <1>1, <1>2, <1>3, <1>4, <1>5, <1>6, <1>7, <1>8, <1>9, <1>10 DEF Next

(* The numbers of the probes.                                              *)
LEMMA StartedNumbers ==
    ASSUME ProbesInv, NumbersOf, NEW kind, NEW o, StartProbe(kind, o)
    PROVE  NumbersOf'
  <1>. DEFINE r == [pc |-> IF kind = "prepare" THEN "git" ELSE "read", kind |-> kind,
                    gen |-> epoch + 1, options |-> o, found |-> << >>,
                    overtaken |-> FALSE]
  <1>1. PICK p \in Probes : probe' = [probe EXCEPT ![p] = r]
    BY DEF StartProbe
  <1>2. epoch' = epoch + 1 /\ epoch \in Nat /\ epoch < MaxEpoch /\ MaxEpoch \in Nat
    BY BoundsAssumption DEF StartProbe, ProbesInv
  <1>3. r.gen = epoch + 1 /\ r.gen # 0
    BY <1>2
  <1>. HIDE DEF r
  <1>. QED BY <1>1, <1>2, <1>3 DEF NumbersOf, ProbesInv

LEMMA OneNumber ==
    ASSUME ProbesInv, NumbersOf, NEW p \in Probes, NEW r, r.pc # "idle" => r.gen # 0,
           probe' = [probe EXCEPT ![p] = r], epoch' = epoch
    PROVE  NumbersOf'
  BY DEF NumbersOf, ProbesInv

LEMMA EditedNumbers ==
    ASSUME ProbesInv, NumbersOf, NEW list, Edited(list)
    PROVE  NumbersOf'
  <1>1. epoch' = epoch + 1 /\ epoch \in Nat /\ epoch < MaxEpoch /\ MaxEpoch \in Nat
    BY BoundsAssumption DEF Edited, ProbesInv
  <1>2. probe' = [p \in Probes |-> IF probe[p].pc = "idle" THEN probe[p]
                                   ELSE [probe[p] EXCEPT !.overtaken = TRUE]]
    BY DEF Edited, Overtake
  <1>3. ASSUME NEW p \in Probes, probe'[p].pc # "idle"
        PROVE  probe'[p].gen # 0
    <2>1. PICK pc, kind, gen, o, found, b :
              probe[p] = [pc |-> pc, kind |-> kind, gen |-> gen, options |-> o,
                          found |-> found, overtaken |-> b]
      BY DEF ProbesInv, ProbeInv, ProbeShape
    <2>. DEFINE x == [probe[p] EXCEPT !.overtaken = TRUE]
    <2>2. x.pc = probe[p].pc /\ x.gen = probe[p].gen
      BY <2>1
    <2>3. probe'[p] = IF probe[p].pc = "idle" THEN probe[p] ELSE x
      BY <1>2
    <2>. HIDE DEF x
    <2>. QED BY <1>3, <2>2, <2>3 DEF NumbersOf
  <1>4. epoch' <= MaxEpoch
    BY <1>1
  <1>. QED BY <1>3, <1>4 DEF NumbersOf

LEMMA NumbersTyped == IInv /\ NumbersOf /\ [Next]_vars => NumbersOf'
  <1>. SUFFICES ASSUME ProbesInv, NumbersOf, [Next]_vars PROVE NumbersOf'
    BY DEF IInv
  <1>0. ASSUME UNCHANGED <<probe, epoch>>
        PROVE  NumbersOf'
    BY <1>0 DEF NumbersOf
  <1>00. IdleProbe.pc = "idle"
    BY DEF IdleProbe
  <1>1. CASE ConfigureRequested
    BY <1>1, StartedNumbers DEF ConfigureRequested
  <1>2. CASE Restart
    BY <1>2, <1>00 DEF Restart, NumbersOf
  <1>3. CASE VariantPicked \/ LtoPicked \/ NvidiaOpenToggled
    <2>1. \E w : StartProbe("refresh", OptionsOf(w))
      BY <1>3 DEF VariantPicked, LtoPicked, NvidiaOpenToggled, SyncedAndProbed
    <2>. QED BY <2>1, StartedNumbers
  <1>4. CASE PatchMoved \/ PatchRemoved \/ PatchAdded
    <2>1. (\E list : Edited(list)) \/ UNCHANGED <<epoch, threads>>
      BY <1>4 DEF PatchMoved, PatchRemoved, PatchAdded
    <2>2. CASE \E list : Edited(list)
      BY <2>2, EditedNumbers
    <2>3. CASE UNCHANGED <<epoch, threads>>
      BY <1>0, <2>3 DEF threads
    <2>. QED BY <2>1, <2>2, <2>3
  <1>5. CASE \/ Cancel \/ DialogDismissed \/ PathDialogOpened \/ PathDialogDismissed
             \/ PreemptPicked \/ CustomNameChanged \/ OtherCheckToggled
    BY <1>0, <1>5 DEF Cancel, DialogDismissed, PathDialogOpened, PathDialogDismissed,
                      PreemptPicked, CustomNameChanged, OtherCheckToggled, threads
  <1>6. ASSUME NEW p \in Probes, GitRefresh(p) \/ ProbePatchEntries(p)
        PROVE  NumbersOf'
    <2>1. PICK pc, kind, gen, o, found, b :
              probe[p] = [pc |-> pc, kind |-> kind, gen |-> gen, options |-> o,
                          found |-> found, overtaken |-> b]
      BY DEF ProbesInv, ProbeInv, ProbeShape
    <2>2. gen # 0 /\ epoch' = epoch
      BY <1>6, <2>1 DEF NumbersOf, GitRefresh, ProbePatchEntries, ui
    <2>3. PICK to, what : \/ probe' = [probe EXCEPT ![p].pc = to]
                          \/ probe' = [probe EXCEPT ![p].pc = to, ![p].found = what]
      BY <1>6 DEF GitRefresh, ProbePatchEntries
    <2>. DEFINE x == [probe[p] EXCEPT !.pc = to]
                y == [x EXCEPT !.found = what]
    <2>4. x = [pc |-> to, kind |-> kind, gen |-> gen, options |-> o,
               found |-> found, overtaken |-> b]
      BY <2>1
    <2>5. probe' = [probe EXCEPT ![p] = x] \/ probe' = [probe EXCEPT ![p] = y]
      <3>1. probe = [q \in Probes |-> probe[q]]
        BY DEF ProbesInv
      <3>. QED BY <2>3, <3>1
    <2>. HIDE DEF x
    <2>6. y = [pc |-> to, kind |-> kind, gen |-> gen, options |-> o,
               found |-> what, overtaken |-> b]
      BY <2>4
    <2>. HIDE DEF y
    <2>7. x.gen # 0 /\ y.gen # 0
      BY <2>2, <2>4, <2>6
    <2>. QED BY <2>2, <2>5, <2>7, OneNumber
  <1>7. ASSUME NEW p \in Probes, ProbeDone(p) \/ ProbePanics(p)
        PROVE  NumbersOf'
    BY <1>00, <1>7, OneNumber DEF ProbeDone, ProbePanics
  <1>8. ASSUME NEW l \in Loads, LoadSubmitted(l) \/ LoadRead(l) \/ ConfigError(l)
        PROVE  NumbersOf'
    BY <1>0, <1>8 DEF LoadSubmitted, LoadRead, ConfigError, ui
  <1>9. ASSUME NEW l \in Loads, ConfigLoaded(l)
        PROVE  NumbersOf'
    BY <1>9, StartedNumbers DEF ConfigLoaded
  <1>10. ASSUME NEW s \in Saves,
                \/ SaveSubmitted(s) \/ SaveNames(s) \/ SaveOpens(s) \/ SaveWrites(s)
                \/ SaveRenames(s) \/ SaveDone(s)
         PROVE  NumbersOf'
    BY <1>0, <1>10 DEF SaveSubmitted, SaveNames, SaveOpens, SaveWrites, SaveRenames,
                       SaveDone, ui
  <1>11. ASSUME NEW b \in Builds, BuildRequested(b) \/ BuildMutates(b)
         PROVE  NumbersOf'
    BY <1>0, <1>11 DEF BuildRequested, BuildMutates, ui
  <1>12. CASE UNCHANGED vars
    BY <1>0, <1>12 DEF vars, ui, threads
  <1>. QED BY <1>1, <1>2, <1>3, <1>4, <1>5, <1>6, <1>7, <1>8, <1>9, <1>10, <1>11, <1>12
           DEF Next

(* What the widgets hold, whatever is picked or loaded.                    *)
LEMMA WidgetsTyped ==
    IInv /\ Typed(widgets) /\ LoadsOf /\ [Next]_vars => Typed(widgets)'
  <1>. SUFFICES ASSUME Good(widgets), Typed(widgets), LoadsOf, [Next]_vars
                PROVE  Typed(widgets)'
    BY DEF IInv
  <1>0. ASSUME widgets' = widgets
        PROVE  Typed(widgets)'
    BY <1>0
  <1>1. CASE Restart
    BY <1>1, DefaultTyped DEF Restart
  <1>2. CASE VariantPicked \/ LtoPicked \/ NvidiaOpenToggled
    <2>1. ASSUME NEW w, Typed(w), SyncedAndProbed(w)
          PROVE  Typed(widgets)'
      BY <2>1 DEF SyncedAndProbed, Synced
    <2>2. CASE VariantPicked
      BY <2>1, <2>2, ControlsTyped DEF VariantPicked
    <2>3. CASE LtoPicked
      BY <2>1, <2>3, ControlsTyped DEF LtoPicked
    <2>4. CASE NvidiaOpenToggled
      BY <2>1, <2>4, ControlsTyped DEF NvidiaOpenToggled
    <2>. QED BY <1>2, <2>2, <2>3, <2>4
  <1>3. CASE PreemptPicked \/ CustomNameChanged \/ OtherCheckToggled
    <2>1. ASSUME NEW w, Typed(w), Synced(w)
          PROVE  Typed(widgets)'
      BY <2>1 DEF Synced
    <2>2. CASE PreemptPicked
      BY <2>1, <2>2, ControlsTyped DEF PreemptPicked
    <2>3. CASE CustomNameChanged
      BY <2>1, <2>3, ControlsTyped DEF CustomNameChanged
    <2>4. CASE OtherCheckToggled
      BY <2>1, <2>4, ControlsTyped DEF OtherCheckToggled
    <2>. QED BY <1>3, <2>2, <2>3, <2>4
  <1>4. CASE \/ ConfigureRequested \/ Cancel \/ DialogDismissed
             \/ PathDialogOpened \/ PathDialogDismissed
    BY <1>0, <1>4 DEF ConfigureRequested, Cancel, DialogDismissed, PathDialogOpened,
                      PathDialogDismissed
  <1>5. CASE PatchMoved \/ PatchRemoved \/ PatchAdded
    BY <1>0, <1>5 DEF PatchMoved, PatchRemoved, PatchAdded, Edited
  <1>6. ASSUME NEW p \in Probes,
               GitRefresh(p) \/ ProbePatchEntries(p) \/ ProbeDone(p) \/ ProbePanics(p)
        PROVE  Typed(widgets)'
    BY <1>0, <1>6 DEF GitRefresh, ProbePatchEntries, ProbeDone, ProbePanics, ui
  <1>7. ASSUME NEW l \in Loads, LoadSubmitted(l) \/ LoadRead(l) \/ ConfigError(l)
        PROVE  Typed(widgets)'
    BY <1>0, <1>7 DEF LoadSubmitted, LoadRead, ConfigError, ui
  <1>8. ASSUME NEW l \in Loads, ConfigLoaded(l)
        PROVE  Typed(widgets)'
    <2>1. load[l].config.checked \subseteq Check
      BY <1>8 DEF ConfigLoaded, LoadsOf, ConfigOf
    <2>. DEFINE w == LoadConfig(widgets, load[l].config)
    <2>2. Typed(w)
      BY <2>1, LoadTyped
    <2>. HIDE DEF w
    <2>3. widgets' = w
      BY <1>8 DEF ConfigLoaded, Synced, w
    <2>. QED BY <2>2, <2>3
  <1>9. ASSUME NEW s \in Saves,
               \/ SaveSubmitted(s) \/ SaveNames(s) \/ SaveOpens(s) \/ SaveWrites(s)
               \/ SaveRenames(s) \/ SaveDone(s)
        PROVE  Typed(widgets)'
    BY <1>0, <1>9 DEF SaveSubmitted, SaveNames, SaveOpens, SaveWrites, SaveRenames,
                      SaveDone, ui
  <1>10. ASSUME NEW b \in Builds, BuildRequested(b) \/ BuildMutates(b)
         PROVE  Typed(widgets)'
    BY <1>0, <1>10 DEF BuildRequested, BuildMutates, ui
  <1>11. CASE UNCHANGED vars
    BY <1>0, <1>11 DEF vars, ui
  <1>. QED BY <1>1, <1>2, <1>3, <1>4, <1>5, <1>6, <1>7, <1>8, <1>9, <1>10, <1>11 DEF Next

(* A save that has a name.                                                 *)
LEMMA NamedSave ==
    ASSUME NEW r, SaveShape(r), r.pc \notin {"idle", "name"}
    PROVE  \E pc, config, name, in :
               r = [pc |-> pc, config |-> config, name |-> name, in |-> in]
  <1>1. r # Idle
    BY DEF Idle
  <1>2. r # [pc |-> "name", config |-> r.config]
    OBVIOUS
  <1>3. r = [pc |-> r.pc, config |-> r.config, name |-> r.name, in |-> r.in]
    BY <1>1, <1>2 DEF SaveShape
  <1>. QED BY <1>3

(* A save goes on with what it has.                                        *)
LEMMA SaveGoesOn ==
    ASSUME SavesOf, NEW s \in Saves,
           save[s].pc \in {"open", "write", "rename"},
           NEW to \in {"write", "rename", "saved", "failed"}
    PROVE  SaveOf([save[s] EXCEPT !.pc = to])
  <1>1. SaveOf(save[s])
    BY DEF SavesOf
  <1>2. PICK pc, config, name, in :
            save[s] = [pc |-> pc, config |-> config, name |-> name, in |-> in]
    BY <1>1, NamedSave DEF SaveOf
  <1>. DEFINE r == [save[s] EXCEPT !.pc = to]
  <1>3. r = [pc |-> to, config |-> config, name |-> name, in |-> in]
    BY <1>2
  <1>. HIDE DEF r
  <1>4. r.config = save[s].config /\ r.name = save[s].name /\ r.pc = to
    BY <1>2, <1>3
  <1>5. SaveShape(r)
    BY <1>3 DEF SaveShape
  <1>6. SaveOf(r)
    BY <1>1, <1>4, <1>5 DEF SaveOf
  <1>. QED BY <1>6 DEF r

LEMMA MovedOf ==
    ASSUME SavesOf, NEW t \in Saves, NEW name, NEW to
    PROVE  SaveOf(Moved(t, name, to))
  <1>1. SaveOf(save[t])
    BY DEF SavesOf
  <1>2. ASSUME NEW in, save[t].pc = "write"
        PROVE  SaveOf([save[t] EXCEPT !.in = in])
    <2>1. PICK pc, config, n, i :
              save[t] = [pc |-> pc, config |-> config, name |-> n, in |-> i]
      BY <1>1, <1>2, NamedSave DEF SaveOf
    <2>. DEFINE r == [save[t] EXCEPT !.in = in]
    <2>2. r = [pc |-> pc, config |-> config, name |-> n, in |-> in]
      BY <2>1
    <2>. HIDE DEF r
    <2>3. r.config = save[t].config /\ r.name = save[t].name /\ r.pc = save[t].pc
      BY <2>1, <2>2
    <2>4. SaveShape(r)
      BY <2>2 DEF SaveShape
    <2>5. SaveOf(r)
      BY <1>1, <2>3, <2>4 DEF SaveOf
    <2>. QED BY <2>5 DEF r
  <1>3. CASE save[t].pc = "write" /\ save[t].in = "tmp" /\ save[t].name = name
    BY <1>2, <1>3 DEF Moved
  <1>4. CASE /\ ~(save[t].pc = "write" /\ save[t].in = "tmp" /\ save[t].name = name)
             /\ save[t].pc = "write" /\ save[t].in = "file" /\ to = "file"
    BY <1>2, <1>4 DEF Moved
  <1>5. CASE /\ ~(save[t].pc = "write" /\ save[t].in = "tmp" /\ save[t].name = name)
             /\ ~(save[t].pc = "write" /\ save[t].in = "file" /\ to = "file")
    BY <1>1, <1>5 DEF Moved
  <1>. QED BY <1>3, <1>4, <1>5

LEMMA OneSaveOf ==
    ASSUME SavesOf, NEW s \in Saves, NEW r, SaveOf(r), save' = [save EXCEPT ![s] = r]
    PROVE  SavesOf'
  BY DEF SavesOf

LEMMA ConfigsTyped ==
    Typed(widgets) /\ ConfigsOf /\ [Next]_vars => ConfigsOf'
  <1>. SUFFICES ASSUME Typed(widgets), OnDisk, SavesOf, LoadsOf, [Next]_vars
                PROVE  ConfigsOf'
    BY DEF ConfigsOf
  <1>0. ASSUME UNCHANGED <<file, tmp, save, load>>
        PROVE  ConfigsOf'
    BY <1>0, ConfigsKept DEF ConfigsOf
  <1>1. CASE Restart
    <2>1. /\ file' = file /\ tmp' = [n \in TmpNames |-> Missing]
          /\ save' = [s \in Saves |-> Idle] /\ load' = [l \in Loads |-> Idle]
      BY <1>1 DEF Restart
    <2>2. OnDisk'
      BY <2>1, NothingOf DEF OnDisk
    <2>3. SavesOf'
      BY <2>1, IdleSaveOf DEF SavesOf
    <2>4. LoadsOf'
      BY <2>1 DEF LoadsOf, Idle
    <2>. QED BY <2>2, <2>3, <2>4 DEF ConfigsOf
  <1>2. ASSUME NEW l \in Loads, LoadSubmitted(l) \/ ConfigLoaded(l) \/ ConfigError(l)
        PROVE  ConfigsOf'
    <2>1. UNCHANGED <<file, tmp, save>>
      BY <1>2 DEF LoadSubmitted, ConfigLoaded, ConfigError, disk
    <2>2. load' = [load EXCEPT ![l] = [pc |-> "read"]] \/ load' = [load EXCEPT ![l] = Idle]
      BY <1>2 DEF LoadSubmitted, ConfigLoaded, ConfigError
    <2>3. LoadsOf'
      BY <2>2 DEF LoadsOf, Idle
    <2>4. OnDisk' /\ SavesOf'
      BY <2>1 DEF OnDisk, SavesOf
    <2>. QED BY <2>3, <2>4 DEF ConfigsOf
  <1>3. ASSUME NEW l \in Loads, LoadRead(l)
        PROVE  ConfigsOf'
    <2>1. /\ UNCHANGED <<file, tmp, save>>
          /\ load' = [load EXCEPT ![l] = [pc |-> "done", config |-> file]]
      BY <1>3 DEF LoadRead, disk
    <2>2. LoadsOf'
      BY <2>1 DEF LoadsOf, OnDisk
    <2>3. OnDisk' /\ SavesOf'
      BY <2>1 DEF OnDisk, SavesOf
    <2>. QED BY <2>2, <2>3 DEF ConfigsOf
  <1>4. ASSUME NEW s \in Saves, SaveSubmitted(s)
        PROVE  ConfigsOf'
    <2>. DEFINE config == ToConfig(widgets)
                r == [pc |-> "name", config |-> config]
    <2>1. UNCHANGED <<file, tmp, load>> /\ save' = [save EXCEPT ![s] = r]
      BY <1>4 DEF SaveSubmitted
    <2>2. ConfigOf(config)
      BY SavedOf
    <2>. HIDE DEF config
    <2>3. SaveOf(r)
      BY <2>2 DEF SaveOf, SaveShape
    <2>. HIDE DEF r
    <2>4. SavesOf'
      BY <2>1, <2>3, OneSaveOf
    <2>. QED BY <2>1, <2>4 DEF ConfigsOf, OnDisk, LoadsOf
  <1>5. ASSUME NEW s \in Saves, SaveNames(s)
        PROVE  ConfigsOf'
    <2>1. UNCHANGED <<file, tmp, load>> /\ save[s].pc = "name"
      BY <1>5 DEF SaveNames, disk
    <2>2. PICK n \in TmpNames :
              save' = [save EXCEPT ![s] = [pc |-> "open", config |-> save[s].config,
                                           name |-> n, in |-> "tmp"]]
      BY <1>5 DEF SaveNames
    <2>. DEFINE r == [pc |-> "open", config |-> save[s].config, name |-> n, in |-> "tmp"]
    <2>3. SaveOf(r)
      BY <2>1 DEF SavesOf, SaveOf, SaveShape
    <2>. HIDE DEF r
    <2>4. SavesOf'
      BY <2>2, <2>3, OneSaveOf DEF r
    <2>. QED BY <2>1, <2>4 DEF ConfigsOf, OnDisk, LoadsOf
  <1>6. ASSUME NEW s \in Saves, SaveOpens(s) \/ SaveWrites(s)
        PROVE  ConfigsOf'
    <2>1. save[s].pc \in {"open", "write"} /\ load' = load
      BY <1>6 DEF SaveOpens, SaveWrites
    <2>2. PICK to \in {"write", "rename", "failed"} : SaveGoes(s, to)
      BY <1>6 DEF SaveOpens, SaveWrites, SaveFails
    <2>. DEFINE r == [save[s] EXCEPT !.pc = to]
    <2>3. SaveOf(r)
      BY <2>1, SaveGoesOn
    <2>4. save' = [save EXCEPT ![s] = r]
      BY <2>2 DEF SaveGoes, SavesOf
    <2>. HIDE DEF r
    <2>5. SavesOf'
      BY <2>3, <2>4, OneSaveOf
    <2>6. /\ file' \in {file, save[s].config}
          /\ \/ tmp' = tmp
             \/ tmp' = [tmp EXCEPT ![save[s].name] = Cut]
             \/ tmp' = [tmp EXCEPT ![save[s].name] = save[s].config]
      BY <1>6 DEF SaveOpens, SaveWrites, SaveFails
    <2>7. ConfigOf(save[s].config)
      BY <2>1 DEF SavesOf, SaveOf
    <2>8. OnDisk'
      BY <2>6, <2>7, NothingOf DEF OnDisk
    <2>. QED BY <2>1, <2>5, <2>8 DEF ConfigsOf, LoadsOf
  <1>7. ASSUME NEW s \in Saves, SaveRenames(s)
        PROVE  ConfigsOf'
    <2>. DEFINE name == save[s].name
    <2>1. /\ save[s].pc = "rename" /\ load' = load
          /\ tmp' = [tmp EXCEPT ![name] = Missing]
          /\ file' \in {file, tmp[name]}
      BY <1>7 DEF SaveRenames
    <2>2. name \in TmpNames
      BY <2>1 DEF SavesOf, SaveOf
    <2>3. PICK pc \in {"saved", "failed"} : \E to :
              save' = [t \in Saves |-> IF t = s THEN [save[s] EXCEPT !.pc = pc]
                                       ELSE Moved(t, name, to)]
      BY <1>7 DEF SaveRenames
    <2>4. PICK to :
              save' = [t \in Saves |-> IF t = s THEN [save[s] EXCEPT !.pc = pc]
                                       ELSE Moved(t, name, to)]
      BY <2>3
    <2>. HIDE DEF name
    <2>5. SaveOf([save[s] EXCEPT !.pc = pc]) /\ \A t \in Saves : SaveOf(Moved(t, name, to))
      BY <2>1, SaveGoesOn, MovedOf
    <2>6. SavesOf'
      BY <2>4, <2>5 DEF SavesOf
    <2>7. OnDisk'
      BY <2>1, <2>2, NothingOf DEF OnDisk
    <2>. QED BY <2>1, <2>6, <2>7 DEF ConfigsOf, LoadsOf
  <1>8. ASSUME NEW s \in Saves, SaveDone(s)
        PROVE  ConfigsOf'
    <2>1. UNCHANGED <<file, tmp, load>> /\ save' = [save EXCEPT ![s] = Idle]
      BY <1>8 DEF SaveDone, disk
    <2>2. SavesOf'
      BY <2>1, IdleSaveOf, OneSaveOf
    <2>. QED BY <2>1, <2>2 DEF ConfigsOf, OnDisk, LoadsOf
  <1>9. CASE \/ ConfigureRequested \/ Cancel \/ DialogDismissed
             \/ PathDialogOpened \/ PathDialogDismissed
             \/ PreemptPicked \/ CustomNameChanged \/ OtherCheckToggled
    BY <1>0, <1>9 DEF ConfigureRequested, Cancel, DialogDismissed, PathDialogOpened,
                      PathDialogDismissed, PreemptPicked, CustomNameChanged,
                      OtherCheckToggled, threads, disk
  <1>10. CASE VariantPicked \/ LtoPicked \/ NvidiaOpenToggled
    <2>1. \E w : SyncedAndProbed(w)
      BY <1>10 DEF VariantPicked, LtoPicked, NvidiaOpenToggled
    <2>. QED BY <1>0, <2>1 DEF SyncedAndProbed, disk
  <1>11. CASE PatchMoved \/ PatchRemoved \/ PatchAdded
    <2>1. (\E list : Edited(list)) \/ UNCHANGED <<threads, disk>>
      BY <1>11 DEF PatchMoved, PatchRemoved, PatchAdded
    <2>. QED BY <1>0, <2>1 DEF Edited, threads, disk
  <1>12. ASSUME NEW p \in Probes,
                GitRefresh(p) \/ ProbePatchEntries(p) \/ ProbeDone(p) \/ ProbePanics(p)
         PROVE  ConfigsOf'
    BY <1>0, <1>12 DEF GitRefresh, ProbePatchEntries, ProbeDone, ProbePanics, disk
  <1>13. ASSUME NEW b \in Builds, BuildRequested(b) \/ BuildMutates(b)
         PROVE  ConfigsOf'
    BY <1>0, <1>13 DEF BuildRequested, BuildMutates, disk
  <1>14. CASE UNCHANGED vars
    BY <1>0, <1>14 DEF vars, threads, disk
  <1>. QED BY <1>1, <1>2, <1>3, <1>4, <1>5, <1>6, <1>7, <1>8, <1>9, <1>10, <1>11, <1>12,
              <1>13, <1>14 DEF Next

LEMMA TypeInductive == IInv /\ TypeInv /\ [Next]_vars => TypeInv'
  BY WidgetsTyped, ConfigsTyped, NumbersTyped, WindowTyped DEF TypeInv, ConfigsOf

LEMMA TypeFollows == IInv /\ TypeInv => TypeOK
  <1>. SUFFICES ASSUME IInv, TypeInv PROVE TypeOK
    OBVIOUS
  <1>1. Values(widgets) /\ SwitchMatches(widgets.switch, widgets.variant)
    BY DEF IInv, Good
  <1>2. widgets.checks \subseteq Check \ {"cachy_config", "builtin_zfs"}
    BY <1>1 DEF Values, TypeInv, Typed
  <1>3. /\ Append(LtoBase, "thin-dist") = LtoFour
        /\ Append(Append(PreemptBase, "voluntary"), "none") = PreemptFour
    BY DEF LtoFour, PreemptFour, PreemptThree
  <1>4. widgets.switch.lto \in Lto
    <2>1. widgets.switch.ltoItems \in {LtoBase, LtoFour}
      BY <1>1, <1>3 DEF SwitchMatches
    <2>. QED BY <1>1, <2>1, LtoLists DEF SwitchMatches, Lto
  <1>5. widgets.switch.preempt \in Preempt
    <2>1. widgets.switch.preemptItems \in {PreemptBase, PreemptFour}
      BY <1>1, <1>3 DEF SwitchMatches
    <2>. QED BY <1>1, <2>1, PreemptLists DEF SwitchMatches, Preempt
  <1>6. widgets.switch.hz \in HzTick
    BY <1>1 DEF Values
  <1>7. epoch \in 0..MaxEpoch
    BY BoundsAssumption DEF TypeInv, NumbersOf, IInv, ProbesInv
  <1>8. \A p \in Probes : probe[p].pc # "idle" => probe[p].gen \in 1..epoch
    BY DEF TypeInv, NumbersOf, IInv, ProbesInv, ProbeInv
  <1>9. widgets.variant \in VariantsAll /\ WindowOf
    BY DEF TypeInv, Typed
  <1>. QED BY <1>2, <1>4, <1>5, <1>6, <1>7, <1>8, <1>9 DEF TypeOK, WindowOf

(* The controls show values there are and the boxes checked are boxes      *)
(* there are, after loads of any file as well, whose texts may be unknown; *)
(* and no probe under way is numbered later than the list.                 *)
THEOREM TypeCorrect == Spec => []TypeOK
  BY Initially, Inductive, TypeInitially, TypeInductive, TypeFollows, PTL DEF Spec
-------------------------------------------------------------------------------
(***************************************************************************)
(* The references of the courts on the options, options-oracle-ref and     *)
(* env-oracle-ref, are a second reading of the original's Configure        *)
(* window.  What is shown here comes from the inductive invariant: lists   *)
(* counted and values offered are what the references take them to be.     *)
(***************************************************************************)
Corpus == INSTANCE OptionsCorpus WITH SwitchLists <- {}, UiStates <- {}

(* The reference appends in one piece what the crate appends item by item. *)
LEMMA Joined ==
    /\ LtoBase \o <<"thin-dist">> = LtoFour
    /\ PreemptBase \o <<"voluntary", "none">> = PreemptFour
  <1>1. LtoBase \o <<"thin-dist">> = LtoFour
    BY DEF LtoFour, LtoBase
  <1>2. PreemptBase \o <<"voluntary", "none">> = PreemptFour
    BY DEF PreemptFour, PreemptThree, PreemptBase
  <1> QED
    BY <1>1, <1>2

(* Counted from the same lists, the two come to the same items.            *)
LEMMA ReferenceSwitches ==
    ASSUME NEW w, Good(w), NEW v \in VariantsAll
    PROVE  SwitchTo(w.switch, v) = Corpus!RefSwitchTo(w.switch, v)
  <1> DEFINE s == w.switch  ltos == s.ltoItems  preempts == s.preemptItems
             refLtos == IF v # "lts" /\ v # "hardened" /\ Len(ltos) = 3 THEN ltos \o <<"thin-dist">>
                        ELSE IF ~(v # "lts" /\ v # "hardened") /\ Len(ltos) = 4 THEN Corpus!Front(ltos) ELSE ltos
             refPreempts == IF (v = "hardened" \/ v = "lts") /\ Len(preempts) = 2
                            THEN preempts \o <<"voluntary", "none">>
                            ELSE IF ~(v = "hardened" \/ v = "lts") /\ Len(preempts) = 4
                                 THEN Corpus!Front(Corpus!Front(preempts)) ELSE preempts
             lto == IF v \in {"cachyos", "rc"} THEN "thin" ELSE "none"
             preempt == IF v = "server" THEN "lazy" ELSE "full"
             hz == IF v = "server" THEN "300" ELSE "1000"
             cachyConfig == v # "server"
             zfs == s.zfs /\ v # "rt"
             zfsEnabled == v # "rt"
  <1>1. /\ ltos \in {LtoBase, LtoFour} /\ preempts \in {PreemptBase, PreemptFour}
        /\ s.zfs \in BOOLEAN
        /\ s = [ltoItems |-> ltos, lto |-> s.lto, preemptItems |-> preempts,
                preempt |-> s.preempt, hz |-> s.hz, cachyConfig |-> s.cachyConfig,
                zfs |-> s.zfs, zfsEnabled |-> s.zfsEnabled]
    BY DEF Good, Values, SwitchMatches, WidgetsShape, SwitchShape, LtoFour, PreemptFour, PreemptThree
  <1>2. refLtos = LtoItems(ltos, v)
    <2>1. LtoItems(ltos, v) = IF v \notin {"lts", "hardened"} THEN LtoFour ELSE LtoBase
      BY <1>1, LtoCounted
    <2>2. Corpus!Front(ltos) = DropLast(ltos)
      BY DEF Corpus!Front, DropLast
    <2>3. CASE ltos = LtoBase
      <3> DEFINE longer == ltos \o <<"thin-dist">>
      <3> HIDE DEF longer
      <3>1. Len(ltos) = 3 /\ longer = LtoFour
        BY <2>3, Joined, LtoLists DEF longer
      <3>2. refLtos = IF v # "lts" /\ v # "hardened" THEN longer ELSE ltos
        BY <3>1 DEF longer
      <3> HIDE DEF ltos, refLtos
      <3> QED
        BY <2>1, <2>3, <3>1, <3>2
    <2>4. CASE ltos = LtoFour
      BY <2>1, <2>2, <2>4, LtoLists
    <2> QED
      BY <1>1, <2>3, <2>4
  <1>3. refPreempts = PreemptItems(preempts, v)
    <2>1. PreemptItems(preempts, v) = IF v \in {"lts", "hardened"} THEN PreemptFour ELSE PreemptBase
      BY <1>1, PreemptCounted
    <2>2. Corpus!Front(Corpus!Front(preempts)) = DropLast(DropLast(preempts))
      BY DEF Corpus!Front, DropLast
    <2>3. CASE preempts = PreemptBase
      <3> DEFINE longer == preempts \o <<"voluntary", "none">>
      <3> HIDE DEF longer
      <3>1. Len(preempts) = 2 /\ longer = PreemptFour
        BY <2>3, Joined, PreemptLists DEF longer
      <3>2. refPreempts = IF v = "hardened" \/ v = "lts" THEN longer ELSE preempts
        BY <3>1 DEF longer
      <3> HIDE DEF preempts, refPreempts
      <3> QED
        BY <2>1, <2>3, <3>1, <3>2
    <2>4. CASE preempts = PreemptFour
      BY <2>1, <2>2, <2>4, PreemptLists
    <2> QED
      BY <1>1, <2>3, <2>4
  <1> DEFINE refLto == IF v = "cachyos" \/ v = "rc" THEN "thin" ELSE "none"
             refZfs == IF v = "rt" THEN FALSE ELSE s.zfs
  <1>4. refLto = lto /\ refZfs = zfs
    BY <1>1
  <1>5. Corpus!RefSwitchTo(s, v)
        = [s EXCEPT !.ltoItems = refLtos, !.lto = refLto, !.preemptItems = refPreempts, !.preempt = preempt,
                    !.hz = hz, !.cachyConfig = cachyConfig, !.zfsEnabled = zfsEnabled, !.zfs = refZfs]
    BY Zenon DEF Corpus!RefSwitchTo
  <1>6. SwitchTo(s, v)
        = [ltoItems |-> LtoItems(ltos, v), lto |-> lto, preemptItems |-> PreemptItems(preempts, v),
           preempt |-> preempt, hz |-> hz, cachyConfig |-> cachyConfig, zfs |-> zfs, zfsEnabled |-> zfsEnabled]
    BY Zenon DEF SwitchTo
  <1> HIDE DEF refLtos, refPreempts, refLto, refZfs, lto, preempt, hz, cachyConfig, zfs, zfsEnabled, s
  <1> QED
    BY <1>1, <1>2, <1>3, <1>4, <1>5, <1>6 DEF s

(* Every value shown is on the list of its option, so that the reference   *)
(* refuses none, and the variables come in the same order.                 *)
LEMMA ReferenceEnvironment ==
    ASSUME NEW w, Good(w)
    PROVE  EnvPairs(OptionsOf(w)) = Corpus!RefEnv(OptionsOf(w))
  <1> DEFINE chosen == OptionsOf(w)
             boxes == [i \in DOMAIN Corpus!RefBoxes |->
                          Corpus!RefAssign(Corpus!RefBoxes[i],
                                           IF Corpus!RefBoxes[i] \in chosen.checked THEN "yes" ELSE "no")]
             ours == [i \in DOMAIN CheckboxBindings |->
                          <<CheckboxBindings[i][2], IF CheckboxBindings[i][1] \in chosen.checked THEN "yes" ELSE "no">>]
  <1>1. \A list \in DOMAIN Corpus!RefLists : chosen[list] \in Corpus!RefLists[list]
    <2>1. /\ chosen.hz \in HzTick /\ chosen.tickless \in Tickless /\ chosen.hugepage \in Hugepage /\ chosen.cpuOpt \in CpuOpt
      BY DEF Good, Values, OptionsOf
    <2>2. chosen.lto \in Lto /\ chosen.preempt \in Preempt
      BY LtoLists, PreemptLists DEF Good, OptionsOf, SwitchMatches, LtoFour, PreemptFour, PreemptThree, Lto, Preempt
    <2> HIDE DEF chosen
    <2> QED
      BY <2>1, <2>2 DEF Corpus!RefLists, HzTick, Tickless, Hugepage, CpuOpt, Lto, Preempt
  <1> HIDE DEF chosen
  <1>2. boxes = ours
    <2>1. DOMAIN Corpus!RefBoxes = 1..11 /\ DOMAIN CheckboxBindings = 1..11
      BY DEF Corpus!RefBoxes, CheckboxBindings
    <2>2. \A i \in 1..11 : /\ CheckboxBindings[i][1] = Corpus!RefBoxes[i]
                           /\ CheckboxBindings[i][2] = Corpus!RefOptionMap[Corpus!RefBoxes[i]]
      BY DEF Corpus!RefBoxes, CheckboxBindings, Corpus!RefOptionMap
    <2> QED
      BY <2>1, <2>2 DEF Corpus!RefAssign
  <1>3. /\ Corpus!RefAssign("HZ_ticks", chosen.hz) = <<"_HZ_ticks", chosen.hz>>
        /\ Corpus!RefAssign("tickrate", chosen.tickless) = <<"_tickrate", chosen.tickless>>
        /\ Corpus!RefAssign("preempt", chosen.preempt) = <<"_preempt", chosen.preempt>>
        /\ Corpus!RefAssign("hugepage", chosen.hugepage) = <<"_hugepage", chosen.hugepage>>
        /\ Corpus!RefAssign("lto", chosen.lto) = <<"_use_llvm_lto", chosen.lto>>
        /\ Corpus!RefAssign("cpu_opt", chosen.cpuOpt) = <<"_processor_opt", chosen.cpuOpt>>
    BY DEF Corpus!RefAssign, Corpus!RefOptionMap
  <1> HIDE DEF boxes
  <1>4. Corpus!RefEnv(chosen) = boxes
         \o <<Corpus!RefAssign("HZ_ticks", chosen.hz), Corpus!RefAssign("tickrate", chosen.tickless),
              Corpus!RefAssign("preempt", chosen.preempt), Corpus!RefAssign("hugepage", chosen.hugepage),
              Corpus!RefAssign("lto", chosen.lto)>>
         \o (IF chosen.cpuOpt # "manual" THEN <<Corpus!RefAssign("cpu_opt", chosen.cpuOpt)>> ELSE << >>)
         \o (IF chosen.lto # "none" /\ chosen.customName # "$pkgbase" THEN <<<<"_use_lto_suffix", "n">>>> ELSE << >>)
    BY <1>1, Zenon DEF Corpus!RefEnv, boxes
  <1>5. EnvPairs(chosen) = ours
         \o << <<"_HZ_ticks", chosen.hz>>, <<"_tickrate", chosen.tickless>>, <<"_preempt", chosen.preempt>>,
              <<"_hugepage", chosen.hugepage>>, <<"_use_llvm_lto", chosen.lto>> >>
         \o (IF chosen.cpuOpt # "manual" THEN <<<<"_processor_opt", chosen.cpuOpt>>>> ELSE << >>)
         \o (IF chosen.lto # "none" /\ chosen.customName # "$pkgbase" THEN <<<<"_use_lto_suffix", "n">>>> ELSE << >>)
    BY Zenon DEF EnvPairs, UseLtoSuffix, PkgbaseSentinel
  <1> HIDE DEF ours
  <1> QED
    BY <1>2, <1>3, <1>4, <1>5 DEF chosen

(* Whatever the user, a load or an earlier switch has made of the widgets, *)
(* switching to any variant leaves them as the reference tool of the       *)
(* options court says of the original, and a build begun with the options  *)
(* the window shows gets the assignments the reference of the environment  *)
(* court gives it: both agree beyond the rows their corpora contain.       *)
SameAsTheOriginal ==
    /\ \A v \in VariantsAll : SwitchTo(widgets.switch, v) = Corpus!RefSwitchTo(widgets.switch, v)
    /\ EnvPairs(options) = Corpus!RefEnv(options)
THEOREM TheReferencesAgree == Spec => []SameAsTheOriginal
  <1>1. IInv => SameAsTheOriginal
    BY ReferenceSwitches, ReferenceEnvironment DEF IInv, SameAsTheOriginal, OptionsFollowWidgets
  <1> QED
    BY <1>1, Invariance, PTL
===============================================================================
