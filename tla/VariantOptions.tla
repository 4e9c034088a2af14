----------------------------- MODULE VariantOptions -----------------------------
(***************************************************************************)
(* The option controls of the Configure window: what a switch of the       *)
(* kernel variant does to them, and what is read from them for a build and *)
(* for a saved configuration.                                              *)
(*                                                                         *)
(* Values are those the PKGBUILD gets; the eleven check boxes are the set  *)
(* of those that are checked.  A saved value may be any text.              *)
(***************************************************************************)
EXTENDS Naturals, Sequences

VariantsAll == {"cachyos", "bore", "rc", "rt", "lts", "eevdf", "bmq", "hardened",
                "deckify", "server"}
Lto == {"none", "full", "thin", "thin-dist"}
Preempt == {"full", "lazy", "voluntary", "none"}
HzTick == {"1000", "750", "600", "500", "300", "250", "100"}
Tickless == {"full", "idle", "periodic"}
Hugepage == {"always", "madvise"}
CpuOpt == {"manual", "native", "generic_v1", "generic_v2", "generic_v3",
           "generic_v4", "zen4"}

(* The check boxes, in the order of their build variables.                 *)
CheckboxBindings ==
    << <<"hardly", "_cc_harder">>, <<"per_gov", "_per_gov">>,
       <<"tcp_bbr3", "_tcp_bbr3">>, <<"cachy_config", "_cachy_config">>,
       <<"nconfig", "_makenconfig">>, <<"xconfig", "_makexconfig">>,
       <<"localmodcfg", "_localmodcfg">>, <<"use_current", "_use_current">>,
       <<"builtin_zfs", "_build_zfs">>,
       <<"builtin_nvidia_open", "_build_nvidia_open">>,
       <<"build_debug", "_build_debug">> >>
Check == {CheckboxBindings[i][1] : i \in DOMAIN CheckboxBindings}

PkgbaseSentinel == "$pkgbase"
DefaultCustomName == "$pkgbase-custom"
-------------------------------------------------------------------------------
(* What a variant offers and starts with.                                  *)
Transitions(variant) ==
    [thinDist |-> variant \notin {"lts", "hardened"},
     extendedPreempt |-> variant \in {"lts", "hardened"},
     lto |-> IF variant \in {"cachyos", "rc"} THEN "thin" ELSE "none",
     preempt |-> IF variant = "server" THEN "lazy" ELSE "full",
     hz |-> IF variant = "server" THEN "300" ELSE "1000",
     cachyConfig |-> variant # "server",
     zfsEnabled |-> variant # "rt"]

LtoBase == <<"none", "full", "thin">>
PreemptBase == <<"full", "lazy">>

(* The controls a switch acts on; the zfs box may be disabled.             *)
DefaultSwitch ==
    [ltoItems |-> Append(LtoBase, "thin-dist"), lto |-> "thin",
     preemptItems |-> PreemptBase, preempt |-> "full",
     hz |-> "1000", cachyConfig |-> TRUE, zfs |-> FALSE, zfsEnabled |-> TRUE]

DropLast(s) == SubSeq(s, 1, Len(s) - 1)

(* A plausible mistake in LtoItems; not part of the specification.         *)
LtoItemsNeverBack(items, variant) ==
    IF ~Transitions(variant).thinDist /\ Len(items) = 4 THEN DropLast(items) ELSE items

(* Items are added and removed by how many there are.                      *)
LtoItems(items, variant) ==
    LET thinDist == variant \notin {"lts", "hardened"}
    IN  CASE thinDist /\ Len(items) = 3 -> Append(items, "thin-dist")
          [] ~thinDist /\ Len(items) = 4 -> DropLast(items)
          [] OTHER -> items
PreemptItems(items, variant) ==
    LET extended == variant \in {"hardened", "lts"}
    IN  CASE extended /\ Len(items) = 2 -> Append(Append(items, "voluntary"), "none")
          [] ~extended /\ Len(items) = 4 -> DropLast(DropLast(items))
          [] OTHER -> items

(* The switch of the variant: rt takes the zfs box away, nothing gives it  *)
(* its mark back.                                                          *)
SwitchTo(s, variant) ==
    [ltoItems |-> LtoItems(s.ltoItems, variant),
     lto |-> IF variant \in {"cachyos", "rc"} THEN "thin" ELSE "none",
     preemptItems |-> PreemptItems(s.preemptItems, variant),
     preempt |-> IF variant = "server" THEN "lazy" ELSE "full",
     hz |-> IF variant = "server" THEN "300" ELSE "1000",
     cachyConfig |-> variant # "server",
     zfs |-> s.zfs /\ variant # "rt",
     zfsEnabled |-> variant # "rt"]
-------------------------------------------------------------------------------
(* All widgets of the window but the list of patches.                      *)
DefaultWidgets ==
    [variant |-> "cachyos", switch |-> DefaultSwitch, checks |-> {"hardly"},
     tickless |-> "full", hugepage |-> "always", cpuOpt |-> "manual",
     customName |-> DefaultCustomName]

OnVariantChanged(w, variant) ==
    [w EXCEPT !.variant = variant, !.switch = SwitchTo(@, variant)]

(* Two of the boxes belong to the controls a switch acts on.               *)
Checked(w) ==
    w.checks \cup (IF w.switch.cachyConfig THEN {"cachy_config"} ELSE {})
             \cup (IF w.switch.zfs THEN {"builtin_zfs"} ELSE {})

CheckToggled(w, check) ==
    CASE check = "cachy_config" -> [w EXCEPT !.switch.cachyConfig = ~@]
      [] check = "builtin_zfs" -> [w EXCEPT !.switch.zfs = ~@]
      [] OTHER -> [w EXCEPT !.checks = IF check \in @ THEN @ \ {check} ELSE @ \cup {check}]

(* The options of a build.                                                 *)
OptionsOf(w) ==
    [variant |-> w.variant, checked |-> Checked(w), hz |-> w.switch.hz,
     tickless |-> w.tickless, preempt |-> w.switch.preempt, hugepage |-> w.hugepage,
     lto |-> w.switch.lto, cpuOpt |-> w.cpuOpt, customName |-> w.customName]

DefaultOptions ==
    LET t == Transitions("cachyos")
    IN  [variant |-> "cachyos",
         checked |-> {"hardly"} \cup (IF t.cachyConfig THEN {"cachy_config"} ELSE {}),
         hz |-> t.hz, tickless |-> "full", preempt |-> t.preempt, hugepage |-> "always",
         lto |-> t.lto, cpuOpt |-> "manual", customName |-> DefaultCustomName]

(* A saved configuration has everything but the variant.                   *)
ToConfig(w) ==
    [checked |-> Checked(w), hz |-> w.switch.hz, tickless |-> w.tickless,
     preempt |-> w.switch.preempt, hugepage |-> w.hugepage, lto |-> w.switch.lto,
     cpuOpt |-> w.cpuOpt, customName |-> w.customName]

(* Loading: a value that is not offered leaves its control as it is.       *)
Offered(items) == {items[i] : i \in DOMAIN items}
Known(w, config) ==
    [tickless |-> config.tickless \in Tickless, hugepage |-> config.hugepage \in Hugepage,
     cpuOpt |-> config.cpuOpt \in CpuOpt, hz |-> config.hz \in HzTick,
     lto |-> config.lto \in Offered(w.switch.ltoItems),
     preempt |-> config.preempt \in Offered(w.switch.preemptItems)]
Outdated(w, config) == \E c \in DOMAIN Known(w, config) : ~Known(w, config)[c]

(* A plausible mistake in LoadConfig; not part of the specification.       *)
LoadConfigUnchecked(w, config) ==
    [w EXCEPT !.checks = config.checked \ {"cachy_config", "builtin_zfs"},
              !.customName = config.customName,
              !.switch.lto = config.lto, !.switch.preempt = config.preempt,
              !.switch.hz = config.hz]

LoadConfig(w, config) ==
    LET known == Known(w, config) IN
    [w EXCEPT
        !.checks = config.checked \ {"cachy_config", "builtin_zfs"},
        !.customName = config.customName,
        !.tickless = IF known.tickless THEN config.tickless ELSE @,
        !.hugepage = IF known.hugepage THEN config.hugepage ELSE @,
        !.cpuOpt = IF known.cpuOpt THEN config.cpuOpt ELSE @,
        !.switch.lto = IF known.lto THEN config.lto ELSE @,
        !.switch.preempt = IF known.preempt THEN config.preempt ELSE @,
        !.switch.hz = IF known.hz THEN config.hz ELSE @,
        !.switch.cachyConfig = "cachy_config" \in config.checked,
        !.switch.zfs = "builtin_zfs" \in config.checked]
-------------------------------------------------------------------------------
(* The environment of a build, as variables and their values in order.     *)
UseLtoSuffix(lto, customName) == lto # "none" /\ customName # PkgbaseSentinel
EnvPairs(o) ==
    [i \in DOMAIN CheckboxBindings |->
        <<CheckboxBindings[i][2],
          IF CheckboxBindings[i][1] \in o.checked THEN "yes" ELSE "no">>]
    \o << <<"_HZ_ticks", o.hz>>, <<"_tickrate", o.tickless>>, <<"_preempt", o.preempt>>,
          <<"_hugepage", o.hugepage>>, <<"_use_llvm_lto", o.lto>> >>
    \o (IF o.cpuOpt # "manual" THEN << <<"_processor_opt", o.cpuOpt>> >> ELSE << >>)
    \o (IF UseLtoSuffix(o.lto, o.customName)
        THEN << <<"_use_lto_suffix", "n">> >> ELSE << >>)
-------------------------------------------------------------------------------
(* The lists hold what the variant offers, and what is selected is one of  *)
(* the items; a disabled zfs box is the realtime kernel's.                 *)
SwitchMatches(s, variant) ==
    /\ s.ltoItems = IF Transitions(variant).thinDist
                    THEN Append(LtoBase, "thin-dist") ELSE LtoBase
    /\ s.preemptItems = IF Transitions(variant).extendedPreempt
                        THEN Append(Append(PreemptBase, "voluntary"), "none")
                        ELSE PreemptBase
    /\ s.lto \in Offered(s.ltoItems)
    /\ s.preempt \in Offered(s.preemptItems)
    /\ s.zfsEnabled = Transitions(variant).zfsEnabled
===============================================================================
