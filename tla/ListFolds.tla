------------------------------- MODULE ListFolds -------------------------------
(***************************************************************************)
(* What the community modules' operators on lists compute, element by      *)
(* element: the fold of an operation over a list, what a test keeps of a   *)
(* list, and a list of lists laid end to end.  An instance of this module  *)
(* gives these facts for an operation and a test of its own.               *)
(***************************************************************************)
EXTENDS Folds, Integers, Sequences, WellFoundedInduction

CONSTANT Op(_, _)       \* an operation, on what it has made so far and the next element

(* Induction on the natural numbers, from the least number not in a set.   *)
LEMMA NatIsWellFounded == IsWellFoundedOn(OpToRel(<, Nat), Nat)
  BY NatLessThanWellFounded

LEMMA NatSetInduction ==
    ASSUME NEW S, 0 \in S, \A n \in Nat : n \in S => n + 1 \in S
    PROVE  Nat \subseteq S
  <1> DEFINE T == Nat \ S
  <1> SUFFICES ASSUME T # {} PROVE FALSE
    OBVIOUS
  <1>1. PICK x \in T : \A y \in T : ~(<<y, x>> \in OpToRel(<, Nat))
    <2> HIDE DEF T
    <2>1. T \subseteq Nat
      BY DEF T
    <2> QED BY ONLY NatIsWellFounded, <2>1, T # {}, WFMin
  <1>2. x \in Nat /\ x # 0
    OBVIOUS
  <1>3. x - 1 \in Nat /\ x - 1 < x
    BY <1>2
  <1>4. <<x - 1, x>> \in OpToRel(<, Nat)
    BY <1>2, <1>3 DEF OpToRel
  <1>5. x - 1 \in S
    BY <1>1, <1>3, <1>4
  <1> QED BY <1>2, <1>3, <1>5

(* What is known of any list, and of lists put together.                   *)
LEMMA LenProperties ==
    ASSUME NEW S, NEW seq \in Seq(S)
    PROVE  Len(seq) \in Nat /\ seq \in [1..Len(seq) -> S] /\ DOMAIN seq = 1..Len(seq)
  OBVIOUS

LEMMA AppendProperties ==
    ASSUME NEW S, NEW seq \in Seq(S), NEW e \in S
    PROVE  /\ Append(seq, e) \in Seq(S) /\ Append(seq, e) # << >>
           /\ Len(Append(seq, e)) = Len(seq) + 1
           /\ Append(seq, e)[Len(seq) + 1] = e
           /\ \A i \in 1..Len(seq) : Append(seq, e)[i] = seq[i]
  OBVIOUS

LEMMA SeqEqual ==
    ASSUME NEW S, NEW s \in Seq(S), NEW t \in Seq(S), Len(s) = Len(t), \A i \in 1..Len(s) : s[i] = t[i]
    PROVE  s = t
  OBVIOUS

LEMMA EmptySeq ==
    ASSUME NEW S
    PROVE  /\ << >> \in Seq(S) /\ Len(<< >>) = 0
           /\ \A seq \in Seq(S) : seq # << >> => Len(seq) \in Nat \ {0}
  OBVIOUS

LEMMA ConcatProperties ==
    ASSUME NEW S, NEW s \in Seq(S), NEW t \in Seq(S)
    PROVE  /\ s \o t \in Seq(S) /\ Len(s \o t) = Len(s) + Len(t)
           /\ \A i \in 1..(Len(s) + Len(t)) : (s \o t)[i] = IF i <= Len(s) THEN s[i] ELSE t[i - Len(s)]
  OBVIOUS

LEMMA ConcatEmptySeq ==
    ASSUME NEW S, NEW seq \in Seq(S)
    PROVE  seq \o << >> = seq /\ << >> \o seq = seq
  OBVIOUS

LEMMA IsList ==
    ASSUME NEW S, NEW n \in Nat, NEW f \in [1..n -> S]
    PROVE  f \in Seq(S) /\ Len(f) = n
  OBVIOUS

(* Short lists, element by element.                                        *)
LEMMA TupleTwo ==
    ASSUME NEW S, NEW a \in S, NEW b \in S PROVE Append(<<a>>, b) = <<a, b>>
  <1>1. PICK s : s = Append(<<a>>, b)
    OBVIOUS
  <1>2. <<a>> \in Seq(S) /\ Len(<<a>>) = 1 /\ <<a>>[1] = a
    OBVIOUS
  <1>3. s \in Seq(S) /\ Len(s) = 2 /\ s[1] = a /\ s[2] = b
    BY <1>1, <1>2, AppendProperties
  <1>4. PICK t : t = <<a, b>>
    OBVIOUS
  <1>5. t \in Seq(S) /\ Len(t) = 2 /\ t[1] = a /\ t[2] = b
    BY <1>4
  <1>6. \A i \in 1..Len(s) : s[i] = t[i]
    BY <1>3, <1>5
  <1>7. s = t
    BY <1>3, <1>5, <1>6, SeqEqual
  <1> QED BY <1>1, <1>4, <1>7

LEMMA TupleThree ==
    ASSUME NEW S, NEW a \in S, NEW b \in S, NEW c \in S PROVE Append(<<a, b>>, c) = <<a, b, c>>
  <1>1. PICK s : s = Append(<<a, b>>, c)
    OBVIOUS
  <1>2. <<a, b>> \in Seq(S) /\ Len(<<a, b>>) = 2 /\ <<a, b>>[1] = a /\ <<a, b>>[2] = b
    OBVIOUS
  <1>3. s \in Seq(S) /\ Len(s) = 3 /\ s[1] = a /\ s[2] = b /\ s[3] = c
    BY <1>1, <1>2, AppendProperties
  <1>4. PICK t : t = <<a, b, c>>
    OBVIOUS
  <1>5. t \in Seq(S) /\ Len(t) = 3 /\ t[1] = a /\ t[2] = b /\ t[3] = c
    BY <1>4
  <1>6. \A i \in 1..Len(s) : s[i] = t[i]
    BY <1>3, <1>5
  <1>7. s = t
    BY <1>3, <1>5, <1>6, SeqEqual
  <1> QED BY <1>1, <1>4, <1>7

LEMMA TupleFour ==
    ASSUME NEW S, NEW a \in S, NEW b \in S, NEW c \in S, NEW d \in S
    PROVE Append(<<a, b, c>>, d) = <<a, b, c, d>>
  <1>1. PICK s : s = Append(<<a, b, c>>, d)
    OBVIOUS
  <1>2. /\ <<a, b, c>> \in Seq(S) /\ Len(<<a, b, c>>) = 3
        /\ <<a, b, c>>[1] = a /\ <<a, b, c>>[2] = b /\ <<a, b, c>>[3] = c
    OBVIOUS
  <1>3. s \in Seq(S) /\ Len(s) = 4 /\ s[1] = a /\ s[2] = b /\ s[3] = c /\ s[4] = d
    BY <1>1, <1>2, AppendProperties
  <1>4. PICK t : t = <<a, b, c, d>>
    OBVIOUS
  <1>5. t \in Seq(S) /\ Len(t) = 4 /\ t[1] = a /\ t[2] = b /\ t[3] = c /\ t[4] = d
    BY <1>4
  <1>6. \A i \in 1..Len(s) : s[i] = t[i]
    BY <1>3, <1>5
  <1>7. s = t
    BY <1>3, <1>5, <1>6, SeqEqual
  <1> QED BY <1>1, <1>4, <1>7

-----------------------------------------------------------------------------
(* The fold, as FoldLeft of SequencesExt defines it: that module itself    *)
(* would be in every instance of this one.                                 *)
Greatest(S) == CHOOSE x \in S : \A y \in S : x >= y
Folded(base, seq) ==
    MapThenFoldSet(LAMBDA x, y : Op(y, x), base, LAMBDA i : seq[i], LAMBDA S : Greatest(S), DOMAIN seq)

(* The function that MapThenFoldSet chooses, on the sets of indices up to n,  *)
(* taken from the greatest down.                                           *)
Step(base, seq, h, s) == IF s = {} THEN base ELSE Op(h[s \ {Greatest(s)}], seq[Greatest(s)])
IsIter(base, seq, h, n) == h = [s \in SUBSET (1..n) |-> Step(base, seq, h, s)]

(* The greatest of a set of indices that has the last one.                 *)
LEMMA MaxOfInterval ==
    ASSUME NEW n \in Nat, NEW s, s \subseteq 1..(n + 1), n + 1 \in s
    PROVE  Greatest(s) = n + 1
  <1>1. \A y \in s : n + 1 >= y
    OBVIOUS
  <1>2. \A x \in s : (\A y \in s : x >= y) => x = n + 1
    OBVIOUS
  <1> QED
    BY <1>1, <1>2 DEF Greatest

(* There is such a function on the indices of every list.                  *)
LEMMA IterExists ==
    ASSUME NEW base, NEW seq
    PROVE  \A n \in Nat : \E h : IsIter(base, seq, h, n)
  <1> DEFINE Has == {n \in Nat : \E h : IsIter(base, seq, h, n)}
  <1>1. 0 \in Has
    <2> DEFINE h == [s \in SUBSET (1..0) |-> base]
    <2>1. \A s \in SUBSET (1..0) : s = {}
      OBVIOUS
    <2>2. h = [s \in SUBSET (1..0) |-> Step(base, seq, h, s)]
      BY <2>1 DEF Step
    <2> QED
      BY <2>2 DEF IsIter
  <1>2. ASSUME NEW n \in Nat, n \in Has
        PROVE  n + 1 \in Has
    <2>1. PICK g : IsIter(base, seq, g, n)
      BY <1>2
    <2> DEFINE h == [s \in SUBSET (1..(n + 1)) |->
                        IF s \in SUBSET (1..n) THEN g[s] ELSE Op(g[s \ {n + 1}], seq[n + 1])]
    <2>2. \A s \in SUBSET (1..(n + 1)) :
             h[s] = IF s \in SUBSET (1..n) THEN g[s] ELSE Op(g[s \ {n + 1}], seq[n + 1])
      OBVIOUS
    <2>3. h = [s \in SUBSET (1..(n + 1)) |-> h[s]]
      OBVIOUS
    <2> HIDE DEF h
    <2>4. \A s \in SUBSET (1..n) : s \in SUBSET (1..(n + 1))
      OBVIOUS
    <2>5. ASSUME NEW s \in SUBSET (1..(n + 1))
          PROVE  h[s] = Step(base, seq, h, s)
      <3>1. CASE s \in SUBSET (1..n)
        <4>1. h[s] = Step(base, seq, g, s)
          BY <2>1, <2>2, <3>1 DEF IsIter
        <4>2. h[s \ {Greatest(s)}] = g[s \ {Greatest(s)}]
          <5>1. s \ {Greatest(s)} \in SUBSET (1..n)
            BY <3>1
          <5> QED BY <5>1, <2>2, <2>4
        <4> QED BY <4>1, <4>2 DEF Step
      <3>2. CASE s \notin SUBSET (1..n)
        <4>1. n + 1 \in s /\ s # {}
          BY <3>2
        <4>2. Greatest(s) = n + 1
          BY <4>1, MaxOfInterval
        <4>3. s \ {n + 1} \in SUBSET (1..n)
          OBVIOUS
        <4>4. h[s \ {n + 1}] = g[s \ {n + 1}]
          BY <4>3, <2>2, <2>4
        <4>5. h[s] = Op(g[s \ {n + 1}], seq[n + 1])
          BY <2>2, <3>2
        <4> QED BY <4>1, <4>2, <4>4, <4>5 DEF Step
      <3> QED BY <3>1, <3>2
    <2>6. IsIter(base, seq, h, n + 1)
      BY <2>3, <2>5 DEF IsIter
    <2> QED
      BY <2>6
  <1> HIDE DEF Has
  <1>3. Nat \subseteq Has
    BY <1>1, <1>2, NatSetInduction
  <1> QED
    BY <1>3 DEF Has

(* Such a function on the first k + 1 indices, from what it is on the      *)
(* first k.                                                                *)
LEMMA IterStep ==
    ASSUME NEW base, NEW seq, NEW n \in Nat, NEW h, IsIter(base, seq, h, n)
    PROVE  /\ h[{}] = base
           /\ \A k \in Nat : k < n => h[1..(k + 1)] = Op(h[1..k], seq[k + 1])
  <1>1. \A s \in SUBSET (1..n) : h[s] = Step(base, seq, h, s)
    BY DEF IsIter
  <1>2. h[{}] = base
    BY <1>1 DEF Step
  <1>3. ASSUME NEW k \in Nat, k < n
        PROVE  h[1..(k + 1)] = Op(h[1..k], seq[k + 1])
    <2>1. 1..(k + 1) \in SUBSET (1..n) /\ k + 1 \in 1..(k + 1)
      BY <1>3
    <2>2. Greatest(1..(k + 1)) = k + 1
      BY <2>1, MaxOfInterval
    <2>3. (1..(k + 1)) \ {k + 1} = 1..k
      OBVIOUS
    <2>4. 1..(k + 1) # {}
      BY <2>1
    <2>5. h[1..(k + 1)] = Step(base, seq, h, 1..(k + 1))
      BY <1>1, <2>1
    <2> QED
      BY <2>2, <2>3, <2>4, <2>5 DEF Step
  <1> QED
    BY <1>2, <1>3

(* The fold is the value of such a function on all the indices.            *)
LEMMA FoldIsIter ==
    ASSUME NEW base, NEW S, NEW seq \in Seq(S)
    PROVE  \E h : IsIter(base, seq, h, Len(seq)) /\ Folded(base, seq) = h[1..Len(seq)]
  <1>1. DOMAIN seq = 1..Len(seq) /\ Len(seq) \in Nat
    BY LenProperties
  <1> DEFINE Chosen(g) == g = [s \in SUBSET (DOMAIN seq) |->
                                  IF s = {} THEN base ELSE Op(g[s \ {Greatest(s)}], seq[Greatest(s)])]
             h == CHOOSE g : Chosen(g)
  <1>2. Folded(base, seq) = h[DOMAIN seq]
    BY DEF Folded, MapThenFoldSet
  <1>3. \A g : Chosen(g) <=> IsIter(base, seq, g, Len(seq))
    BY <1>1 DEF IsIter, Step
  <1> HIDE DEF Chosen
  <1>4. \E g : Chosen(g)
    BY <1>1, <1>3, IterExists
  <1>5. Chosen(h)
    BY <1>4
  <1> HIDE DEF h
  <1> QED
    BY <1>1, <1>2, <1>3, <1>5

(* The fold over no element and over one element more: what every use of   *)
(* FoldLeft in the normalisation (normalize.rs) is followed by.            *)
THEOREM FoldEmpty == ASSUME NEW base PROVE Folded(base, << >>) = base
  <1>1. PICK none \in Seq({}) : none = << >>
    BY EmptySeq
  <1>2. PICK n \in Nat : n = 0
    OBVIOUS
  <1>3. PICK h : IsIter(base, none, h, n) /\ Folded(base, none) = h[1..n]
    <2>1. Len(none) = n
      BY <1>1, <1>2
    <2> QED BY <2>1, FoldIsIter
  <1>4. h[{}] = base
    BY <1>2, <1>3, IterStep
  <1>5. 1..n = {}
    BY <1>2
  <1> QED
    BY <1>1, <1>3, <1>4, <1>5

(* One more element at the end is one more operation.                      *)
THEOREM FoldAppend ==
    ASSUME NEW base, NEW S, NEW seq \in Seq(S), NEW e \in S
    PROVE  Folded(base, Append(seq, e)) = Op(Folded(base, seq), e)
  <1>1. PICK n \in Nat : n = Len(seq)
    BY LenProperties
  <1>2. PICK all \in Seq(S) : all = Append(seq, e)
    BY AppendProperties
  <1>3. PICK m \in Nat : m = n + 1
    OBVIOUS
  <1>4. Len(all) = m /\ all[m] = e /\ \A i \in 1..n : all[i] = seq[i]
    BY <1>1, <1>2, <1>3, AppendProperties
  <1>5. PICK g : IsIter(base, seq, g, n) /\ Folded(base, seq) = g[1..n]
    BY <1>1, FoldIsIter
  <1>6. PICK h : IsIter(base, all, h, m) /\ Folded(base, all) = h[1..m]
    BY <1>4, FoldIsIter
  <1>7. g[{}] = base /\ \A k \in Nat : k < n => g[1..(k + 1)] = Op(g[1..k], seq[k + 1])
    BY <1>5, IterStep
  <1>8. h[{}] = base /\ \A k \in Nat : k < m => h[1..(k + 1)] = Op(h[1..k], all[k + 1])
    BY <1>6, IterStep
  <1> DEFINE Same == {k \in Nat : k <= n => h[1..k] = g[1..k]}
  <1>9. 0 \in Same
    <2>1. 1..0 = {}
      OBVIOUS
    <2> QED BY <1>7, <1>8, <2>1
  <1>10. ASSUME NEW k \in Nat, k \in Same
         PROVE  k + 1 \in Same
    <2> SUFFICES ASSUME k + 1 <= n PROVE h[1..(k + 1)] = g[1..(k + 1)]
      OBVIOUS
    <2>1. k < n /\ k < m /\ k + 1 \in 1..n
      BY <1>3
    <2>2. g[1..(k + 1)] = Op(g[1..k], seq[k + 1])
      BY <1>7, <2>1
    <2>3. h[1..(k + 1)] = Op(h[1..k], all[k + 1])
      BY <1>8, <2>1
    <2>4. h[1..k] = g[1..k]
      BY <1>10, <2>1
    <2> QED
      BY <1>4, <2>1, <2>2, <2>3, <2>4
  <1> HIDE DEF Same
  <1>11. n \in Same
    BY <1>9, <1>10, NatSetInduction
  <1>12. h[1..n] = g[1..n]
    BY <1>11 DEF Same
  <1>13. h[1..m] = Op(h[1..n], all[m])
    BY <1>3, <1>8
  <1> QED
    BY <1>2, <1>4, <1>5, <1>6, <1>12, <1>13

(* Lists by their last elements.                                           *)
LEMMA ListInduction ==
    ASSUME NEW S, NEW G, << >> \in G,
           \A s \in Seq(S), e \in S : s \in G => Append(s, e) \in G
    PROVE  Seq(S) \subseteq G
  <1> SUFFICES ASSUME NEW list \in Seq(S) PROVE list \in G
    OBVIOUS
  <1>1. PICK n \in Nat : n = Len(list)
    BY LenProperties
  <1> DEFINE Prefix(k) == [i \in 1..k |-> list[i]]
             Good == {k \in Nat : k <= n => Prefix(k) \in G /\ Prefix(k) \in Seq(S)}
  <1>2. 0 \in Good
    <2>1. Prefix(0) = << >>
      OBVIOUS
    <2> QED BY <2>1
  <1>3. ASSUME NEW k \in Nat, k \in Good
        PROVE  k + 1 \in Good
    <2> SUFFICES ASSUME k + 1 <= n PROVE Prefix(k + 1) \in G /\ Prefix(k + 1) \in Seq(S)
      OBVIOUS
    <2>1. Prefix(k) \in G /\ Prefix(k) \in Seq(S) /\ Len(Prefix(k)) = k
      BY <1>3
    <2>2. list[k + 1] \in S
      BY <1>1
    <2>3. Prefix(k + 1) = Append(Prefix(k), list[k + 1])
      BY <2>1
    <2>4. Append(Prefix(k), list[k + 1]) \in G
      <3> HIDE DEF Prefix
      <3> QED BY <2>1, <2>2
    <2>5. Append(Prefix(k), list[k + 1]) \in Seq(S)
      <3> HIDE DEF Prefix
      <3> QED BY <2>1, <2>2, AppendProperties
    <2> HIDE DEF Prefix
    <2> QED BY <2>3, <2>4, <2>5
  <1> HIDE DEF Good
  <1>4. n \in Good
    BY <1>2, <1>3, NatSetInduction
  <1>5. Prefix(n) = list
    BY <1>1
  <1> QED
    BY <1>4, <1>5 DEF Good

(* An operation that changes nothing any more.                             *)
THEOREM FoldFixed ==
    ASSUME NEW base, NEW S, \A e \in S : Op(base, e) = base
    PROVE  \A list \in Seq(S) : Folded(base, list) = base
  <1> DEFINE G == {list \in Seq(S) : Folded(base, list) = base}
  <1>1. << >> \in G
    BY FoldEmpty
  <1>2. ASSUME NEW s \in Seq(S), NEW e \in S, s \in G
        PROVE  Append(s, e) \in G
    <2>1. Folded(base, s) = base
      BY <1>2
    <2>2. Folded(base, Append(s, e)) = Op(Folded(base, s), e)
      BY FoldAppend
    <2>3. Folded(base, Append(s, e)) = base
      BY <2>1, <2>2
    <2> QED BY <2>3, AppendProperties
  <1> HIDE DEF G
  <1>3. Seq(S) \subseteq G
    BY <1>1, <1>2, ListInduction
  <1> QED
    BY <1>3 DEF G

(* A list after a list.                                                    *)
THEOREM FoldConcat ==
    ASSUME NEW base, NEW S, NEW s \in Seq(S)
    PROVE  \A t \in Seq(S) : Folded(base, s \o t) = Folded(Folded(base, s), t)
  <1> DEFINE G == {t \in Seq(S) : Folded(base, s \o t) = Folded(Folded(base, s), t)}
  <1>1. << >> \in G
    <2>1. s \o << >> = s /\ << >> \in Seq(S)
      OBVIOUS
    <2> QED BY <2>1, FoldEmpty
  <1>2. ASSUME NEW t \in Seq(S), NEW e \in S, t \in G
        PROVE  Append(t, e) \in G
    <2>0. s \o t \in Seq(S)
      BY ConcatProperties
    <2>1. PICK both \in Seq(S) : both = s \o t
      BY <2>0
    <2>2. s \o Append(t, e) = Append(both, e)
      BY <2>1
    <2>3. Folded(base, both) = Folded(Folded(base, s), t)
      BY <1>2, <2>1
    <2> HIDE DEF G
    <2>4. Folded(base, Append(both, e)) = Op(Folded(base, both), e)
      BY FoldAppend
    <2>5. Folded(Folded(base, s), Append(t, e)) = Op(Folded(Folded(base, s), t), e)
      BY FoldAppend
    <2>6. Folded(base, s \o Append(t, e)) = Folded(Folded(base, s), Append(t, e))
      BY <2>2, <2>3, <2>4, <2>5
    <2>7. Append(t, e) \in Seq(S)
      BY AppendProperties
    <2> QED BY <2>6, <2>7 DEF G
  <1> HIDE DEF G
  <1>3. Seq(S) \subseteq G
    BY <1>1, <1>2, ListInduction
  <1> QED
    BY <1>3 DEF G

(* The fold over one element.                                              *)
THEOREM FoldOne == ASSUME NEW base, NEW a PROVE Folded(base, <<a>>) = Op(base, a)
  <1>1. PICK S : a \in S
    BY a \in {a}
  <1>2. << >> \in Seq(S) /\ Append(<< >>, a) = <<a>>
    OBVIOUS
  <1>3. Folded(base, Append(<< >>, a)) = Op(Folded(base, << >>), a)
    BY <1>1, <1>2, FoldAppend
  <1> QED
    BY <1>2, <1>3, FoldEmpty

(* The fold over two elements.                                             *)
THEOREM FoldTwo ==
    ASSUME NEW base, NEW a, NEW b
    PROVE  Folded(base, <<a, b>>) = Op(Op(base, a), b)
  <1>1. PICK S : a \in S /\ b \in S
    BY a \in {a, b}, b \in {a, b}
  <1>2. <<a>> \in Seq(S)
    BY <1>1
  <1>3. Folded(base, Append(<<a>>, b)) = Op(Folded(base, <<a>>), b)
    BY <1>1, <1>2, FoldAppend
  <1> QED
    BY <1>1, <1>3, FoldOne, TupleTwo

(* The fold over three elements.                                           *)
THEOREM FoldThree ==
    ASSUME NEW base, NEW a, NEW b, NEW c
    PROVE  Folded(base, <<a, b, c>>) = Op(Op(Op(base, a), b), c)
  <1>1. PICK S : a \in S /\ b \in S /\ c \in S
    BY a \in {a, b, c}, b \in {a, b, c}, c \in {a, b, c}
  <1>2. <<a, b>> \in Seq(S)
    BY <1>1
  <1>3. Folded(base, Append(<<a, b>>, c)) = Op(Folded(base, <<a, b>>), c)
    BY <1>1, <1>2, FoldAppend
  <1>4. Folded(base, <<a, b>>) = Op(Op(base, a), b)
    BY FoldTwo
  <1>5. Append(<<a, b>>, c) = <<a, b, c>>
    BY <1>1, TupleThree
  <1> QED
    BY <1>3, <1>4, <1>5

(* The fold over four elements.                                            *)
THEOREM FoldFour ==
    ASSUME NEW base, NEW a, NEW b, NEW c, NEW d
    PROVE  Folded(base, <<a, b, c, d>>) = Op(Op(Op(Op(base, a), b), c), d)
  <1>1. PICK S : a \in S /\ b \in S /\ c \in S /\ d \in S
    BY a \in {a, b, c, d}, b \in {a, b, c, d}, c \in {a, b, c, d}, d \in {a, b, c, d}
  <1>2. <<a, b, c>> \in Seq(S)
    BY <1>1
  <1>3. Folded(base, Append(<<a, b, c>>, d)) = Op(Folded(base, <<a, b, c>>), d)
    BY <1>1, <1>2, FoldAppend
  <1>4. Folded(base, <<a, b, c>>) = Op(Op(Op(base, a), b), c)
    BY FoldThree
  <1>5. Append(<<a, b, c>>, d) = <<a, b, c, d>>
    BY <1>1, TupleFour
  <1> QED
    BY <1>3, <1>4, <1>5

(* An operation that puts every element at the end.                        *)
THEOREM FoldCopies ==
    ASSUME NEW S, \A kept, e : e \in S => Op(kept, e) = Append(kept, e)
    PROVE  \A list \in Seq(S) : Folded(<< >>, list) = list
  <1> DEFINE G == {list \in Seq(S) : Folded(<< >>, list) = list}
  <1>1. << >> \in G
    BY FoldEmpty
  <1>2. ASSUME NEW s \in Seq(S), NEW e \in S, s \in G
        PROVE  Append(s, e) \in G
    <2>1. Folded(<< >>, Append(s, e)) = Op(Folded(<< >>, s), e)
      BY FoldAppend
    <2>2. Folded(<< >>, s) = s
      BY <1>2
    <2> QED BY <2>1, <2>2, AppendProperties
  <1> HIDE DEF G
  <1>3. Seq(S) \subseteq G
    BY <1>1, <1>2, ListInduction
  <1> QED
    BY <1>3 DEF G

-----------------------------------------------------------------------------
(* Lists laid end to end, as FlattenSeq of SequencesExt does it.           *)
EndToEnd(seqs) ==
    IF Len(seqs) = 0 THEN seqs
    ELSE LET f[i \in 1..Len(seqs)] == IF i = 1 THEN seqs[i] ELSE f[i - 1] \o seqs[i]
         IN  f[Len(seqs)]

(* The function that FlattenSeq chooses: the first i of the lists.         *)
Flat(seqs, f, n) == f = [i \in 1..n |-> IF i = 1 THEN seqs[i] ELSE f[i - 1] \o seqs[i]]

(* There is such a function for any number of lists.                       *)
LEMMA FlatExists ==
    ASSUME NEW seqs
    PROVE  \A n \in Nat : \E f : Flat(seqs, f, n)
  <1> DEFINE Has == {n \in Nat : \E f : Flat(seqs, f, n)}
  <1>1. 0 \in Has
    <2>1. Flat(seqs, [i \in 1..0 |-> seqs], 0)
      BY DEF Flat
    <2> QED BY <2>1
  <1>2. ASSUME NEW n \in Nat, n \in Has
        PROVE  n + 1 \in Has
    <2>1. PICK g : Flat(seqs, g, n)
      BY <1>2
    <2> DEFINE f == [i \in 1..(n + 1) |->
                        IF i = n + 1 THEN IF i = 1 THEN seqs[i] ELSE g[n] \o seqs[i] ELSE g[i]]
    <2>6. n + 1 \in 1..(n + 1) /\ \A i \in 1..n : i \in 1..(n + 1) /\ i # n + 1
      OBVIOUS
    <2>2. /\ f[n + 1] = IF n + 1 = 1 THEN seqs[n + 1] ELSE g[n] \o seqs[n + 1]
          /\ \A i \in 1..n : f[i] = g[i]
          /\ f = [i \in 1..(n + 1) |-> f[i]]
      BY <2>6
    <2> HIDE DEF f
    <2>3. \A i \in 1..n : g[i] = IF i = 1 THEN seqs[i] ELSE g[i - 1] \o seqs[i]
      BY <2>1 DEF Flat
    <2>4. ASSUME NEW i \in 1..(n + 1)
          PROVE  f[i] = IF i = 1 THEN seqs[i] ELSE f[i - 1] \o seqs[i]
      <3>1. CASE i = n + 1
        <4>1. i # 1 => i - 1 = n /\ n \in 1..n
          BY <3>1
        <4> QED BY <2>2, <3>1, <4>1
      <3>2. CASE i \in 1..n
        <4>1. i # 1 => i - 1 \in 1..n
          BY <3>2
        <4> QED BY <2>2, <2>3, <3>2, <4>1
      <3> QED BY <3>1, <3>2
    <2>5. Flat(seqs, f, n + 1)
      BY <2>2, <2>4 DEF Flat
    <2> QED BY <2>5
  <1> HIDE DEF Has
  <1>3. Nat \subseteq Has
    BY <1>1, <1>2, NatSetInduction
  <1> QED
    BY <1>3 DEF Has

(* No lists at all, end to end.                                            *)
THEOREM FlattenEmpty == EndToEnd(<< >>) = << >>
  BY DEF EndToEnd

(* The lists end to end are the last value of such a function.             *)
LEMMA FlattenIsFlat ==
    ASSUME NEW S, NEW seqs \in Seq(S), NEW n \in Nat, n = Len(seqs), n # 0
    PROVE  \E f : Flat(seqs, f, n) /\ EndToEnd(seqs) = f[n]
  <1> DEFINE Chosen(g) == g = [i \in 1..Len(seqs) |-> IF i = 1 THEN seqs[i] ELSE g[i - 1] \o seqs[i]]
             f == CHOOSE g : Chosen(g)
  <1>1. EndToEnd(seqs) = f[Len(seqs)]
    BY DEF EndToEnd
  <1>2. \A g : Chosen(g) <=> Flat(seqs, g, n)
    BY DEF Flat
  <1> HIDE DEF Chosen
  <1>3. \E g : Chosen(g)
    BY <1>2, FlatExists
  <1>4. Chosen(f)
    BY <1>3
  <1> HIDE DEF f
  <1> QED
    BY <1>1, <1>2, <1>4

(* One list more is laid at the end.                                       *)
THEOREM FlattenAppend ==
    ASSUME NEW S, NEW seqs \in Seq(Seq(S)), NEW s \in Seq(S)
    PROVE  EndToEnd(Append(seqs, s)) = EndToEnd(seqs) \o s
  <1>1. PICK n \in Nat : n = Len(seqs)
    BY LenProperties
  <1>2. PICK all \in Seq(Seq(S)) : all = Append(seqs, s)
    BY AppendProperties
  <1>3. PICK m \in Nat : m = n + 1
    OBVIOUS
  <1>4. Len(all) = m /\ all[m] = s /\ \A i \in 1..n : all[i] = seqs[i]
    BY <1>1, <1>2, <1>3, AppendProperties
  <1>5. PICK h : Flat(all, h, m) /\ EndToEnd(all) = h[m]
    <2>1. m # 0 /\ m = Len(all)
      BY <1>3, <1>4
    <2> DEFINE T == Seq(S)
    <2>2. all \in Seq(T)
      OBVIOUS
    <2> HIDE DEF T
    <2> QED BY <2>1, <2>2, FlattenIsFlat
  <1>6. \A i \in 1..m : h[i] = IF i = 1 THEN all[i] ELSE h[i - 1] \o all[i]
    BY <1>5 DEF Flat
  <1>7. CASE n = 0
    <2>1. seqs = << >>
      BY <1>1, <1>7, EmptySeq
    <2>3. m = 1 /\ h[1] = all[1]
      BY <1>3, <1>6, <1>7
    <2>4. h[m] = s
      BY <1>4, <2>3
    <2>2. << >> \o s = s
      OBVIOUS
    <2> QED BY <1>2, <1>5, <2>1, <2>2, <2>4, FlattenEmpty
  <1>8. CASE n # 0
    <2>1. PICK g : Flat(seqs, g, n) /\ EndToEnd(seqs) = g[n]
      BY <1>1, <1>8, FlattenIsFlat
    <2>2. \A i \in 1..n : g[i] = IF i = 1 THEN seqs[i] ELSE g[i - 1] \o seqs[i]
      BY <2>1 DEF Flat
    <2> DEFINE Same == {k \in Nat : k + 1 <= n => h[k + 1] = g[k + 1]}
    <2>3. 0 \in Same
      BY <1>3, <1>4, <1>6, <1>8, <2>2
    <2>4. ASSUME NEW k \in Nat, k \in Same
          PROVE  k + 1 \in Same
      <3> SUFFICES ASSUME k + 2 <= n PROVE h[k + 2] = g[k + 2]
        OBVIOUS
      <3>1. k + 2 \in 1..n /\ k + 2 \in 1..m /\ k + 2 # 1 /\ (k + 2) - 1 = k + 1
        BY <1>3
      <3>2. h[k + 2] = h[k + 1] \o all[k + 2] /\ g[k + 2] = g[k + 1] \o seqs[k + 2]
        BY <1>6, <2>2, <3>1
      <3>3. h[k + 1] = g[k + 1]
        BY <2>4
      <3> QED BY <1>4, <3>1, <3>2, <3>3
    <2> HIDE DEF Same
    <2>5. n - 1 \in Nat
      BY <1>8
    <2>6. n - 1 \in Same
      BY <2>3, <2>4, <2>5, NatSetInduction
    <2>7. h[n] = g[n]
      BY <2>5, <2>6 DEF Same
    <2>8. h[m] = h[n] \o all[m]
      <3>1. m \in 1..m /\ m # 1 /\ m - 1 = n
        BY <1>3, <1>8
      <3> QED BY <1>6, <3>1
    <2> QED
      BY <1>2, <1>4, <1>5, <2>1, <2>7, <2>8
  <1> QED
    BY <1>7, <1>8

(* Lists of the elements of S, end to end, are a list of them.             *)
THEOREM FlattenIsAList ==
    ASSUME NEW S
    PROVE  \A seqs \in Seq(Seq(S)) : EndToEnd(seqs) \in Seq(S)
  <1> DEFINE G == {seqs \in Seq(Seq(S)) : EndToEnd(seqs) \in Seq(S)}
  <1>1. << >> \in G
    <2>1. << >> \in Seq(Seq(S)) /\ << >> \in Seq(S)
      BY EmptySeq
    <2> QED BY <2>1, FlattenEmpty
  <1>2. ASSUME NEW seqs \in Seq(Seq(S)), NEW s \in Seq(S), seqs \in G
        PROVE  Append(seqs, s) \in G
    <2>1. EndToEnd(Append(seqs, s)) = EndToEnd(seqs) \o s
      BY FlattenAppend
    <2>2. EndToEnd(seqs) \o s \in Seq(S)
      BY <1>2
    <2> QED BY <2>1, <2>2, AppendProperties
  <1> HIDE DEF G
  <1>3. Seq(Seq(S)) \subseteq G
    BY <1>1, <1>2, ListInduction
  <1> QED
    BY <1>3 DEF G
================================================================================
