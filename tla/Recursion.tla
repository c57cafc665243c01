----------------------------- MODULE Recursion ------------------------------
(***************************************************************************)
(* What proofs about functions that are defined by recursion need, stated  *)
(* of sets and functions, so that it can be cited: that a set of natural   *)
(* numbers has a least element, that a set which has 0 and the successor   *)
(* of each of its elements has every number, and that the function that is *)
(* defined by a start and a step exists. And what a sequence is without    *)
(* one of its elements.                                                    *)
(***************************************************************************)
EXTENDS Integers, Sequences, SequencesExt, WellFoundedInduction,
        SequenceTheorems, TLAPS

(* Every nonempty set of natural numbers has a least element.              *)
LEMMA LeastElement ==
  ASSUME NEW T, T \subseteq Nat, T # {}
  PROVE  \E x \in T : \A y \in T : x <= y
<1> DEFINE R == {ss \in Nat \X Nat : ss[1] < ss[2]}
<1>1. IsWellFoundedOn(R, Nat)
  BY NatLessThanWellFounded DEF OpToRel
<1>2. \A x, y \in Nat : x < y => <<x, y>> \in R
  OBVIOUS
<1> HIDE DEF R
<1>3. PICK x \in T : \A y \in T : ~ (<<y, x>> \in R)
  BY <1>1, WFMin
<1>4. ASSUME NEW y \in T PROVE x <= y
  <2>1. ~ (y < x)
    BY <1>2, <1>3
  <2>2. x \in Nat /\ y \in Nat
    OBVIOUS
  <2> QED BY <2>1, <2>2
<1> QED BY <1>4

(* Induction over the natural numbers, for a set.                          *)
LEMMA Induction ==
  ASSUME NEW S, 0 \in S, \A n \in Nat : n \in S => n + 1 \in S
  PROVE  Nat \subseteq S
<1> SUFFICES ASSUME Nat \ S # {} PROVE FALSE
  OBVIOUS
<1>1. PICK x \in Nat \ S : \A y \in Nat \ S : x <= y
  BY LeastElement
<1>2. x # 0 /\ x - 1 \in Nat
  BY <1>1
<1>3. x - 1 \in S
  BY <1>1, <1>2
<1> QED BY <1>1, <1>2, <1>3

(* The same up to m.                                                       *)
LEMMA InductionTo ==
  ASSUME NEW m \in Nat, NEW S, 0 \in S,
         \A n \in 1..m : n - 1 \in S => n \in S
  PROVE  0..m \subseteq S
<1> DEFINE T == S \cup {n \in Nat : n > m}
<1>1. ASSUME NEW n \in Nat, n \in T PROVE n + 1 \in T
  <2>1. CASE n + 1 > m
    BY <2>1
  <2>2. CASE n + 1 <= m
    BY <1>1, <2>2
  <2> QED BY <2>1, <2>2
<1>2. Nat \subseteq T
  <2> HIDE DEF T
  <2>1. 0 \in T
    BY DEF T
  <2> QED BY <1>1, <2>1, Induction
<1> QED BY <1>2

(* f begins with c and goes on by the steps h.                             *)
Iterates(f, c, h) ==
  f[0] = c /\ \A n \in Nat : f[n + 1] = h[n + 1][f[n]]

(* The same up to m, as a definition by recursion has it.                  *)
IteratesTo(f, c, h, m) ==
  f = [n \in 0..m |-> IF n = 0 THEN c ELSE h[n][f[n - 1]]]

(* Primitive recursion: a function of the natural numbers with a given start*)
(* and a given step exists.                                                *)
LEMMA RecursionExists ==
  ASSUME NEW V, NEW c \in V, NEW h \in [Nat -> [V -> V]]
  PROVE  \E f \in [Nat -> V] : Iterates(f, c, h)
<1> DEFINE Good(g, n) == /\ g \in [0..n -> V]
                         /\ g[0] = c
                         /\ \A i \in 0..(n - 1) : g[i + 1] = h[i + 1][g[i]]
           S == {n \in Nat : \E g : Good(g, n)}
<1>1. Nat \subseteq S
  <2>1. 0 \in S
    <3> DEFINE g0 == [i \in 0..0 |-> c]
    <3>1. Good(g0, 0)
      OBVIOUS
    <3> QED BY <3>1
  <2>2. ASSUME NEW n \in Nat, n \in S PROVE n + 1 \in S
    <3>1. PICK g : Good(g, n)
      BY <2>2
    <3> DEFINE k == [i \in 0..(n + 1) |->
                       IF i = n + 1 THEN h[n + 1][g[n]] ELSE g[i]]
    <3>2. g[n] \in V /\ h[n + 1][g[n]] \in V
      BY <3>1
    <3>3. k \in [0..(n + 1) -> V]
      BY <3>1, <3>2
    <3>4. ASSUME NEW i \in 0..(n + 1 - 1) PROVE k[i + 1] = h[i + 1][k[i]]
      <4>1. CASE i = n
        BY <4>1
      <4>2. CASE i # n
        <5>1. i \in 0..(n - 1) /\ i + 1 \in 0..n
          BY <4>2
        <5> QED BY <3>1, <5>1
      <4> QED BY <4>1, <4>2
    <3>5. k[0] = c
      BY <3>1
    <3>6. Good(k, n + 1)
      <4> HIDE DEF k
      <4> QED BY <3>3, <3>4, <3>5
    <3> HIDE DEF Good, k
    <3> QED BY <3>6
  <2> HIDE DEF S
  <2> QED BY <2>1, <2>2, Induction
<1>2. \A n \in Nat : \E g : Good(g, n)
  BY <1>1
<1>3. ASSUME NEW m \in Nat, NEW n \in Nat, m <= n,
             NEW g, Good(g, m), NEW k, Good(k, n)
      PROVE  \A i \in 0..m : g[i] = k[i]
  <2> DEFINE T == {i \in Nat : i <= m => g[i] = k[i]}
  <2>1. 0 \in T
    BY <1>3
  <2>2. ASSUME NEW i \in Nat, i \in T PROVE i + 1 \in T
    <3> SUFFICES ASSUME i + 1 <= m PROVE g[i + 1] = k[i + 1]
      OBVIOUS
    <3>1. i \in 0..(m - 1) /\ i \in 0..(n - 1) /\ g[i] = k[i]
      BY <1>3, <2>2
    <3> QED BY <1>3, <3>1
  <2>3. Nat \subseteq T
    <3> HIDE DEF T
    <3> QED BY <2>1, <2>2, Induction
  <2> QED BY <2>3
<1> DEFINE G(n) == CHOOSE g : Good(g, n)
           f == [n \in Nat |-> G(n)[n]]
<1>4. \A n \in Nat : Good(G(n), n)
  BY <1>2
<1>5. f \in [Nat -> V]
  <2> SUFFICES ASSUME NEW n \in Nat PROVE G(n)[n] \in V
    OBVIOUS
  <2> HIDE DEF G
  <2> QED BY <1>4
<1>6. f[0] = c
  <2> HIDE DEF G
  <2> QED BY <1>4
<1>7. ASSUME NEW n \in Nat PROVE f[n + 1] = h[n + 1][f[n]]
  <2> HIDE DEF G
  <2>1. Good(G(n), n) /\ Good(G(n + 1), n + 1)
    BY <1>4
  <2>2. G(n)[n] = G(n + 1)[n]
    <3> HIDE DEF Good
    <3>1. \A i \in 0..n : G(n)[i] = G(n + 1)[i]
      BY <1>3, <2>1
    <3> QED BY <3>1
  <2>3. G(n + 1)[n + 1] = h[n + 1][G(n + 1)[n]]
    BY <2>1
  <2> QED BY <2>2, <2>3
<1> QED
  <2> HIDE DEF f
  <2> QED BY <1>5, <1>6, <1>7 DEF Iterates

(* The same over an interval, in the form in which a function is defined.  *)
LEMMA RecursionOver ==
  ASSUME NEW V, NEW c \in V, NEW m \in Nat, NEW h \in [1..m -> [V -> V]]
  PROVE  \E f \in [0..m -> V] : IteratesTo(f, c, h, m)
<1> DEFINE all == [n \in Nat |-> IF n \in 1..m THEN h[n] ELSE [v \in V |-> v]]
<1>1. all \in [Nat -> [V -> V]]
  OBVIOUS
<1>2. \A n \in 1..m : all[n] = h[n]
  OBVIOUS
<1> HIDE DEF all
<1>3. PICK g \in [Nat -> V] : Iterates(g, c, all)
  BY <1>1, RecursionExists
<1> DEFINE f == [n \in 0..m |-> g[n]]
<1>4. ASSUME NEW n \in 0..m, n # 0 PROVE g[n] = h[n][g[n - 1]]
  <2>1. n - 1 \in Nat /\ n \in 1..m /\ (n - 1) + 1 = n
    BY <1>4
  <2>2. g[(n - 1) + 1] = all[(n - 1) + 1][g[n - 1]]
    BY <1>3, <2>1 DEF Iterates
  <2> QED BY <1>2, <2>1, <2>2
<1>5. f \in [0..m -> V] /\ \A n \in 0..m : f[n] = g[n]
  BY <1>3
<1>6. f = [n \in 0..m |-> IF n = 0 THEN c ELSE h[n][f[n - 1]]]
  <2>1. \A n \in 0..m : n # 0 => n - 1 \in 0..m
    OBVIOUS
  <2>2. \A n \in 0..m : f[n] = IF n = 0 THEN c ELSE h[n][f[n - 1]]
    <3> HIDE DEF f
    <3> QED BY <1>3, <1>4, <1>5, <2>1 DEF Iterates
  <2> HIDE DEF f
  <2> QED BY <1>5, <2>2
<1> QED
  <2> HIDE DEF f
  <2> QED BY <1>5, <1>6 DEF IteratesTo

----------------------------------------------------------------------------
(* What the operators on sequences return.                                 *)

LEMMA RemoveAtProperties ==
  ASSUME NEW S, NEW s \in Seq(S), NEW i \in 1..Len(s)
  PROVE  /\ RemoveAt(s, i) \in Seq(S)
         /\ Len(RemoveAt(s, i)) = Len(s) - 1
         /\ \A j \in 1..(Len(s) - 1) :
              RemoveAt(s, i)[j] = IF j < i THEN s[j] ELSE s[j + 1]
<1> DEFINE a == SubSeq(s, 1, i - 1)
           b == SubSeq(s, i + 1, Len(s))
<1>0. Len(s) \in Nat /\ i \in Nat /\ \A j \in 1..Len(s) : s[j] \in S
  BY LenProperties, ElementOfSeq
<1>1. /\ a \in Seq(S)
      /\ Len(a) = i - 1
      /\ \A j \in 1..(i - 1) : a[j] = s[j]
  BY <1>0, SubSeqProperties
<1>2. /\ b \in Seq(S)
      /\ Len(b) = Len(s) - i
      /\ \A j \in 1..(Len(s) - i) : b[j] = s[i + j]
  BY <1>0, SubSeqProperties
<1>3. RemoveAt(s, i) = a \o b
  BY DEF RemoveAt
<1> HIDE DEF a, b
<1>4. /\ a \o b \in Seq(S)
      /\ Len(a \o b) = Len(a) + Len(b)
      /\ \A j \in 1..(Len(a) + Len(b)) :
           (a \o b)[j] = IF j <= Len(a) THEN a[j] ELSE b[j - Len(a)]
  BY <1>1, <1>2, ConcatProperties
<1> DEFINE c == a \o b
<1> HIDE DEF c
<1>5. ASSUME NEW j \in 1..(Len(s) - 1)
      PROVE  c[j] = IF j < i THEN s[j] ELSE s[j + 1]
  <2>1. c[j] = IF j <= i - 1 THEN a[j] ELSE b[j - (i - 1)]
    BY <1>0, <1>1, <1>2, <1>4 DEF c
  <2>2. CASE j < i
    BY <1>0, <1>1, <2>1, <2>2
  <2>3. CASE j >= i
    <3>1. j - (i - 1) \in 1..(Len(s) - i) /\ i + (j - (i - 1)) = j + 1
      BY <1>0, <2>3
    <3>2. b[j - (i - 1)] = s[j + 1]
      BY <1>2, <3>1
    <3> QED
      BY <1>0, <2>1, <2>3, <3>2
  <2> QED
    BY <1>0, <2>2, <2>3
<1>6. QED
  BY <1>0, <1>1, <1>2, <1>3, <1>4, <1>5 DEF c

LEMMA FrontLastProperties ==
  ASSUME NEW S, NEW s \in Seq(S), s # <<>>
  PROVE  /\ Len(s) \in Nat \ {0}
         /\ Last(s) = s[Len(s)]
         /\ Last(s) \in S
         /\ Front(s) \in Seq(S)
         /\ Len(Front(s)) = Len(s) - 1
         /\ \A j \in 1..(Len(s) - 1) : Front(s)[j] = s[j]
<1>1. Len(s) \in Nat \ {0} /\ \A j \in 1..Len(s) : s[j] \in S
  BY EmptySeq, ElementOfSeq
<1>2. Last(s) = s[Len(s)] /\ Last(s) \in S
  BY <1>1 DEF Last
<1> DEFINE n == Len(s) - 1
<1>3. n \in Nat /\ \A j \in 1..n : s[j] \in S
  BY <1>1
<1> HIDE DEF n
<1>4. /\ SubSeq(s, 1, n) \in Seq(S)
      /\ Len(SubSeq(s, 1, n)) = n
      /\ \A j \in 1..n : SubSeq(s, 1, n)[j] = s[j]
  BY <1>3, SubSeqProperties
<1>5. Front(s) = SubSeq(s, 1, n)
  BY DEF Front, n
<1>6. QED
  BY <1>1, <1>2, <1>4, <1>5 DEF n
=============================================================================
