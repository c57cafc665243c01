------------------------- MODULE AssemblyLinksProofs ------------------------
(***************************************************************************)
(* Proofs about AssemblyLinks, for any sessions, files, names, versions    *)
(* and histories.                                                          *)
(*                                                                         *)
(* An assembly is behind where an occurrence of it is stale: it does not   *)
(* show the object its tab shows. A pass over the tabs takes away what is  *)
(* stale and may make stale what shows a tab that moved, so after a pass   *)
(* the stale occurrences show tabs with a link to one that was shown stale *)
(* before (PassWave). Where no assembly is made of itself, links lead down *)
(* a finite height (HeightsEnd), and one pass more than there are tabs is  *)
(* enough.                                                                 *)
(*                                                                         *)
(* LinksInv is what that needs between commands: an occurrence that shows  *)
(* the object of its tab shows its shape, an assembly shows what its       *)
(* occurrences show, files and kept versions have no links. Each command   *)
(* keeps it, and "The specification, and the links" takes the theorems     *)
(* from it.                                                                *)
(*                                                                         *)
(* SavedInv, which every command keeps that neither is undone nor fails,   *)
(* says what the files hold (the sections after that): a document that was *)
(* not changed since fits its file (FilesFit), who is linked to a tab      *)
(* names the file of that tab (ByPath), and no tab shows the file of       *)
(* another (OwnPaths). The file of all that a document without unsaved     *)
(* changes shows, if it is InPlace, then has what that shows               *)
(* (CleanMirrors), so that reading its file, level by level, gives what it *)
(* shows (LoadsBack).                                                      *)
(***************************************************************************)
EXTENDS AssemblyLinks, Recursion, FiniteSetTheorems, SequenceTheorems, TLAPS

(* A sequence of sets that grows inside a finite one stands still once.    *)
Growing(F, S, n) ==
  /\ \A k \in 0..(n + 1) : F[k] \subseteq S
  /\ \A k \in 0..n : F[k] \subseteq F[k + 1]

LEMMA Saturates ==
  ASSUME NEW S, IsFiniteSet(S), NEW n \in Nat, Cardinality(S) <= n,
         NEW F, Growing(F, S, n)
  PROVE  \E k \in 0..n : F[k] = F[k + 1]
<1>0. /\ \A k \in 0..(n + 1) : F[k] \subseteq S
      /\ \A k \in 0..n : F[k] \subseteq F[k + 1]
  BY DEF Growing
<1> SUFFICES ASSUME \A k \in 0..n : F[k] # F[k + 1] PROVE FALSE
  OBVIOUS
<1> DEFINE size(k) == Cardinality(F[k])
           m == n + 1
           T == {k \in 0..m : k <= size(k)}
<1>1. m \in Nat /\ \A k \in 0..m : IsFiniteSet(F[k]) /\ size(k) \in Nat
  <2>1. \A k \in 0..m : IsFiniteSet(F[k])
    BY <1>0, FS_Subset
  <2> QED BY <2>1, FS_CardinalityType
<1>2. ASSUME NEW k \in 1..m PROVE size(k - 1) < size(k)
  <2>1. k - 1 \in 0..n /\ k - 1 \in 0..m /\ k \in 0..m /\ k - 1 + 1 = k
    OBVIOUS
  <2>2. F[k - 1] \in SUBSET F[k] /\ F[k - 1] # F[k]
    BY <1>0, <2>1
  <2>3. IsFiniteSet(F[k])
    BY <1>1, <2>1
  <2>4. size(k - 1) <= size(k) /\ size(k - 1) # size(k)
    BY <2>2, <2>3, FS_Subset
  <2> HIDE DEF size
  <2> QED BY <1>1, <2>1, <2>4
<1> HIDE DEF size
<1>3. 0 \in T
  BY <1>1
<1>4. ASSUME NEW k \in 1..m, k - 1 \in T PROVE k \in T
  BY <1>1, <1>2, <1>4
<1>5. m \in T
  <2>1. m \in 0..m
    BY <1>1
  <2> HIDE DEF T, m
  <2> QED BY <1>1, <1>3, <1>4, <2>1, InductionTo
<1>6. size(m) <= Cardinality(S)
  <2>1. F[m] \in SUBSET S
    BY <1>0
  <2> QED BY <2>1, FS_Subset DEF size
<1>7. Cardinality(S) \in Nat
  BY FS_CardinalityType
<1> QED BY <1>1, <1>5, <1>6, <1>7

(* What is in a sequence is no more than the sequence is long.             *)
LEMMA RangeIsSmall ==
  ASSUME NEW S, NEW s \in Seq(S)
  PROVE  /\ IsFiniteSet(Range(s)) /\ Cardinality(Range(s)) <= Len(s)
         /\ Cardinality(Range(s)) \in Nat /\ Len(s) \in Nat
<1> DEFINE n == Len(s)
<1>1. n \in Nat /\ s \in [1..n -> S]
  OBVIOUS
<1>2. s \in Surjection(1..n, Range(s))
  BY <1>1 DEF Surjection, Range
<1>3. IsFiniteSet(1..n) /\ Cardinality(1..n) = n
  <2> HIDE DEF n
  <2>1. IsFiniteSet(1..n) /\ Cardinality(1..n) = IF 1 > n THEN 0 ELSE n - 1 + 1
    BY <1>1, FS_Interval
  <2> QED BY <1>1, <2>1
<1> HIDE DEF n
<1>4. IsFiniteSet(Range(s)) /\ Cardinality(Range(s)) <= Cardinality(1..n)
  BY <1>2, <1>3, FS_Surjection
<1> QED BY <1>1, <1>3, <1>4, FS_CardinalityType DEF n

----------------------------------------------------------------------------
(* What is linked.                                                         *)

(* Every link is to a tab.                                                 *)
LinksIn(docs, S) ==
  \A t \in S : \A o \in DOMAIN docs[t].occs :
    docs[t].occs[o].link \in S \cup {None}

LEMMA LinkedFromIs ==
  ASSUME NEW docs, NEW S, NEW x
  PROVE  x \in LinkedFrom(docs, S) <=>
           /\ x # None
           /\ \E t \in S : \E o \in DOMAIN docs[t].occs :
                docs[t].occs[o].link = x
  BY DEF LinkedFrom

(* X has what is linked from s, and with anything what is linked from it.  *)
Closed(docs, s, X) ==
  LinkedFrom(docs, {s}) \subseteq X /\ LinkedFrom(docs, X) \subseteq X

Belows(docs, order, s, below) ==
  below = [i \in 0..Len(order) |->
             IF i = 0 THEN LinkedFrom(docs, {s})
             ELSE below[i - 1] \cup LinkedFrom(docs, below[i - 1])]

(* The recursion has a solution, and as many steps as there are tabs reach *)
(* everything: Below is the least closed set.                              *)
LEMMA BelowIsLeast ==
  ASSUME NEW A, NEW order \in Seq(A), NEW docs, LinksIn(docs, Range(order)),
         NEW s \in Range(order)
  PROVE  /\ Below(docs, order, s) \subseteq Range(order)
         /\ Closed(docs, s, Below(docs, order, s))
         /\ \A X \in SUBSET Range(order) :
              Closed(docs, s, X) => Below(docs, order, s) \subseteq X
<1> DEFINE S == Range(order)
           n == Len(order)
           L(X) == LinkedFrom(docs, X)
           V == SUBSET S
           c == L({s})
           h == [i \in 1..n |-> [v \in V |-> v \cup L(v)]]
<1>1. /\ n \in Nat /\ IsFiniteSet(S) /\ Cardinality(S) <= n
      /\ Cardinality(S) \in Nat
  BY RangeIsSmall
<1>2. \A X \in V : L(X) \in V
  BY LinkedFromIs DEF LinksIn
<1>3. c \in V
  BY <1>2
<1>4. \A X, Y : X \subseteq Y => L(X) \subseteq L(Y)
  BY LinkedFromIs
<1> HIDE DEF L, S, n, c
<1>5. PICK f \in [0..n -> V] : IteratesTo(f, c, h, n)
  <2>1. h \in [1..n -> [V -> V]]
    BY <1>2
  <2> HIDE DEF V, h
  <2> QED BY <1>1, <1>3, <2>1, RecursionOver
<1>6. Belows(docs, order, s, f)
  <2>1. f = [i \in 0..n |-> IF i = 0 THEN c ELSE h[i][f[i - 1]]]
    BY <1>5 DEF IteratesTo
  <2>2. \A i \in 0..n : i # 0 => i \in 1..n /\ f[i - 1] \in V
    BY <1>1, <1>5
  <2>3. \A i \in 1..n, v \in V : h[i][v] = v \cup L(v)
    OBVIOUS
  <2> HIDE DEF h, V
  <2>4. f = [i \in 0..n |-> IF i = 0 THEN c ELSE f[i - 1] \cup L(f[i - 1])]
    <3>1. f \in [0..n -> V]
      OBVIOUS
    <3>2. ASSUME NEW i \in 0..n
          PROVE  f[i] = IF i = 0 THEN c ELSE f[i - 1] \cup L(f[i - 1])
      <4>1. CASE i = 0
        BY <2>1, <4>1
      <4>2. CASE i # 0
        <5>1. i \in 1..n /\ f[i - 1] \in V
          BY <2>2, <4>2
        <5>2. h[i][f[i - 1]] = f[i - 1] \cup L(f[i - 1])
          BY Zenon, <2>3, <5>1
        <5>3. f[i] = h[i][f[i - 1]]
          BY <2>1, <4>2
        <5> QED BY <4>2, <5>2, <5>3
      <4> QED BY <4>1, <4>2
    <3> QED BY <3>1, <3>2
  <2> QED BY <2>4 DEF Belows, c, L, n
<1> DEFINE those(below) == Belows(docs, order, s, below)
           it == CHOOSE below : those(below)
<1>7. those(it)
  <2> HIDE DEF those
  <2> QED BY <1>6 DEF those
<1>8. Below(docs, order, s) = it[n]
  BY Zenon DEF Below, Belows, n
<1> HIDE DEF it
<1>9. it = [i \in 0..n |-> IF i = 0 THEN c ELSE it[i - 1] \cup L(it[i - 1])]
  BY <1>7 DEF Belows, c, L, n
<1>10. it[0] = c /\ \A i \in 1..n : it[i] = it[i - 1] \cup L(it[i - 1])
  <2>1. 0 \in 0..n /\ \A i \in 1..n : i \in 0..n /\ i # 0
    BY <1>1
  <2> HIDE DEF h, V, those
  <2> QED BY <1>9, <2>1
<1>11. \A i \in 0..n : it[i] \in V
  <2> DEFINE T == {i \in 0..n : it[i] \in V}
  <2>1. 0 \in T
    BY <1>1, <1>3, <1>10
  <2>2. ASSUME NEW i \in 1..n, i - 1 \in T PROVE i \in T
    BY <1>1, <1>2, <1>10, <2>2
  <2>3. 0..n \subseteq T
    <3> HIDE DEF T
    <3> QED BY <1>1, <2>1, <2>2, InductionTo
  <2> QED BY <2>3
<1>12. c \subseteq it[n]
  <2> DEFINE T == {i \in 0..n : c \subseteq it[i]}
  <2>1. 0 \in T
    BY <1>1, <1>10
  <2>2. ASSUME NEW i \in 1..n, i - 1 \in T PROVE i \in T
    BY <1>1, <1>10, <2>2
  <2>3. 0..n \subseteq T
    <3> HIDE DEF T
    <3> QED BY <1>1, <2>1, <2>2, InductionTo
  <2> QED BY <1>1, <2>3
<1>13. ASSUME NEW k \in 0..n, L(it[k]) \subseteq it[k]
       PROVE  L(it[n]) \subseteq it[n]
  <2> DEFINE T == {i \in 0..n : i < k \/ it[i] = it[k]}
  <2>1. 0 \in T
    BY <1>1
  <2>2. ASSUME NEW i \in 1..n, i - 1 \in T PROVE i \in T
    <3>1. i < k \/ i = k \/ it[i - 1] = it[k]
      BY <1>1, <2>2
    <3>2. it[i] = it[i - 1] \cup L(it[i - 1])
      BY <1>10
    <3> QED BY <1>1, <1>13, <3>1, <3>2
  <2>3. 0..n \subseteq T
    <3> HIDE DEF T
    <3> QED BY <1>1, <2>1, <2>2, InductionTo
  <2>4. n \in T
    BY <1>1, <2>3
  <2>5. it[n] = it[k]
    BY <1>1, <2>4
  <2> QED BY <1>13, <2>5
<1>14. L(it[n]) \subseteq it[n]
  <2> DEFINE F == [i \in 0..(n + 1) |-> IF i = 0 THEN {} ELSE it[i - 1]]
  <2>1. \A i \in 0..(n + 1) : F[i] \subseteq S
    BY <1>1, <1>11
  <2>2. F[0] = {} /\ \A i \in 1..(n + 1) : F[i] = it[i - 1]
    BY <1>1
  <2>3. \A i \in 0..n : F[i] \subseteq F[i + 1]
    BY <1>1, <1>10, <2>2
  <2> HIDE DEF F
  <2>4. PICK k \in 0..n : F[k] = F[k + 1]
    <3>1. Growing(F, S, n)
      BY <2>1, <2>3 DEF Growing
    <3> QED BY <1>1, <3>1, Saturates
  <2>5. CASE k = 0
    <3>1. it[0] = {}
      BY <1>1, <2>2, <2>4, <2>5
    <3>2. L(it[0]) \subseteq it[0]
      BY <3>1, LinkedFromIs DEF L
    <3> QED BY <1>1, <1>13, <3>2
  <2>6. CASE k # 0
    <3>1. k \in 1..n /\ k - 1 \in 0..n
      BY <1>1, <2>6
    <3>2. it[k - 1] = it[k]
      BY <1>1, <2>2, <2>4, <3>1
    <3>3. it[k] = it[k - 1] \cup L(it[k - 1])
      BY <1>10, <3>1
    <3> QED BY <1>13, <3>1, <3>2, <3>3
  <2> QED BY <2>5, <2>6
<1>15. ASSUME NEW X \in SUBSET S, Closed(docs, s, X) PROVE it[n] \subseteq X
  <2> DEFINE T == {i \in 0..n : it[i] \subseteq X}
  <2>1. c \subseteq X /\ L(X) \subseteq X
    BY <1>15 DEF Closed, c, L
  <2>2. 0 \in T
    BY <1>1, <1>10, <2>1
  <2>3. ASSUME NEW i \in 1..n, i - 1 \in T PROVE i \in T
    <3>1. it[i - 1] \subseteq X
      BY <2>3
    <3>2. L(it[i - 1]) \subseteq X
      BY <1>4, <2>1, <3>1
    <3> QED BY <1>1, <1>10, <3>1, <3>2
  <2>4. 0..n \subseteq T
    <3> HIDE DEF T
    <3> QED BY <1>1, <2>2, <2>3, InductionTo
  <2> QED BY <1>1, <2>4
<1>16. it[n] \subseteq S
  BY <1>1, <1>11
<1> QED BY <1>8, <1>12, <1>14, <1>15, <1>16 DEF Closed, c, L, S

(* Acyclic documents have no path as long as there are tabs: R[k] are the  *)
(* tabs from which k links lead on.                                        *)
Heights(docs, S, R, n) ==
  /\ R[0] = S
  /\ \A k \in 1..n : R[k] = {s \in S : LinkedFrom(docs, {s}) \cap R[k - 1] # {}}

Acyclic(docs, order) ==
  \A s \in Range(order) : s \notin Below(docs, order, s)

LEMMA HeightsExist ==
  ASSUME NEW docs, NEW S, NEW n \in Nat
  PROVE  \E R : /\ Heights(docs, S, R, n)
                /\ \A k \in 0..n : R[k] \in SUBSET S
<1> DEFINE V == SUBSET S
           step(v) == {s \in S : LinkedFrom(docs, {s}) \cap v # {}}
           h == [i \in 1..n |-> [v \in V |-> step(v)]]
<1>1. h \in [1..n -> [V -> V]] /\ S \in V
  <2>1. \A v \in V : step(v) \in V
    OBVIOUS
  <2> HIDE DEF step
  <2>2. h \in [1..n -> [V -> V]]
    <3> HIDE DEF V
    <3> QED BY <2>1
  <2> QED BY <2>2
<1>2. PICK f \in [0..n -> V] : IteratesTo(f, S, h, n)
  <2> HIDE DEF V, h
  <2> QED BY <1>1, RecursionOver
<1>3. f = [i \in 0..n |-> IF i = 0 THEN S ELSE h[i][f[i - 1]]]
  BY <1>2 DEF IteratesTo
<1>4. \A k \in 1..n : k - 1 \in 0..n /\ f[k - 1] \in V /\ k \in 0..n /\ k # 0
  <2> HIDE DEF V
  <2> QED BY <1>2
<1>5. \A i \in 1..n, v \in V : h[i][v] = step(v)
  OBVIOUS
<1> HIDE DEF h, step, V
<1>6. f[0] = S
  BY <1>3
<1>7. \A k \in 1..n : f[k] = step(f[k - 1])
  BY <1>3, <1>4, <1>5
<1>8. \A k \in 0..n : f[k] \in SUBSET S
  BY <1>2 DEF V
<1> QED BY <1>6, <1>7, <1>8 DEF Heights, step

LEMMA HeightsFall ==
  ASSUME NEW docs, NEW S, NEW R, NEW n \in Nat, Heights(docs, S, R, n + 1)
  PROVE  \A k \in 0..n : R[k + 1] \subseteq R[k]
<1> DEFINE m == n + 1
           L(X) == LinkedFrom(docs, X)
<1>1. n \in Nat /\ m \in Nat
  OBVIOUS
<1>2. R[0] = S /\ \A k \in 1..m : R[k] = {s \in S : L({s}) \cap R[k - 1] # {}}
  BY DEF Heights
<1>3. R[1] \subseteq S
  <2>1. 1 \in 1..m
    BY <1>1
  <2> HIDE DEF L, m
  <2> QED BY <1>2, <2>1
<1>4. \A k \in 0..n : R[k + 1] \subseteq R[k]
  <2> DEFINE T == {k \in 0..n : R[k + 1] \subseteq R[k]}
  <2>1. 0 \in T
    BY <1>1, <1>2, <1>3
  <2>2. ASSUME NEW k \in 1..n, k - 1 \in T PROVE k \in T
    <3>1. R[k] \subseteq R[k - 1]
      BY <1>1, <2>2
    <3>2. R[k + 1] = {s \in S : L({s}) \cap R[k] # {}}
      <4> DEFINE i == k + 1
      <4>1. i \in 1..m /\ i - 1 = k
        BY <1>1
      <4> HIDE DEF L, m, i
      <4>2. R[i] = {s \in S : L({s}) \cap R[i - 1] # {}}
        BY <1>2, <4>1
      <4>3. R[i] = {s \in S : L({s}) \cap R[k] # {}}
        BY <4>1, <4>2
      <4> QED BY <4>3 DEF i
    <3>3. R[k] = {s \in S : L({s}) \cap R[k - 1] # {}}
      <4>1. k \in 1..m
        BY <1>1
      <4> HIDE DEF L, m
      <4> QED BY <1>2, <4>1
    <3>4. R[k + 1] \subseteq R[k]
      <4> HIDE DEF L
      <4> QED BY <3>1, <3>2, <3>3
    <3> QED BY <1>1, <3>4
  <2>3. 0..n \subseteq T
    <3> HIDE DEF T
    <3> QED BY <1>1, <2>1, <2>2, InductionTo
  <2> QED BY <2>3
<1> QED BY <1>4

LEMMA HeightsEnd ==
  ASSUME NEW A, NEW order \in Seq(A), NEW docs, LinksIn(docs, Range(order)),
         Acyclic(docs, order), NEW R,
         Heights(docs, Range(order), R, Len(order) + 1)
  PROVE  R[Len(order) + 1] = {}
<1> DEFINE S == Range(order)
           n == Len(order)
           m == n + 1
           L(X) == LinkedFrom(docs, X)
<1>1. /\ n \in Nat /\ IsFiniteSet(S) /\ Cardinality(S) <= n /\ m \in Nat
  BY RangeIsSmall
<1>2. R[0] = S /\ \A k \in 1..m : R[k] = {s \in S : L({s}) \cap R[k - 1] # {}}
  BY DEF Heights
<1> HIDE DEF S, n
<1>3. \A k \in 0..m : R[k] \subseteq S
  <2> SUFFICES ASSUME NEW k \in 0..m PROVE R[k] \subseteq S
    OBVIOUS
  <2>1. CASE k = 0
    BY <1>2, <2>1
  <2>2. CASE k # 0
    <3>1. k \in 1..m
      BY <1>1, <2>2
    <3> HIDE DEF L, m
    <3> QED BY <1>2, <3>1
  <2> QED BY <2>1, <2>2
<1>4. \A k \in 0..n : R[k + 1] \subseteq R[k]
  BY <1>1, HeightsFall DEF n
<1>5. PICK k \in 0..n : R[k] = R[k + 1]
  <2> DEFINE F == [i \in 0..m |-> S \ R[i]]
  <2>1. \A i \in 0..m : F[i] \subseteq S
    OBVIOUS
  <2>2. \A i \in 0..n : F[i] \subseteq F[i + 1]
    BY <1>1, <1>4
  <2> HIDE DEF F
  <2>3. PICK i \in 0..n : F[i] = F[i + 1]
    <3>1. Growing(F, S, n)
      BY <2>1, <2>2 DEF Growing
    <3> QED BY <1>1, <3>1, Saturates
  <2>4. S \ R[i] = S \ R[i + 1]
    <3>1. i \in 0..m /\ i + 1 \in 0..m
      BY <1>1
    <3>2. \A l \in 0..m : F[l] = S \ R[l]
      BY DEF F
    <3> HIDE DEF m
    <3> QED BY <2>3, <3>1, <3>2
  <2>5. R[i] \subseteq S /\ R[i + 1] \subseteq S
    BY <1>1, <1>3
  <2>6. R[i] = R[i + 1]
    BY <2>4, <2>5
  <2> QED BY <2>6
<1> DEFINE C == R[k]
           B(s) == Below(docs, order, s)
<1>6. C \subseteq S /\ \A s \in C : \E t \in C : t \in L({s})
  <2>1. C = {s \in S : L({s}) \cap C # {}}
    BY <1>1, <1>2, <1>5
  <2> HIDE DEF C, L
  <2> QED BY <2>1
<1> HIDE DEF C
<1>7. \A s \in S : B(s) \subseteq S /\ Closed(docs, s, B(s)) /\ s \notin B(s)
  BY BelowIsLeast DEF Acyclic, S
<1>8. \A s \in S : \A t \in L({s}) : t \in B(s) /\ B(t) \subseteq B(s)
        /\ t \in S
  <2> SUFFICES ASSUME NEW s \in S, NEW t \in L({s})
               PROVE  t \in B(s) /\ B(t) \subseteq B(s) /\ t \in S
    OBVIOUS
  <2>1. t \in B(s) /\ t \in S
    BY <1>7 DEF Closed
  <2>2. Closed(docs, t, B(s))
    <3>1. L({t}) \subseteq L(B(s))
      BY <2>1, LinkedFromIs
    <3> QED BY <1>7, <3>1 DEF Closed
  <2>3. B(t) \subseteq B(s)
    <3>1. B(s) \in SUBSET Range(order)
      BY <1>7 DEF S
    <3> HIDE DEF B
    <3>2. \A X \in SUBSET Range(order) :
            Closed(docs, t, X) => B(t) \subseteq X
      BY <2>1, BelowIsLeast DEF B, S
    <3> QED BY <2>2, <3>1, <3>2
  <2> QED BY <2>1, <2>3
<1>9. C = {}
  <2> SUFFICES ASSUME C # {} PROVE FALSE
    OBVIOUS
  <2> DEFINE size(s) == Cardinality(B(s))
             sizes == {size(s) : s \in C}
  <2>1. \A s \in S : IsFiniteSet(B(s)) /\ size(s) \in Nat
    <3> HIDE DEF B
    <3> QED BY <1>1, <1>7, FS_Subset, FS_CardinalityType
  <2>2. sizes \subseteq Nat /\ sizes # {}
    BY <1>6, <2>1
  <2>3. PICK least \in sizes : \A z \in sizes : least <= z
    <3> HIDE DEF sizes
    <3> QED BY <2>2, LeastElement
  <2>4. PICK s \in C : least = size(s)
    BY <2>3
  <2>5. PICK t \in C : t \in L({s})
    BY <1>6
  <2>6. t \in B(s) /\ B(t) \subseteq B(s) /\ t \notin B(t) /\ t \in S /\ s \in S
    BY <1>6, <1>7, <1>8, <2>5
  <2>7. size(t) <= size(s) /\ size(t) # size(s)
    <3>1. B(t) \in SUBSET B(s) /\ B(t) # B(s) /\ IsFiniteSet(B(s))
      BY <2>1, <2>6
    <3> HIDE DEF B
    <3> QED BY <3>1, FS_Subset
  <2>8. size(s) <= size(t)
    <3> HIDE DEF size
    <3> QED BY <2>3, <2>4
  <2> HIDE DEF size
  <2> QED BY <2>1, <2>6, <2>7, <2>8
<1>10. R[m] \subseteq R[k]
  <2> DEFINE T == {i \in 0..m : i < k \/ R[i] \subseteq R[k]}
  <2>1. 0 \in T
    BY <1>1
  <2>2. ASSUME NEW i \in 1..m, i - 1 \in T PROVE i \in T
    <3>1. i < k \/ i = k \/ R[i - 1] \subseteq R[k]
      BY <1>1, <2>2
    <3>2. R[i] \subseteq R[i - 1]
      <4>1. i - 1 \in 0..n /\ i - 1 + 1 = i
        BY <1>1
      <4> QED BY <1>4, <4>1
    <3> QED BY <3>1, <3>2
  <2>3. 0..m \subseteq T
    <3> HIDE DEF T, m
    <3> QED BY <1>1, <2>1, <2>2, InductionTo
  <2>4. m \in T
    BY <1>1, <2>3
  <2> QED BY <1>1, <2>4
<1> QED BY <1>9, <1>10 DEF C, n

----------------------------------------------------------------------------
(* The documents.                                                          *)

LEMMA OccursType ==
  ASSUME NEW f
  PROVE  f \in Occurrences <=>
           DOMAIN f \in SUBSET Name /\ f \in [DOMAIN f -> Occurrence]
  BY DEF Occurrences

LEMMA ComposeSame ==
  ASSUME NEW f, NEW g, DOMAIN f = DOMAIN g,
         \A o \in DOMAIN f : f[o].shape = g[o].shape
  PROVE  Compose(f) = Compose(g)
  BY DEF Compose

LEMMA ComposeType == ASSUME NEW f \in Occurrences PROVE Compose(f) \in Shape
<1>1. \A o \in DOMAIN f : f[o].shape \in SUBSET Version
  BY OccursType DEF Occurrence, Shape
<1> QED BY <1>1 DEF Compose, Shape

(* What holds of the document d of tab s among the open documents of S: a  *)
(* part has no components, an assembly shows what its components show, and *)
(* an occurrence that shows the object of its tab shows its shape.         *)
DocFits(d, docs, S, s) ==
  /\ d.kind = "part" => DOMAIN d.occs = {}
  /\ d.kind = "assembly" => d.shape = Compose(d.occs)
  /\ \A o \in DOMAIN d.occs :
       /\ d.occs[o].link \in S \cup {None}
       /\ d.occs[o].same /\ d.occs[o].link # s =>
            d.occs[o].link \in S /\ d.occs[o].shape = docs[d.occs[o].link].shape

DocsOK(docs, S) ==
  docs \in [S -> Document] /\ \A s \in S : DocFits(docs[s], docs, S, s)

LEMMA DocumentParts ==
  ASSUME NEW d \in Document
  PROVE  /\ d.kind \in {"part", "assembly"} /\ d.path \in Path \cup {None}
         /\ d.dirty \in BOOLEAN /\ d.shape \in Shape
         /\ d.occs \in Occurrences /\ DOMAIN d.occs \in SUBSET Name
         /\ \A o \in DOMAIN d.occs : d.occs[o] \in Occurrence
<1>1. /\ d.kind \in {"part", "assembly"} /\ d.path \in Path \cup {None}
      /\ d.dirty \in BOOLEAN /\ d.shape \in Shape /\ d.occs \in Occurrences
  BY DEF Document
<1> QED BY <1>1, OccursType

(* The parts of an occurrence, one by one.                                 *)
LEMMA OccParts ==
  ASSUME NEW occ \in Occurrence
  PROVE  /\ occ.path \in Path \cup {Elsewhere}
         /\ occ.link \in Session \cup {None}
         /\ occ.shape \in Shape /\ occ.same \in BOOLEAN
  BY DEF Occurrence

LEMMA PartedIs ==
  ASSUME NEW occs \in Occurrences, NEW X
  PROVE  /\ Parted(occs, X) \in Occurrences
         /\ DOMAIN Parted(occs, X) = DOMAIN occs
         /\ \A o \in DOMAIN occs :
              /\ Parted(occs, X)[o].path = occs[o].path
              /\ Parted(occs, X)[o].link = occs[o].link
              /\ Parted(occs, X)[o].shape = occs[o].shape
              /\ Parted(occs, X)[o].same <=>
                   occs[o].same /\ occs[o].link \notin X
<1> DEFINE new(o) == [occs[o] EXCEPT !.same = @ /\ occs[o].link \notin X]
<1>1. ASSUME NEW o \in DOMAIN occs
      PROVE  /\ new(o) \in Occurrence
             /\ new(o).path = occs[o].path /\ new(o).link = occs[o].link
             /\ new(o).shape = occs[o].shape
             /\ new(o).same <=> occs[o].same /\ occs[o].link \notin X
  <2> DEFINE occ == occs[o]
             b == occ.same /\ occ.link \notin X
  <2>1. occ \in Occurrence
    BY OccursType
  <2>2. b \in BOOLEAN
    BY Zenon
  <2>3. new(o) = [occ EXCEPT !.same = b]
    BY Zenon
  <2> HIDE DEF b, occ, new
  <2>4. /\ new(o) \in Occurrence /\ new(o).path = occ.path
        /\ new(o).link = occ.link /\ new(o).shape = occ.shape
        /\ new(o).same = b
    BY <2>1, <2>2, <2>3 DEF Occurrence
  <2>5. new(o).same <=> occ.same /\ occ.link \notin X
    BY Zenon, <2>4 DEF b
  <2> QED BY Zenon, <2>4, <2>5 DEF occ
<1>2. Parted(occs, X) = [o \in DOMAIN occs |-> new(o)]
  BY Zenon DEF Parted
<1> HIDE DEF new
<1>3. DOMAIN occs \in SUBSET Name
  BY OccursType
<1>4. Parted(occs, X) \in Occurrences
  <2>1. Parted(occs, X) \in [DOMAIN occs -> Occurrence]
    BY <1>1, <1>2
  <2> QED BY <1>3, <2>1 DEF Occurrences
<1>5. DOMAIN Parted(occs, X) = DOMAIN occs
      /\ \A o \in DOMAIN occs : Parted(occs, X)[o] = new(o)
  BY <1>2
<1> QED BY Zenon, <1>1, <1>4, <1>5

(* A document whose components are the same but for which object they show.*)
LEMMA PartedFits ==
  ASSUME NEW d \in Document, NEW X, NEW p,
         p = [d EXCEPT !.occs = Parted(@, X)]
  PROVE  /\ p \in Document /\ p.kind = d.kind /\ p.path = d.path
         /\ p.dirty = d.dirty /\ p.shape = d.shape
         /\ p.occs = Parted(d.occs, X) /\ Compose(p.occs) = Compose(d.occs)
<1>1. d.occs \in Occurrences
  BY DocumentParts
<1> DEFINE new == Parted(d.occs, X)
<1>2. new \in Occurrences /\ Compose(new) = Compose(d.occs)
  <2>1. new \in Occurrences /\ DOMAIN new = DOMAIN d.occs
        /\ \A o \in DOMAIN new : new[o].shape = d.occs[o].shape
    BY <1>1, PartedIs
  <2> HIDE DEF new
  <2> QED BY <2>1, ComposeSame
<1>3. p = [d EXCEPT !.occs = new]
  BY DEF Document
<1> HIDE DEF new
<1>4. /\ p \in Document /\ p.kind = d.kind /\ p.path = d.path
      /\ p.dirty = d.dirty /\ p.shape = d.shape /\ p.occs = new
  BY <1>2, <1>3 DEF Document
<1> QED BY <1>2, <1>4 DEF new

(* Tab x shows d, and the others keep their documents.                     *)
ShownBy(ds, new, S, x, d) ==
  /\ DOMAIN new = S /\ new[x] = d
  /\ d \in Document => new \in [S -> Document]
  /\ \A s \in S \ {x} :
       /\ new[s] \in Document
       /\ new[s].kind = ds[s].kind
       /\ new[s].path = ds[s].path
       /\ new[s].dirty = ds[s].dirty
       /\ new[s].shape = ds[s].shape
       /\ new[s].occs = Parted(ds[s].occs, {x})
       /\ Compose(new[s].occs) = Compose(ds[s].occs)

LEMMA PutIs ==
  ASSUME NEW S, NEW ds \in [S -> Document], NEW x \in S, NEW d
  PROVE  ShownBy(ds, Put(ds, x, d), S, x, d)
<1> DEFINE other(s) == [ds[s] EXCEPT !.occs = Parted(@, {x})]
           p == Put(ds, x, d)
<1>1. p = [s \in S |-> IF s = x THEN d ELSE other(s)]
  BY DEF Put
<1>2. ASSUME NEW s \in S \ {x}
      PROVE  /\ other(s) \in Document /\ other(s).kind = ds[s].kind
             /\ other(s).path = ds[s].path /\ other(s).dirty = ds[s].dirty
             /\ other(s).shape = ds[s].shape
             /\ other(s).occs = Parted(ds[s].occs, {x})
             /\ Compose(other(s).occs) = Compose(ds[s].occs)
  <2>1. ds[s] \in Document
    OBVIOUS
  <2> QED BY <2>1, PartedFits
<1> HIDE DEF other, p
<1>3. DOMAIN p = S /\ p[x] = d /\ \A s \in S \ {x} : p[s] = other(s)
  BY <1>1
<1>4. d \in Document => p \in [S -> Document]
  BY <1>1, <1>2
<1>5. \A s \in S \ {x} :
        /\ p[s] \in Document /\ p[s].kind = ds[s].kind
        /\ p[s].path = ds[s].path /\ p[s].dirty = ds[s].dirty
        /\ p[s].shape = ds[s].shape
        /\ p[s].occs = Parted(ds[s].occs, {x})
        /\ Compose(p[s].occs) = Compose(ds[s].occs)
  BY <1>2, <1>3
<1> QED BY Zenon, <1>3, <1>4, <1>5 DEF ShownBy, p

LEMMA PutOK ==
  ASSUME NEW S, NEW ds, DocsOK(ds, S), NEW x \in S, NEW d \in Document,
         DocFits(d, ds, S, x)
  PROVE  DocsOK(Put(ds, x, d), S)
<1> DEFINE new == Put(ds, x, d)
<1>1. ds \in [S -> Document] /\ \A s \in S : DocFits(ds[s], ds, S, s)
  BY DEF DocsOK
<1> HIDE DEF new
<1>2. /\ new[x] = d /\ new \in [S -> Document]
      /\ \A s \in S \ {x} :
           /\ new[s].kind = ds[s].kind /\ new[s].shape = ds[s].shape
           /\ new[s].occs = Parted(ds[s].occs, {x})
           /\ Compose(new[s].occs) = Compose(ds[s].occs)
  <2>1. ShownBy(ds, new, S, x, d)
    BY Zenon, <1>1, PutIs DEF new
  <2> QED BY Zenon, <2>1 DEF ShownBy
<1>3. DocFits(new[x], new, S, x)
  BY <1>2 DEF DocFits
<1>4. ASSUME NEW s \in S \ {x} PROVE DocFits(new[s], new, S, s)
  <2> DEFINE old == ds[s].occs
             occs == new[s].occs
  <2>1. old \in Occurrences /\ DocFits(ds[s], ds, S, s)
    BY <1>1, DocumentParts
  <2>2. occs = Parted(old, {x})
    BY <1>2
  <2>3. /\ DOMAIN occs = DOMAIN old
        /\ \A o \in DOMAIN old :
             /\ occs[o].link = old[o].link /\ occs[o].shape = old[o].shape
             /\ occs[o].same => old[o].same /\ old[o].link # x
    BY <2>1, <2>2, PartedIs
  <2>4. ASSUME NEW o \in DOMAIN occs
        PROVE  /\ occs[o].link \in S \cup {None}
               /\ occs[o].same /\ occs[o].link # s =>
                    /\ occs[o].link \in S
                    /\ occs[o].shape = new[occs[o].link].shape
    <3>1. /\ old[o].link \in S \cup {None}
          /\ old[o].same /\ old[o].link # s =>
               old[o].link \in S /\ old[o].shape = ds[old[o].link].shape
      BY <2>1, <2>3 DEF DocFits
    <3> HIDE DEF old, occs
    <3> QED BY <1>2, <2>3, <2>4, <3>1
  <2>5. new[s].kind = "part" => DOMAIN occs = {}
    BY <1>2, <2>1, <2>3 DEF DocFits
  <2>6. new[s].kind = "assembly" => new[s].shape = Compose(occs)
    BY <1>2, <2>1 DEF DocFits
  <2> QED BY <2>4, <2>5, <2>6 DEF DocFits
<1> QED BY <1>2, <1>3, <1>4 DEF DocsOK, new

----------------------------------------------------------------------------
(* Which tab an occurrence shows.                                          *)

LEMMA PlacesMaxMin ==
  ASSUME NEW n \in Nat, NEW T \in SUBSET (1..n), T # {}
  PROVE  Max(T) \in T /\ Min(T) \in T
<1>1. \E x \in T : \A y \in T : x <= y
  <2>1. T \subseteq Nat
    OBVIOUS
  <2> QED BY <2>1, LeastElement
<1>2. \E x \in T : \A y \in T : x >= y
  <2> DEFINE U == {n - x : x \in T}
  <2>1. U \subseteq Nat /\ U # {}
    <3>1. \A x \in T : n - x \in Nat
      OBVIOUS
    <3> QED BY <3>1
  <2> HIDE DEF U
  <2>2. PICK u \in U : \A v \in U : u <= v
    BY <2>1, LeastElement
  <2>3. PICK x \in T : u = n - x
    BY <2>2 DEF U
  <2>4. \A y \in T : n - x <= n - y
    BY <2>2, <2>3 DEF U
  <2>5. \A y \in T : x >= y
    BY <2>4
  <2> QED BY <2>5
<1> QED BY <1>1, <1>2 DEF Max, Min

LEMMA ShowingIs ==
  ASSUME NEW A, NEW order \in Seq(A), NEW docs, NEW p,
         Showing(docs, order, p) # {}
  PROVE  /\ order[Max(Showing(docs, order, p))] \in Range(order)
         /\ order[Min(Showing(docs, order, p))] \in Range(order)
         /\ docs[order[Max(Showing(docs, order, p))]].path = p
         /\ docs[order[Min(Showing(docs, order, p))]].path = p
<1> DEFINE T == Showing(docs, order, p)
<1>1. DOMAIN order = 1..Len(order) /\ Len(order) \in Nat
  OBVIOUS
<1>2. T \in SUBSET (1..Len(order))
  BY <1>1 DEF Showing
<1>3. \A i \in T : docs[order[i]].path = p /\ order[i] \in Range(order)
  BY DEF Showing, Range
<1> HIDE DEF T
<1>4. Max(T) \in T /\ Min(T) \in T
  BY <1>1, <1>2, PlacesMaxMin DEF T
<1> QED BY <1>3, <1>4 DEF T

LEMMA SourceIs ==
  ASSUME NEW A, NEW order \in Seq(A), NEW docs, NEW occ
  PROVE  /\ occ.link # None => Source(docs, order, occ) = occ.link
         /\ occ.link = None
              => Source(docs, order, occ) \in Range(order) \cup {None}
<1>1. CASE occ.link # None
  BY <1>1 DEF Source
<1>2. CASE occ.link = None
  <2> DEFINE T == Showing(docs, order, occ.path)
  <2>1. Source(docs, order, occ) = IF T = {} THEN None ELSE order[Max(T)]
    BY <1>2 DEF Source
  <2>2. T # {} => order[Max(T)] \in Range(order)
    BY ShowingIs
  <2> HIDE DEF T
  <2> QED BY <1>2, <2>1, <2>2
<1> QED BY <1>1, <1>2

(* It depends on the paths of the tabs and on what the occurrence names.   *)
LEMMA SourceSame ==
  ASSUME NEW order, NEW docs, NEW docs2,
         \A s \in Range(order) : docs2[s].path = docs[s].path,
         NEW occ, NEW occ2, occ2.path = occ.path, occ2.link = occ.link
  PROVE  Source(docs2, order, occ2) = Source(docs, order, occ)
<1>1. \A i \in DOMAIN order : order[i] \in Range(order)
  BY DEF Range
<1>2. Showing(docs2, order, occ2.path) = Showing(docs, order, occ.path)
  BY <1>1 DEF Showing
<1> QED BY <1>2 DEF Source

----------------------------------------------------------------------------
(* One assembly follows.                                                   *)

(* What following leaves alone: a link stays, and an occurrence that does  *)
(* not get one shows what it showed.                                       *)
KeepsOcc(old, new) ==
  /\ new.path = old.path
  /\ old.link # None => new.link = old.link
  /\ new.link = None => new.shape = old.shape

KeepsLinks(old, new) ==
  /\ DOMAIN new = DOMAIN old
  /\ \A s \in DOMAIN old :
       /\ new[s].path = old[s].path
       /\ DOMAIN new[s].occs = DOMAIN old[s].occs
       /\ \A o \in DOMAIN old[s].occs :
            KeepsOcc(old[s].occs[o], new[s].occs[o])

LEMMA KeepsReflexive == ASSUME NEW ds PROVE KeepsLinks(ds, ds)
  BY DEF KeepsLinks, KeepsOcc

LEMMA KeepsTransitive ==
  ASSUME NEW a, NEW b, NEW c, KeepsLinks(a, b), KeepsLinks(b, c)
  PROVE  KeepsLinks(a, c)
<1>1. ASSUME NEW s \in DOMAIN a
      PROVE  /\ c[s].path = a[s].path
             /\ DOMAIN c[s].occs = DOMAIN a[s].occs
             /\ \A o \in DOMAIN a[s].occs :
                  KeepsOcc(a[s].occs[o], c[s].occs[o])
  <2>1. s \in DOMAIN b
    BY DEF KeepsLinks
  <2>2. /\ b[s].path = a[s].path /\ c[s].path = b[s].path
        /\ DOMAIN b[s].occs = DOMAIN a[s].occs
        /\ DOMAIN c[s].occs = DOMAIN b[s].occs
        /\ \A o \in DOMAIN a[s].occs : KeepsOcc(a[s].occs[o], b[s].occs[o])
        /\ \A o \in DOMAIN b[s].occs : KeepsOcc(b[s].occs[o], c[s].occs[o])
    BY <2>1 DEF KeepsLinks
  <2>3. ASSUME NEW o \in DOMAIN a[s].occs
        PROVE  KeepsOcc(a[s].occs[o], c[s].occs[o])
    <3>1. /\ KeepsOcc(a[s].occs[o], b[s].occs[o])
          /\ KeepsOcc(b[s].occs[o], c[s].occs[o])
      BY <2>2
    <3> QED BY <3>1 DEF KeepsOcc
  <2> QED BY <2>2, <2>3
<1> QED BY <1>1 DEF KeepsLinks

(* The source of the occurrence o of y.                                    *)
Of(docs, order, y, o) == Source(docs, order, docs[y].occs[o])

(* After x has followed nothing of it is stale; of another tab, what was   *)
(* stale is, and what shows x may be, if x was.                            *)
FollowedBy(ds, new, order, S, x) ==
  /\ KeepsLinks(ds, new)
  /\ Stale(new, order, x) = {}
  /\ Stale(ds, order, x) = {} => new = ds
  /\ \A o \in Stale(ds, order, x) :
       /\ o \in DOMAIN new[x].occs /\ Of(ds, order, x, o) \in S
       /\ new[x].occs[o].link = Of(ds, order, x, o)
  /\ \A y \in S \ {x} : \A o \in Stale(new, order, y) :
       /\ Of(new, order, y, o) = Of(ds, order, y, o)
       /\ o \in Stale(ds, order, y) \/ Of(ds, order, y, o) = x

(* The occurrences of x when it has followed.                              *)
Caught(ds, order, x) ==
  [o \in DOMAIN ds[x].occs |->
     IF o \in Stale(ds, order, x)
       THEN LinkTo(ds, Of(ds, order, x, o), ds[x].occs[o])
       ELSE ds[x].occs[o]]

LEMMA StaleIs ==
  ASSUME NEW ds, NEW order, NEW x, NEW o
  PROVE  o \in Stale(ds, order, x) <=>
           /\ o \in DOMAIN ds[x].occs
           /\ Of(ds, order, x, o) # None /\ Of(ds, order, x, o) # x
           /\ ds[Of(ds, order, x, o)].shape # {}
           /\ \/ ds[x].occs[o].link # Of(ds, order, x, o)
              \/ ~ds[x].occs[o].same
  BY Zenon DEF Stale, Of

LEMMA LinkToIs ==
  ASSUME NEW occ \in Occurrence, NEW docs, NEW s \in Session,
         docs[s].shape \in Shape
  PROVE  /\ LinkTo(docs, s, occ) \in Occurrence
         /\ LinkTo(docs, s, occ).path = occ.path
         /\ LinkTo(docs, s, occ).link = s
         /\ LinkTo(docs, s, occ).same
         /\ LinkTo(docs, s, occ).shape = docs[s].shape
<1> DEFINE shape == docs[s].shape
<1>1. LinkTo(docs, s, occ)
        = [occ EXCEPT !.link = s, !.same = TRUE, !.shape = shape]
  BY DEF LinkTo
<1> HIDE DEF shape
<1>2. shape \in Shape
  BY DEF shape
<1> DEFINE new == LinkTo(docs, s, occ)
<1>3. /\ new \in Occurrence /\ new.path = occ.path /\ new.link = s
      /\ new.same = TRUE /\ new.shape = shape
  BY <1>1, <1>2 DEF Occurrence
<1> HIDE DEF new
<1> QED BY <1>3 DEF shape, new

LEMMA CaughtIs ==
  ASSUME NEW S \in SUBSET Session, NEW order \in Seq(S), Range(order) = S,
         NEW ds, DocsOK(ds, S), NEW x \in S
  PROVE  LET occs == Caught(ds, order, x)
             old  == ds[x].occs
             of(o) == Of(ds, order, x, o)
         IN  /\ occs \in Occurrences /\ DOMAIN occs = DOMAIN old
             /\ \A o \in DOMAIN old : occs[o].path = old[o].path
             /\ \A o \in Stale(ds, order, x) :
                  /\ of(o) \in S \ {x} /\ occs[o].link = of(o)
                  /\ occs[o].same /\ occs[o].shape = ds[of(o)].shape
             /\ \A o \in DOMAIN old :
                  o \notin Stale(ds, order, x) => occs[o] = old[o]
<1> DEFINE occs == Caught(ds, order, x)
           old == ds[x].occs
           of(o) == Of(ds, order, x, o)
           stale == Stale(ds, order, x)
<1>1. /\ ds \in [S -> Document] /\ old \in Occurrences
      /\ DOMAIN old \in SUBSET Name
      /\ \A o \in DOMAIN old : old[o] \in Occurrence
      /\ \A s \in S : ds[s].shape \in Shape
      /\ \A o \in DOMAIN old : old[o].link \in S \cup {None}
  BY DocumentParts DEF DocsOK, DocFits
<1>2. \A o \in stale : of(o) \in S \ {x} /\ o \in DOMAIN old
  <2> SUFFICES ASSUME NEW o \in stale
      PROVE of(o) \in S \ {x} /\ o \in DOMAIN old
    OBVIOUS
  <2>1. of(o) # None /\ of(o) # x /\ o \in DOMAIN old
    BY StaleIs
  <2>2. of(o) \in S \cup {None}
    BY <1>1, <2>1, SourceIs DEF Of
  <2> QED BY <2>1, <2>2
<1>3. \A o \in DOMAIN old :
        occs[o] = IF o \in stale THEN LinkTo(ds, of(o), old[o]) ELSE old[o]
  BY DEF Caught
<1>4. DOMAIN occs = DOMAIN old /\ occs = [o \in DOMAIN old |-> occs[o]]
  BY DEF Caught
<1> HIDE DEF occs, stale, of
<1>5. ASSUME NEW o \in stale
      PROVE  /\ occs[o] \in Occurrence /\ occs[o].path = old[o].path
             /\ occs[o].link = of(o) /\ occs[o].same
             /\ occs[o].shape = ds[of(o)].shape
  <2>1. /\ occs[o] = LinkTo(ds, of(o), old[o]) /\ old[o] \in Occurrence
        /\ of(o) \in Session /\ ds[of(o)].shape \in Shape
    BY <1>1, <1>2, <1>3
  <2> HIDE DEF old
  <2> QED BY <2>1, LinkToIs
<1>6. \A o \in DOMAIN old : o \notin stale => occs[o] = old[o]
  BY <1>3
<1> HIDE DEF old
<1>7. \A o \in DOMAIN old : occs[o] \in Occurrence /\ occs[o].path = old[o].path
  BY <1>1, <1>5, <1>6
<1>8. occs \in Occurrences
  BY <1>1, <1>4, <1>7, OccursType
<1> QED BY <1>2, <1>4, <1>5, <1>6, <1>7, <1>8 DEF occs, old, stale, of

LEMMA SyncOneFollows ==
  ASSUME NEW S \in SUBSET Session, NEW order \in Seq(S), Range(order) = S,
         NEW ds, DocsOK(ds, S), NEW x \in S
  PROVE  /\ DocsOK(SyncOne(ds, order, x), S)
         /\ FollowedBy(ds, SyncOne(ds, order, x), order, S, x)
<1> DEFINE new == SyncOne(ds, order, x)
           stale == Stale(ds, order, x)
           occs == Caught(ds, order, x)
           old == ds[x].occs
<1>1. /\ ds \in [S -> Document] /\ None \notin S
      /\ \A s \in S : DocFits(ds[s], ds, S, s)
  BY LinksAssumption DEF DocsOK
<1>2. CASE stale = {}
  <2>1. new = ds
    BY <1>2 DEF SyncOne
  <2>2. \A y, o : o \in Stale(ds, order, y) => o \in Stale(ds, order, y)
    OBVIOUS
  <2> QED BY <1>2, <2>1, KeepsReflexive DEF FollowedBy
<1>3. CASE stale # {}
  <2> DEFINE b == ds[x].dirty \/ LinkedToUnsaved(ds, occs)
             d == [Rebuilt(ds[x], occs) EXCEPT !.dirty = b]
  <2>1. /\ occs \in Occurrences /\ DOMAIN occs = DOMAIN old
        /\ \A o \in DOMAIN old : occs[o].path = old[o].path
        /\ \A o \in stale :
             /\ Of(ds, order, x, o) \in S \ {x}
             /\ occs[o].link = Of(ds, order, x, o)
             /\ occs[o].same
             /\ occs[o].shape = ds[Of(ds, order, x, o)].shape
        /\ \A o \in DOMAIN old : o \notin stale => occs[o] = old[o]
    BY <1>1, CaughtIs
  <2>2. new = Put(ds, x, d)
    <3>1. new = Put(ds, x, [Rebuilt(ds[x], occs) EXCEPT
                              !.dirty = @ \/ LinkedToUnsaved(ds, occs)])
      BY <1>3, Zenon DEF SyncOne, Caught, Of
    <3>2. Rebuilt(ds[x], occs).dirty = ds[x].dirty
      BY <1>1 DEF Rebuilt, Document
    <3>3. [Rebuilt(ds[x], occs) EXCEPT !.dirty = @ \/ LinkedToUnsaved(ds, occs)]
            = [Rebuilt(ds[x], occs) EXCEPT
                 !.dirty = ds[x].dirty \/ LinkedToUnsaved(ds, occs)]
      BY <3>2
    <3> QED BY <3>1, <3>3
  <2>3. /\ d \in Document /\ d.kind = ds[x].kind /\ d.path = ds[x].path
        /\ d.occs = occs /\ d.shape = Compose(occs)
    <3>1. b \in BOOLEAN
      BY Zenon
    <3>2. Compose(occs) \in Shape
      BY <2>1, ComposeType
    <3>3. ds[x] \in Document
      BY <1>1
    <3> HIDE DEF b, occs
    <3> QED BY <2>1, <3>1, <3>2, <3>3 DEF Rebuilt, Document
  <2> HIDE DEF d, occs, new
  <2>4. DocFits(d, ds, S, x)
    <3>1. DocFits(ds[x], ds, S, x)
      BY <1>1
    <3>2. d.kind = "part" => DOMAIN d.occs = {}
      BY <2>1, <2>3, <3>1 DEF DocFits
    <3>3. ASSUME NEW o \in DOMAIN occs
          PROVE  /\ occs[o].link \in S \cup {None}
                 /\ occs[o].same /\ occs[o].link # x =>
                      /\ occs[o].link \in S
                      /\ occs[o].shape = ds[occs[o].link].shape
      <4>1. CASE o \in stale
        BY <2>1, <4>1
      <4>2. CASE o \notin stale
        BY <2>1, <3>1, <3>3, <4>2 DEF DocFits
      <4> QED BY <4>1, <4>2
    <3> QED BY <2>3, <3>2, <3>3 DEF DocFits
  <2>5. DocsOK(new, S)
    BY <2>2, <2>3, <2>4, PutOK
  <2>6. /\ DOMAIN new = S /\ new[x] = d
        /\ \A s \in S \ {x} :
             /\ new[s].path = ds[s].path /\ new[s].shape = ds[s].shape
             /\ new[s].occs = Parted(ds[s].occs, {x})
    <3>1. ShownBy(ds, Put(ds, x, d), S, x, d)
      BY Zenon, <1>1, PutIs
    <3>2. ShownBy(ds, new, S, x, d)
      BY <2>2, <3>1
    <3> QED BY Zenon, <3>2 DEF ShownBy
  <2>7. ASSUME NEW s \in S \ {x}
        PROVE  /\ DOMAIN new[s].occs = DOMAIN ds[s].occs
               /\ \A o \in DOMAIN ds[s].occs :
                    /\ new[s].occs[o].link = ds[s].occs[o].link
                    /\ new[s].occs[o].path = ds[s].occs[o].path
                    /\ new[s].occs[o].shape = ds[s].occs[o].shape
                    /\ new[s].occs[o].same <=>
                         ds[s].occs[o].same /\ ds[s].occs[o].link # x
    <3>1. ds[s].occs \in Occurrences
      BY <1>1, DocumentParts
    <3> QED BY <2>6, <3>1, PartedIs
  <2>8. \A s \in S : new[s].path = ds[s].path
    BY <2>3, <2>6
  <2>9. \A o \in stale : o \in DOMAIN old
    BY StaleIs
  <2>10. ASSUME NEW o \in DOMAIN old, o \notin stale
         PROVE  Of(new, order, x, o) = Of(ds, order, x, o)
    <3>1. new[x].occs[o] = old[o]
      BY <2>1, <2>3, <2>6, <2>10
    <3>2. \A s \in Range(order) : new[s].path = ds[s].path
      BY <2>8
    <3>3. /\ new[x].occs[o].path = ds[x].occs[o].path
          /\ new[x].occs[o].link = ds[x].occs[o].link
      BY <3>1
    <3>4. Source(new, order, new[x].occs[o])
            = Source(ds, order, ds[x].occs[o])
      BY <3>2, <3>3, SourceSame
    <3> QED BY Zenon, <3>4 DEF Of
  <2>11. KeepsLinks(ds, new)
    <3>1. ASSUME NEW o \in DOMAIN old
          PROVE  KeepsOcc(old[o], occs[o])
      <4>1. CASE o \in stale
        <5>1. old[o].link # None => Of(ds, order, x, o) = old[o].link
          BY SourceIs DEF Of
        <5>2. occs[o].link # None
          BY <1>1, <2>1, <4>1
        <5> QED BY <2>1, <4>1, <5>1, <5>2 DEF KeepsOcc
      <4>2. CASE o \notin stale
        BY <2>1, <4>2 DEF KeepsOcc
      <4> QED BY <4>1, <4>2
    <3>2. DOMAIN new = DOMAIN ds
      BY <1>1, <2>6
    <3>3. ASSUME NEW s \in S
          PROVE  /\ new[s].path = ds[s].path
                 /\ DOMAIN new[s].occs = DOMAIN ds[s].occs
                 /\ \A o \in DOMAIN ds[s].occs :
                      KeepsOcc(ds[s].occs[o], new[s].occs[o])
      <4>1. CASE s = x
        BY <2>1, <2>3, <2>6, <3>1, <4>1
      <4>2. CASE s # x
        BY <2>6, <2>7, <4>2 DEF KeepsOcc
      <4> QED BY <4>1, <4>2
    <3> QED BY <1>1, <3>2, <3>3 DEF KeepsLinks
  <2>12. Stale(new, order, x) = {}
    <3> SUFFICES ASSUME NEW o \in Stale(new, order, x) PROVE FALSE
      OBVIOUS
    <3>1. /\ o \in DOMAIN occs
          /\ Of(new, order, x, o) # None /\ Of(new, order, x, o) # x
          /\ new[Of(new, order, x, o)].shape # {}
          /\ occs[o].link # Of(new, order, x, o) \/ ~occs[o].same
      BY <2>3, <2>6, StaleIs
    <3>2. CASE o \in stale
      <4>1. Of(new, order, x, o) = occs[o].link
        <5>1. occs[o].link # None
          BY <1>1, <2>1, <3>2
        <5> QED BY <2>3, <2>6, <5>1, SourceIs DEF Of
      <4> QED BY <2>1, <3>1, <3>2, <4>1
    <3>3. CASE o \notin stale
      <4>1. Of(new, order, x, o) = Of(ds, order, x, o) /\ occs[o] = old[o]
        BY <2>1, <2>10, <3>1, <3>3
      <4>2. Of(ds, order, x, o) \in S
        <5>1. old[o].link \in S \cup {None}
          BY <1>1, <2>1, <3>1 DEF DocFits
        <5> QED BY <3>1, <4>1, <5>1, SourceIs DEF Of
      <4>3. new[Of(new, order, x, o)].shape = ds[Of(ds, order, x, o)].shape
        BY <2>6, <3>1, <4>1, <4>2
      <4> QED BY <2>1, <3>1, <3>3, <4>1, <4>3, StaleIs
    <3> QED BY <3>2, <3>3
  <2>13. ASSUME NEW y \in S \ {x}, NEW o \in Stale(new, order, y)
         PROVE  /\ Of(new, order, y, o) = Of(ds, order, y, o)
                /\ o \in Stale(ds, order, y) \/ Of(ds, order, y, o) = x
    <3>1. /\ o \in DOMAIN new[y].occs
          /\ Of(new, order, y, o) # None /\ Of(new, order, y, o) # y
          /\ new[Of(new, order, y, o)].shape # {}
          /\ new[y].occs[o].link # Of(new, order, y, o) \/ ~new[y].occs[o].same
      BY <2>13, StaleIs
    <3>2. o \in DOMAIN ds[y].occs
      BY <2>7, <3>1
    <3>3. Of(new, order, y, o) = Of(ds, order, y, o)
      <4>1. /\ new[y].occs[o].path = ds[y].occs[o].path
            /\ new[y].occs[o].link = ds[y].occs[o].link
        BY <2>7, <3>2
      <4>2. \A s \in Range(order) : new[s].path = ds[s].path
        BY <2>8
      <4>3. Source(new, order, new[y].occs[o])
              = Source(ds, order, ds[y].occs[o])
        BY <4>1, <4>2, SourceSame
      <4> QED BY Zenon, <4>3 DEF Of
    <3>4. Of(ds, order, y, o) \in S
      <4>1. ds[y].occs[o].link \in S \cup {None}
        BY <1>1, <3>2 DEF DocFits
      <4> QED BY <3>1, <3>3, <4>1, SourceIs DEF Of
    <3>5. ASSUME Of(ds, order, y, o) # x PROVE o \in Stale(ds, order, y)
      <4>1. ds[Of(ds, order, y, o)].shape # {}
        BY <2>6, <3>1, <3>3, <3>4, <3>5
      <4>2. ds[y].occs[o].link # Of(ds, order, y, o) \/ ~ds[y].occs[o].same
        <5>1. CASE new[y].occs[o].link # Of(new, order, y, o)
          BY <2>7, <3>2, <3>3, <5>1
        <5>2. CASE ~new[y].occs[o].same
          <6>1. ~ds[y].occs[o].same \/ ds[y].occs[o].link = x
            BY <2>7, <3>2, <5>2
          <6> QED BY <3>5, <6>1
        <5> QED BY <3>1, <5>1, <5>2
      <4> QED BY <3>1, <3>2, <3>3, <4>1, <4>2, StaleIs
    <3> QED BY <3>3, <3>5
  <2>14. \A o \in stale : /\ o \in DOMAIN new[x].occs
                          /\ Of(ds, order, x, o) \in S
                          /\ new[x].occs[o].link = Of(ds, order, x, o)
    BY <2>1, <2>3, <2>6, <2>9
  <2> QED BY <1>3, <2>5, <2>11, <2>12, <2>13, <2>14 DEF FollowedBy, new
<1> QED BY <1>2, <1>3

----------------------------------------------------------------------------
(* All assemblies follow, pass after pass.                                 *)

LEMMA KeepsAlong ==
  ASSUME NEW n \in Nat, NEW a, \A i \in 1..n : KeepsLinks(a[i - 1], a[i])
  PROVE  \A i \in 0..n : KeepsLinks(a[i], a[n])
<1> SUFFICES ASSUME NEW i \in 0..n PROVE KeepsLinks(a[i], a[n])
  OBVIOUS
<1> DEFINE T == {j \in 0..n : j < i \/ KeepsLinks(a[i], a[j])}
<1>1. 0 \in T
  <2>1. CASE i = 0
    BY <2>1, KeepsReflexive
  <2>2. CASE i # 0
    BY <2>2
  <2> QED BY <2>1, <2>2
<1>2. ASSUME NEW j \in 1..n, j - 1 \in T PROVE j \in T
  <2>1. CASE j < i
    BY <2>1
  <2>2. CASE j = i
    BY <2>2, KeepsReflexive
  <2>3. CASE j > i
    <3>1. KeepsLinks(a[i], a[j - 1])
      BY <1>2, <2>3
    <3>2. KeepsLinks(a[j - 1], a[j])
      OBVIOUS
    <3>3. KeepsLinks(a[i], a[j])
      BY <3>1, <3>2, KeepsTransitive
    <3> QED BY <3>3
  <2> QED BY <2>1, <2>2, <2>3
<1>3. 0..n \subseteq T
  <2> HIDE DEF T
  <2> QED BY <1>1, <1>2, InductionTo
<1> QED BY <1>3

(* a has the documents after each tab of a pass.                           *)
PassSteps(docs, order, S, a) ==
  /\ a[0] = docs
  /\ \A i \in 0..Len(order) : DocsOK(a[i], S)
  /\ \A i \in 1..Len(order) : a[i] = SyncOne(a[i - 1], order, order[i])
  /\ Pass(docs, order) = a[Len(order)]

PassedIs(docs, order, a) ==
  a = [i \in 0..Len(order) |->
         IF i = 0 THEN docs ELSE SyncOne(a[i - 1], order, order[i])]

LEMMA PassRuns ==
  ASSUME NEW S \in SUBSET Session, NEW order \in Seq(S), Range(order) = S,
         NEW docs, DocsOK(docs, S)
  PROVE  \E a : PassSteps(docs, order, S, a)
<1> DEFINE n == Len(order)
           V == {ds \in [S -> Document] : DocsOK(ds, S)}
           h == [i \in 1..n |-> [v \in V |-> SyncOne(v, order, order[i])]]
<1>1. n \in Nat /\ \A i \in 1..n : order[i] \in S
  OBVIOUS
<1>2. docs \in V /\ \A v \in V : DocsOK(v, S)
  BY DEF DocsOK
<1>3. \A v \in V, i \in 1..n : SyncOne(v, order, order[i]) \in V
  <2> SUFFICES ASSUME NEW v \in V, NEW i \in 1..n
               PROVE  SyncOne(v, order, order[i]) \in V
    OBVIOUS
  <2>1. order[i] \in S /\ DocsOK(v, S)
    BY <1>1
  <2>2. DocsOK(SyncOne(v, order, order[i]), S)
    BY <2>1, SyncOneFollows
  <2> QED BY <2>2 DEF DocsOK
<1> HIDE DEF V, n
<1>4. PICK f \in [0..n -> V] : IteratesTo(f, docs, h, n)
  <2>1. h \in [1..n -> [V -> V]]
    BY <1>3
  <2> HIDE DEF h
  <2> QED BY <1>1, <1>2, <2>1, RecursionOver
<1>5. PassedIs(docs, order, f)
  <2>1. f = [i \in 0..n |-> IF i = 0 THEN docs ELSE h[i][f[i - 1]]]
    BY <1>4 DEF IteratesTo
  <2>2. ASSUME NEW i \in 0..n
        PROVE  f[i] = IF i = 0 THEN docs
                      ELSE SyncOne(f[i - 1], order, order[i])
    <3>1. CASE i = 0
      BY <2>1, <3>1
    <3>2. CASE i # 0
      <4>1. i \in 1..n /\ f[i - 1] \in V
        BY <1>1, <1>4, <3>2
      <4>2. h[i][f[i - 1]] = SyncOne(f[i - 1], order, order[i])
        BY <4>1
      <4> HIDE DEF h
      <4>3. f[i] = h[i][f[i - 1]]
        BY <2>1, <3>2
      <4> QED BY <3>2, <4>2, <4>3
    <3> QED BY <3>1, <3>2
  <2> HIDE DEF h
  <2>3. f = [i \in 0..n |-> IF i = 0 THEN docs
                            ELSE SyncOne(f[i - 1], order, order[i])]
    BY <1>4, <2>2
  <2> QED BY <2>3 DEF PassedIs, n
<1> DEFINE those(a) == PassedIs(docs, order, a)
           it == CHOOSE a : those(a)
<1>6. those(it)
  <2> HIDE DEF those
  <2> QED BY <1>5 DEF those
<1>7. Pass(docs, order) = it[n]
  BY Zenon DEF Pass, PassedIs, n
<1> HIDE DEF it
<1>8. it = [i \in 0..n |-> IF i = 0 THEN docs
                           ELSE SyncOne(it[i - 1], order, order[i])]
  BY <1>6 DEF PassedIs, n
<1> HIDE DEF those, h
<1>9. it[0] = docs
        /\ \A i \in 1..n : it[i] = SyncOne(it[i - 1], order, order[i])
  <2>1. 0 \in 0..n /\ \A i \in 1..n : i \in 0..n /\ i # 0
    BY <1>1
  <2> QED BY <1>8, <2>1
<1>10. \A i \in 0..n : it[i] \in V
  <2> DEFINE T == {i \in 0..n : it[i] \in V}
  <2>1. 0 \in T
    BY <1>1, <1>2, <1>9
  <2>2. ASSUME NEW i \in 1..n, i - 1 \in T PROVE i \in T
    <3>1. it[i - 1] \in V
      BY <2>2
    <3>2. SyncOne(it[i - 1], order, order[i]) \in V
      BY <1>3, <3>1
    <3>3. it[i] \in V
      BY <1>9, <3>2
    <3> QED BY <1>1, <3>3
  <2>3. 0..n \subseteq T
    <3> HIDE DEF T
    <3> QED BY <1>1, <2>1, <2>2, InductionTo
  <2> QED BY <2>3
<1>11. \A i \in 0..n : DocsOK(it[i], S)
  BY <1>2, <1>10
<1> QED BY <1>7, <1>9, <1>11 DEF PassSteps, n

(* What a pass does to each tab, and in the end.                           *)
LEMMA PassKeepsLinks ==
  ASSUME NEW S \in SUBSET Session, NEW order \in Seq(S), Range(order) = S,
         NEW docs, DocsOK(docs, S), NEW a, PassSteps(docs, order, S, a)
  PROVE  /\ \A i \in 1..Len(order) :
              FollowedBy(a[i - 1], a[i], order, S, order[i])
         /\ \A i \in 0..Len(order) : KeepsLinks(a[i], Pass(docs, order))
<1>1. Len(order) \in Nat /\ \A i \in 1..Len(order) : order[i] \in S
  OBVIOUS
<1>2. ASSUME NEW i \in 1..Len(order)
      PROVE  FollowedBy(a[i - 1], a[i], order, S, order[i])
  <2>1. i - 1 \in 0..Len(order) /\ order[i] \in S
    BY <1>1
  <2>2. DocsOK(a[i - 1], S)
    BY <2>1 DEF PassSteps
  <2>3. FollowedBy(a[i - 1], SyncOne(a[i - 1], order, order[i]), order, S,
                   order[i])
    BY <2>1, <2>2, SyncOneFollows
  <2>4. a[i] = SyncOne(a[i - 1], order, order[i])
    BY DEF PassSteps
  <2> QED BY <2>3, <2>4
<1>3. \A i \in 1..Len(order) : KeepsLinks(a[i - 1], a[i])
  BY <1>2 DEF FollowedBy
<1>4. \A i \in 0..Len(order) : KeepsLinks(a[i], a[Len(order)])
  BY <1>1, <1>3, KeepsAlong
<1> QED BY <1>2, <1>4 DEF PassSteps

(* Only occurrences that show a tab of R are stale.                        *)
StaleIn(ds, order, S, R) ==
  \A y \in S : \A o \in Stale(ds, order, y) : Of(ds, order, y, o) \in R

(* After a pass the tabs that stale occurrences show have links to the tabs*)
(* that stale occurrences showed before it.                                *)
LEMMA PassWave ==
  ASSUME NEW S \in SUBSET Session, NEW order \in Seq(S), Range(order) = S,
         NEW docs, DocsOK(docs, S), NEW F, KeepsLinks(Pass(docs, order), F),
         NEW R, NEW Q \in SUBSET R,
         \A s \in S : LinkedFrom(F, {s}) \cap R # {} => s \in Q,
         StaleIn(docs, order, S, R)
  PROVE  StaleIn(Pass(docs, order), order, S, Q)
<1>1. PICK a : PassSteps(docs, order, S, a)
  BY PassRuns
<1> DEFINE n == Len(order)
           done(i) == {order[j] : j \in 1..i}
           Wave(i) ==
             \A y \in S : \A o \in Stale(a[i], order, y) :
               /\ Of(a[i], order, y, o) \in R
               /\ y \in done(i) => Of(a[i], order, y, o) \in Q
           T == {i \in 0..n : Wave(i)}
<1>2. /\ n \in Nat /\ a[0] = docs /\ Pass(docs, order) = a[n]
      /\ \A i \in 1..n : FollowedBy(a[i - 1], a[i], order, S, order[i])
      /\ \A i \in 0..n : KeepsLinks(a[i], F)
      /\ \A i \in 0..n : DocsOK(a[i], S)
  <2>1. /\ n \in Nat /\ a[0] = docs /\ Pass(docs, order) = a[n]
        /\ \A i \in 0..n : DocsOK(a[i], S)
    BY <1>1 DEF PassSteps
  <2>2. /\ \A i \in 1..n : FollowedBy(a[i - 1], a[i], order, S, order[i])
        /\ \A i \in 0..n : KeepsLinks(a[i], Pass(docs, order))
    BY <1>1, PassKeepsLinks
  <2>3. \A i \in 0..n : KeepsLinks(a[i], F)
    BY <2>2, KeepsTransitive
  <2> QED BY <2>1, <2>2, <2>3
<1> HIDE DEF n
<1>3. 0 \in T
  <2>1. done(0) = {}
    OBVIOUS
  <2>2. Wave(0)
    BY <1>2, <2>1 DEF StaleIn
  <2> QED BY <1>2, <2>2
<1>4. ASSUME NEW i \in 1..n, i - 1 \in T PROVE i \in T
  <2> DEFINE x == order[i]
             old == a[i - 1]
             new == a[i]
  <2>1. i - 1 \in 0..n /\ i \in 0..n /\ i \in Nat
    BY <1>2
  <2>2. FollowedBy(old, new, order, S, x) /\ KeepsLinks(new, F) /\ x \in S
    <3>1. x \in Range(order)
      BY <1>2 DEF Range, n
    <3> QED BY <1>2, <2>1, <3>1
  <2>3. \A y \in S : \A o \in Stale(old, order, y) :
          /\ Of(old, order, y, o) \in R
          /\ y \in done(i - 1) => Of(old, order, y, o) \in Q
    BY <1>4
  <2>4. done(i) \subseteq done(i - 1) \cup {x}
    <3> SUFFICES ASSUME NEW j \in 1..i, j # i PROVE order[j] \in done(i - 1)
      OBVIOUS
    <3>1. j \in 1..(i - 1)
      BY <2>1
    <3> QED BY <3>1
  <2> HIDE DEF done
  <2>5. ASSUME NEW o \in Stale(old, order, x) PROVE x \in Q
    <3> DEFINE t == Of(old, order, x, o)
    <3>1. t \in R /\ t # None
      BY <2>2, <2>3, StaleIs
    <3>2. o \in DOMAIN new[x].occs /\ new[x].occs[o].link = t
      BY <2>2, <2>5 DEF FollowedBy
    <3> HIDE DEF t
    <3>3. x \in DOMAIN new
      <4>1. DocsOK(new, S)
        BY <1>2, <2>1
      <4> QED BY <2>2, <4>1 DEF DocsOK
    <3>4. o \in DOMAIN F[x].occs /\ F[x].occs[o].link = t
      BY <2>2, <3>1, <3>2, <3>3 DEF KeepsLinks, KeepsOcc
    <3>5. t \in LinkedFrom(F, {x})
      BY <3>1, <3>4, LinkedFromIs
    <3> QED BY <2>2, <3>1, <3>5
  <2>6. ASSUME NEW y \in S, NEW o \in Stale(new, order, y)
        PROVE  /\ Of(new, order, y, o) \in R
               /\ y \in done(i) => Of(new, order, y, o) \in Q
    <3>1. CASE y = x
      BY <2>2, <2>6, <3>1 DEF FollowedBy
    <3>2. CASE y # x
      <4>1. /\ Of(new, order, y, o) = Of(old, order, y, o)
            /\ o \in Stale(old, order, y) \/ Of(old, order, y, o) = x
        BY <2>2, <2>6, <3>2 DEF FollowedBy
      <4>2. CASE o \in Stale(old, order, y)
        BY <2>3, <2>4, <3>2, <4>1, <4>2
      <4>3. CASE o \notin Stale(old, order, y)
        <5>1. Stale(old, order, x) # {}
          <6> SUFFICES ASSUME Stale(old, order, x) = {} PROVE FALSE
            OBVIOUS
          <6>1. new = old
            BY <2>2 DEF FollowedBy
          <6> QED BY <2>6, <4>3, <6>1
        <5>2. x \in Q
          BY <2>5, <5>1
        <5> QED BY <4>1, <4>3, <5>2
      <4> QED BY <4>2, <4>3
    <3> QED BY <3>1, <3>2
  <2>7. Wave(i)
    BY <2>6
  <2> HIDE DEF Wave
  <2> QED BY <2>1, <2>7
<1>5. n \in T
  <2>1. 0..n \subseteq T
    <3> HIDE DEF T
    <3> QED BY <1>2, <1>3, <1>4, InductionTo
  <2> HIDE DEF T
  <2> QED BY <1>2, <2>1
<1>6. \A y \in S : y \in done(n)
  <2> SUFFICES ASSUME NEW y \in S PROVE y \in done(n)
    OBVIOUS
  <2>1. PICK j \in DOMAIN order : order[j] = y
    BY DEF Range
  <2>2. j \in 1..n
    BY DEF n
  <2> QED BY <2>1, <2>2
<1> HIDE DEF done
<1>7. Wave(n)
  BY <1>5
<1> QED BY <1>2, <1>6, <1>7 DEF StaleIn

SyncIs(docs, order, a) ==
  a = [i \in 0..(Len(order) + 1) |->
         IF i = 0 THEN docs ELSE Pass(a[i - 1], order)]

LEMMA PassOK ==
  ASSUME NEW S \in SUBSET Session, NEW order \in Seq(S), Range(order) = S,
         NEW docs, DocsOK(docs, S)
  PROVE  DocsOK(Pass(docs, order), S) /\ KeepsLinks(docs, Pass(docs, order))
<1>1. PICK a : PassSteps(docs, order, S, a)
  BY PassRuns
<1>2. Len(order) \in 0..Len(order) /\ 0 \in 0..Len(order)
  OBVIOUS
<1>3. KeepsLinks(a[0], Pass(docs, order))
  BY <1>1, <1>2, PassKeepsLinks
<1> QED BY <1>1, <1>2, <1>3 DEF PassSteps

(* b has the documents after each pass.                                    *)
Syncing(docs, order, S, b) ==
  /\ b[0] = docs
  /\ \A i \in 0..(Len(order) + 1) : DocsOK(b[i], S)
  /\ \A i \in 1..(Len(order) + 1) : b[i] = Pass(b[i - 1], order)
  /\ Sync(docs, order) = b[Len(order) + 1]

LEMMA SyncRuns ==
  ASSUME NEW S \in SUBSET Session, NEW order \in Seq(S), Range(order) = S,
         NEW docs, DocsOK(docs, S)
  PROVE  \E b : Syncing(docs, order, S, b)
<1> DEFINE n == Len(order) + 1
           V == {ds \in [S -> Document] : DocsOK(ds, S)}
           h == [i \in 1..n |-> [v \in V |-> Pass(v, order)]]
<1>1. n \in Nat
  OBVIOUS
<1>2. docs \in V /\ \A v \in V : DocsOK(v, S)
  BY DEF DocsOK
<1>3. \A v \in V : Pass(v, order) \in V
  <2> SUFFICES ASSUME NEW v \in V PROVE Pass(v, order) \in V
    OBVIOUS
  <2>1. DocsOK(Pass(v, order), S)
    BY <1>2, PassOK
  <2> QED BY <2>1 DEF DocsOK
<1> HIDE DEF V, n
<1>4. PICK f \in [0..n -> V] : IteratesTo(f, docs, h, n)
  <2>1. h \in [1..n -> [V -> V]]
    BY <1>3
  <2> HIDE DEF h
  <2> QED BY <1>1, <1>2, <2>1, RecursionOver
<1>5. SyncIs(docs, order, f)
  <2>1. f = [i \in 0..n |-> IF i = 0 THEN docs ELSE h[i][f[i - 1]]]
    BY <1>4 DEF IteratesTo
  <2>2. ASSUME NEW i \in 0..n
        PROVE  f[i] = IF i = 0 THEN docs ELSE Pass(f[i - 1], order)
    <3>1. CASE i = 0
      BY <2>1, <3>1
    <3>2. CASE i # 0
      <4>1. i \in 1..n /\ f[i - 1] \in V
        BY <1>1, <1>4, <3>2
      <4>2. h[i][f[i - 1]] = Pass(f[i - 1], order)
        BY <4>1
      <4> HIDE DEF h
      <4>3. f[i] = h[i][f[i - 1]]
        BY <2>1, <3>2
      <4> QED BY <3>2, <4>2, <4>3
    <3> QED BY <3>1, <3>2
  <2> HIDE DEF h
  <2>3. f = [i \in 0..n |-> IF i = 0 THEN docs ELSE Pass(f[i - 1], order)]
    BY <1>4, <2>2
  <2> QED BY <2>3 DEF SyncIs, n
<1> DEFINE those(a) == SyncIs(docs, order, a)
           it == CHOOSE a : those(a)
<1>6. those(it)
  <2> HIDE DEF those
  <2> QED BY <1>5 DEF those
<1>7. Sync(docs, order) = it[n]
  BY Zenon DEF Sync, SyncIs, n
<1> HIDE DEF it
<1>8. it = [i \in 0..n |-> IF i = 0 THEN docs ELSE Pass(it[i - 1], order)]
  BY <1>6 DEF SyncIs, n
<1> HIDE DEF those, h
<1>9. it[0] = docs /\ \A i \in 1..n : it[i] = Pass(it[i - 1], order)
  <2>1. 0 \in 0..n /\ \A i \in 1..n : i \in 0..n /\ i # 0
    BY <1>1
  <2> QED BY <1>8, <2>1
<1>10. \A i \in 0..n : it[i] \in V
  <2> DEFINE T == {i \in 0..n : it[i] \in V}
  <2>1. 0 \in T
    BY <1>1, <1>2, <1>9
  <2>2. ASSUME NEW i \in 1..n, i - 1 \in T PROVE i \in T
    BY <1>1, <1>3, <1>9, <2>2
  <2>3. 0..n \subseteq T
    <3> HIDE DEF T
    <3> QED BY <1>1, <2>1, <2>2, InductionTo
  <2> QED BY <2>3
<1>11. \A i \in 0..n : DocsOK(it[i], S)
  BY <1>2, <1>10
<1> QED BY <1>7, <1>9, <1>11 DEF Syncing, n

LEMMA DocsLink ==
  ASSUME NEW S, NEW ds, DocsOK(ds, S)
  PROVE  LinksIn(ds, S)
  BY DEF DocsOK, DocFits, LinksIn

(* The passes keep every link there is along the way.                      *)
LEMMA SyncLeads ==
  ASSUME NEW S \in SUBSET Session, NEW order \in Seq(S), Range(order) = S,
         NEW docs, DocsOK(docs, S)
  PROVE  \E b : /\ Syncing(docs, order, S, b)
               /\ \A i \in 0..(Len(order) + 1) :
                    KeepsLinks(b[i], Sync(docs, order))
<1> DEFINE m == Len(order) + 1
           F == Sync(docs, order)
<1>1. PICK b : Syncing(docs, order, S, b)
  BY SyncRuns
<1>2. /\ m \in Nat /\ F = b[m] /\ \A i \in 0..m : DocsOK(b[i], S)
      /\ \A i \in 1..m : b[i] = Pass(b[i - 1], order)
  BY <1>1 DEF Syncing
<1> HIDE DEF F
<1>3. ASSUME NEW i \in 1..m PROVE KeepsLinks(b[i - 1], b[i])
  <2>1. i - 1 \in 0..m
    BY <1>2
  <2>2. DocsOK(b[i - 1], S) /\ b[i] = Pass(b[i - 1], order)
    BY <1>2, <2>1
  <2> QED BY <2>2, PassOK
<1>4. \A i \in 0..m : KeepsLinks(b[i], F)
  <2> HIDE DEF m
  <2> QED BY <1>2, <1>3, KeepsAlong
<1> QED BY <1>1, <1>4 DEF F

(* After the passes only occurrences are stale that show a tab from which  *)
(* more links lead on than there are tabs.                                 *)
LEMMA SyncWave ==
  ASSUME NEW S \in SUBSET Session, NEW order \in Seq(S), Range(order) = S,
         NEW docs, DocsOK(docs, S), NEW R,
         Heights(Sync(docs, order), S, R, Len(order) + 1)
  PROVE  StaleIn(Sync(docs, order), order, S, R[Len(order) + 1])
<1> DEFINE n == Len(order)
           m == n + 1
           F == Sync(docs, order)
<1>1. PICK b : /\ Syncing(docs, order, S, b)
              /\ \A i \in 0..m : KeepsLinks(b[i], F)
  BY SyncLeads
<1>2. /\ n \in Nat /\ m \in Nat /\ b[0] = docs /\ F = b[m]
      /\ \A i \in 0..m : DocsOK(b[i], S)
      /\ \A i \in 1..m : b[i] = Pass(b[i - 1], order)
  BY <1>1 DEF Syncing
<1>3. Heights(F, S, R, m)
  OBVIOUS
<1> HIDE DEF F, n
<1>4. \A i \in 0..m : KeepsLinks(b[i], F)
  BY <1>1
<1>5. \A k \in 0..n : R[k + 1] \subseteq R[k]
  BY <1>2, <1>3, HeightsFall
<1> DEFINE T == {i \in 0..m : StaleIn(b[i], order, S, R[i])}
<1>6. 0 \in T
  <2>1. \A x \in S : \A o \in Stale(docs, order, x) :
          Of(docs, order, x, o) \in S \ {x}
    BY CaughtIs
  <2>2. R[0] = S
    BY <1>3 DEF Heights
  <2> QED BY <1>2, <2>1, <2>2 DEF StaleIn
<1>7. ASSUME NEW i \in 1..m, i - 1 \in T PROVE i \in T
  <2> DEFINE P == R[i - 1]
             Q == R[i]
             ds == b[i - 1]
  <2>1. i - 1 \in 0..n /\ i - 1 \in 0..m /\ i - 1 + 1 = i /\ i \in 0..m
    BY <1>2
  <2>2. DocsOK(ds, S) /\ b[i] = Pass(ds, order) /\ StaleIn(ds, order, S, P)
    BY <1>2, <1>7, <2>1
  <2>3. KeepsLinks(Pass(ds, order), F)
    BY <1>4, <2>1, <2>2
  <2>4. Q \in SUBSET P
    BY <1>5, <2>1
  <2>5. \A s \in S : LinkedFrom(F, {s}) \cap P # {} => s \in Q
    BY <1>3 DEF Heights
  <2> HIDE DEF P, Q, ds
  <2>6. StaleIn(Pass(ds, order), order, S, Q)
    BY <2>2, <2>3, <2>4, <2>5, PassWave
  <2>7. StaleIn(b[i], order, S, Q)
    BY <2>2, <2>6
  <2> QED BY <2>1, <2>7 DEF Q
<1>8. m \in T
  <2>1. 0..m \subseteq T
    <3> HIDE DEF T, m
    <3> QED BY <1>2, <1>6, <1>7, InductionTo
  <2>2. m \in 0..m
    BY <1>2
  <2> HIDE DEF T, m
  <2> QED BY <2>1, <2>2
<1> QED BY <1>2, <1>8 DEF F, n

(* When no assembly contains itself nothing is stale after a command.      *)
LEMMA SyncSettles ==
  ASSUME NEW S \in SUBSET Session, NEW order \in Seq(S), Range(order) = S,
         NEW docs, DocsOK(docs, S)
  PROVE  /\ DocsOK(Sync(docs, order), S) /\ KeepsLinks(docs, Sync(docs, order))
         /\ Acyclic(Sync(docs, order), order) =>
              \A x \in S : Stale(Sync(docs, order), order, x) = {}
<1> DEFINE n == Len(order)
           F == Sync(docs, order)
<1>1. DocsOK(F, S) /\ KeepsLinks(docs, F)
  <2>1. PICK b : /\ Syncing(docs, order, S, b)
                 /\ \A i \in 0..(n + 1) : KeepsLinks(b[i], F)
    BY SyncLeads
  <2>2. /\ n + 1 \in Nat /\ b[0] = docs /\ F = b[n + 1]
        /\ \A i \in 0..(n + 1) : DocsOK(b[i], S)
    BY <2>1 DEF Syncing
  <2> HIDE DEF F, n
  <2> QED BY <2>1, <2>2
<1>2. ASSUME Acyclic(F, order) PROVE \A x \in S : Stale(F, order, x) = {}
  <2>1. LinksIn(F, S)
    BY <1>1, DocsLink
  <2>2. PICK R : Heights(F, S, R, n + 1)
    <3>1. n + 1 \in Nat
      OBVIOUS
    <3> HIDE DEF F, n
    <3> QED BY <3>1, HeightsExist
  <2>3. StaleIn(F, order, S, R[n + 1])
    BY <2>2, SyncWave
  <2>4. R[n + 1] = {}
    <3>1. LinksIn(F, Range(order)) /\ Heights(F, Range(order), R, Len(order) + 1)
      BY <2>1, <2>2
    <3> HIDE DEF F
    <3>2. R[Len(order) + 1] = {}
      BY <1>2, <3>1, HeightsEnd
    <3> QED BY <3>2
  <2> HIDE DEF F, n
  <2> QED BY <2>3, <2>4 DEF StaleIn
<1> QED BY <1>1, <1>2 DEF F

----------------------------------------------------------------------------
(* Files.                                                                  *)

(* A document of which a part has no components.                           *)
KeptDocument == {d \in Document : d.kind = "part" => DOMAIN d.occs = {}}

Apart(occs) == \A o \in DOMAIN occs : occs[o].link = None /\ ~occs[o].same

Written ==
  {f \in File : (f.kind = "part" => DOMAIN f.occs = {}) /\ Apart(f.occs)}

Disk == [Path -> Written \cup {None}]

(* A document that is linked to nothing fits any workspace.                *)
Loose(d) ==
  /\ d \in Document /\ Apart(d.occs)
  /\ d.kind = "part" => DOMAIN d.occs = {}
  /\ d.kind = "assembly" => d.shape = Compose(d.occs)

LEMMA LooseFits ==
  ASSUME NEW d, Loose(d), NEW docs, NEW S, NEW s
  PROVE  d \in Document /\ DocFits(d, docs, S, s)
  BY DEF Loose, DocFits, Apart

LEMMA UnlinkedIs ==
  ASSUME NEW occs \in Occurrences
  PROVE  /\ Unlinked(occs) \in Occurrences /\ Apart(Unlinked(occs))
         /\ DOMAIN Unlinked(occs) = DOMAIN occs
<1> DEFINE new(o) == [occs[o] EXCEPT !.link = None, !.same = FALSE]
<1>1. ASSUME NEW o \in DOMAIN occs
      PROVE  new(o) \in Occurrence /\ new(o).link = None /\ ~new(o).same
  <2>1. occs[o] \in Occurrence
    BY OccursType
  <2>2. new(o) \in Occurrence /\ new(o).link = None /\ new(o).same = FALSE
    BY <2>1 DEF Occurrence
  <2> HIDE DEF new
  <2> QED BY <2>2
<1>2. Unlinked(occs) = [o \in DOMAIN occs |-> new(o)]
  BY DEF Unlinked
<1> HIDE DEF new
<1>3. DOMAIN occs \in SUBSET Name
  BY OccursType
<1>4. Unlinked(occs) \in Occurrences
  <2>1. Unlinked(occs) \in [DOMAIN occs -> Occurrence]
    BY <1>1, <1>2
  <2> QED BY <1>3, <2>1 DEF Occurrences
<1> QED BY <1>1, <1>2, <1>4 DEF Apart

LEMMA SnapshotIs ==
  ASSUME NEW d \in KeptDocument
  PROVE  /\ Snapshot(d) \in KeptDocument /\ Snapshot(d).kind = d.kind
         /\ Snapshot(d).path = d.path
<1>1. d \in Document /\ d.occs \in Occurrences
  BY DocumentParts DEF KeptDocument
<1> DEFINE occs == Unlinked(d.occs)
<1>2. occs \in Occurrences /\ DOMAIN occs = DOMAIN d.occs
  BY <1>1, UnlinkedIs
<1>3. Snapshot(d) = [d EXCEPT !.occs = occs]
  BY <1>1 DEF Snapshot, Document
<1> HIDE DEF occs
<1>4. /\ Snapshot(d) \in Document /\ Snapshot(d).kind = d.kind
      /\ Snapshot(d).path = d.path /\ Snapshot(d).occs = occs
  BY <1>1, <1>2, <1>3 DEF Document
<1> QED BY <1>2, <1>4 DEF KeptDocument

LEMMA FileOfIs ==
  ASSUME NEW d \in KeptDocument PROVE FileOf(d) \in Written
<1>1. d \in Document /\ d.occs \in Occurrences
        /\ d.kind \in {"part", "assembly"}
      /\ d.shape \in Shape /\ {} \in Shape
  BY DocumentParts DEF KeptDocument, Shape
<1> DEFINE occs == Unlinked(d.occs)
           shape == IF d.kind = "part" THEN d.shape ELSE {}
<1>2. occs \in Occurrences /\ DOMAIN occs = DOMAIN d.occs /\ Apart(occs)
  BY <1>1, UnlinkedIs
<1>3. FileOf(d) = [kind |-> d.kind, occs |-> occs, shape |-> shape]
  BY DEF FileOf
<1>4. shape \in Shape
  BY <1>1
<1> HIDE DEF occs, shape
<1>5. FileOf(d) \in File /\ FileOf(d).kind = d.kind /\ FileOf(d).occs = occs
  BY <1>1, <1>2, <1>3, <1>4 DEF File
<1> QED BY <1>2, <1>5 DEF Written, KeptDocument

(* Nothing is a file by mistake.                                           *)
LEMMA WrittenParts ==
  ASSUME NEW f \in Written
  PROVE  /\ f.kind \in {"part", "assembly"} /\ f.shape \in Shape
         /\ f.occs \in Occurrences /\ Apart(f.occs)
         /\ f.kind = "part" => DOMAIN f.occs = {}
  BY DEF Written, File

LEMMA RebuiltIs ==
  ASSUME NEW d \in Document, NEW occs \in Occurrences
  PROVE  /\ Rebuilt(d, occs) \in Document /\ Rebuilt(d, occs).kind = d.kind
         /\ Rebuilt(d, occs).path = d.path /\ Rebuilt(d, occs).dirty = d.dirty
         /\ Rebuilt(d, occs).occs = occs
         /\ Rebuilt(d, occs).shape = Compose(occs)
<1>1. Compose(occs) \in Shape
  BY ComposeType
<1> QED BY <1>1 DEF Rebuilt, Document

LEMMA FoundOrType ==
  ASSUME NEW found \in SUBSET Shape, NEW kept \in Shape
  PROVE  FoundOr(found, kept) \in SUBSET Shape
  BY DEF FoundOr

----------------------------------------------------------------------------
(* Loading a component.                                                    *)

LoadOne(files, F, visited) ==
  [p \in Path |->
     IF p \in visited \/ files[p] = None THEN {}
     ELSE LET occs == files[p].occs
              at(o) == FoundOr(IF occs[o].path \in Path
                                 THEN F[visited \cup {p}][occs[o].path]
                                 ELSE {},
                               occs[o].shape)
          IN IF \E o \in DOMAIN occs : at(o) = {} THEN {}
             ELSE {(UNION {UNION at(o) : o \in DOMAIN occs})
                     \cup files[p].shape} \ {{}}]

LoadedBy(files, loaded) ==
  loaded = [visited \in SUBSET Path |-> LoadOne(files, loaded, visited)]

LEMMA LoadOneSame ==
  ASSUME NEW files, NEW F, NEW G, NEW visited,
         \A p \in Path \ visited : F[visited \cup {p}] = G[visited \cup {p}]
  PROVE  LoadOne(files, F, visited) = LoadOne(files, G, visited)
<1> DEFINE at(H, p, o) ==
             FoundOr(IF files[p].occs[o].path \in Path
                       THEN H[visited \cup {p}][files[p].occs[o].path]
                       ELSE {},
                     files[p].occs[o].shape)
           one(H, p) ==
             IF \E o \in DOMAIN files[p].occs : at(H, p, o) = {} THEN {}
             ELSE {(UNION {UNION at(H, p, o) : o \in DOMAIN files[p].occs})
                     \cup files[p].shape} \ {{}}
           get(H, p) == IF p \in visited \/ files[p] = None THEN {}
                        ELSE one(H, p)
<1>1. /\ LoadOne(files, F, visited) = [p \in Path |-> get(F, p)]
      /\ LoadOne(files, G, visited) = [p \in Path |-> get(G, p)]
  BY DEF LoadOne
<1>2. ASSUME NEW p \in Path PROVE get(F, p) = get(G, p)
  <2>1. CASE p \in visited
    <3> HIDE DEF one
    <3> QED BY <2>1
  <2>2. CASE p \notin visited
    <3>1. \A o : at(F, p, o) = at(G, p, o)
      BY <2>2
    <3> HIDE DEF at
    <3>2. one(F, p) = one(G, p)
      BY <3>1
    <3> HIDE DEF one
    <3> QED BY <3>2
  <2> QED BY <2>1, <2>2
<1> HIDE DEF get
<1> QED BY <1>1, <1>2

LEMMA LoadOneType ==
  ASSUME NEW files \in Disk, NEW F, NEW visited,
         \A p \in Path \ visited :
           F[visited \cup {p}] \in [Path -> SUBSET Shape]
  PROVE  LoadOne(files, F, visited) \in [Path -> SUBSET Shape]
<1> DEFINE at(p, o) == FoundOr(IF files[p].occs[o].path \in Path
                                 THEN F[visited \cup {p}][files[p].occs[o].path]
                                 ELSE {},
                               files[p].occs[o].shape)
           one(p) ==
             IF \E o \in DOMAIN files[p].occs : at(p, o) = {} THEN {}
             ELSE {(UNION {UNION at(p, o) : o \in DOMAIN files[p].occs})
                     \cup files[p].shape} \ {{}}
           get(p) == IF p \in visited \/ files[p] = None THEN {} ELSE one(p)
<1>1. LoadOne(files, F, visited) = [p \in Path |-> get(p)]
  BY DEF LoadOne
<1>2. ASSUME NEW p \in Path PROVE get(p) \in SUBSET Shape
  <2>1. CASE p \in visited \/ files[p] = None
    <3> HIDE DEF one
    <3> QED BY <2>1
  <2>2. CASE ~(p \in visited \/ files[p] = None)
    <3>1. files[p] \in Written /\ p \in Path \ visited
      BY <2>2 DEF Disk
    <3>2. files[p].occs \in Occurrences /\ files[p].shape \in Shape
      BY <3>1, WrittenParts
    <3>3. ASSUME NEW o \in DOMAIN files[p].occs PROVE at(p, o) \in SUBSET Shape
      <4> DEFINE q == files[p].occs[o].path
                 found == IF q \in Path THEN F[visited \cup {p}][q] ELSE {}
      <4>1. files[p].occs[o] \in Occurrence
        BY <3>2, OccursType
      <4>2. files[p].occs[o].shape \in Shape
        BY <4>1, OccParts
      <4>3. found \in SUBSET Shape
        BY <3>1
      <4>4. at(p, o) = FoundOr(found, files[p].occs[o].shape)
        OBVIOUS
      <4> HIDE DEF found, at
      <4> QED BY <4>2, <4>3, <4>4, FoundOrType
    <3> HIDE DEF at
    <3> DEFINE all == (UNION {UNION at(p, o) : o \in DOMAIN files[p].occs})
                        \cup files[p].shape
    <3>4. all \in Shape
      <4>1. \A o \in DOMAIN files[p].occs : UNION at(p, o) \subseteq Version
        BY <3>3 DEF Shape
      <4>2. files[p].shape \subseteq Version
        BY <3>2 DEF Shape
      <4>3. UNION {UNION at(p, o) : o \in DOMAIN files[p].occs}
              \subseteq Version
        BY <4>1
      <4> DEFINE parts == UNION {UNION at(p, o) : o \in DOMAIN files[p].occs}
      <4>4. parts \subseteq Version
        BY Zenon, <4>3
      <4>5. all = parts \cup files[p].shape
        BY Zenon
      <4> HIDE DEF parts, all
      <4> QED BY <4>2, <4>4, <4>5 DEF Shape
    <3>5. one(p) = IF \E o \in DOMAIN files[p].occs : at(p, o) = {} THEN {}
                   ELSE {all} \ {{}}
      OBVIOUS
    <3> HIDE DEF all, one
    <3> QED BY <2>2, <3>4, <3>5
  <2> QED BY <2>1, <2>2
<1> HIDE DEF get
<1> QED BY <1>1, <1>2

Unvisited(visited) == Cardinality(Path \ visited)

LEMMA UnvisitedFalls ==
  ASSUME NEW visited \in SUBSET Path
  PROVE  /\ Unvisited(visited) \in Nat
         /\ Unvisited(visited) <= Cardinality(Path)
         /\ Cardinality(Path) \in Nat
         /\ \A p \in Path \ visited :
              /\ visited \cup {p} \in SUBSET Path
              /\ Unvisited(visited \cup {p}) < Unvisited(visited)
<1>1. IsFiniteSet(Path) /\ Cardinality(Path) \in Nat
  BY LinksAssumption, FS_CardinalityType
<1> DEFINE rest == Path \ visited
<1>2. IsFiniteSet(rest) /\ Cardinality(rest) \in Nat
      /\ Cardinality(rest) <= Cardinality(Path)
  <2>1. rest \in SUBSET Path
    OBVIOUS
  <2> HIDE DEF rest
  <2> QED BY <1>1, <2>1, FS_Subset, FS_CardinalityType
<1>3. ASSUME NEW p \in rest
      PROVE  Cardinality(Path \ (visited \cup {p})) < Cardinality(rest)
  <2>1. Path \ (visited \cup {p}) = rest \ {p}
    OBVIOUS
  <2> HIDE DEF rest
  <2>2. Cardinality(rest \ {p}) = Cardinality(rest) - 1
    BY <1>2, <1>3, FS_RemoveElement
  <2> QED BY <1>2, <2>1, <2>2
<1> QED BY <1>1, <1>2, <1>3 DEF Unvisited

(* The recursion has a solution: there are not more files than paths.      *)
LEMMA LoadedExists ==
  ASSUME NEW files \in Disk
  PROVE  \E loaded : LoadedBy(files, loaded)
<1> DEFINE V == [SUBSET Path -> [Path -> SUBSET Shape]]
           c == [visited \in SUBSET Path |-> [p \in Path |-> {}]]
           step(F) == [visited \in SUBSET Path |-> LoadOne(files, F, visited)]
           n == Cardinality(Path) + 1
           m == n + 1
           h == [i \in 1..m |-> [F \in V |-> step(F)]]
<1>1. c \in V /\ Cardinality(Path) \in Nat /\ n \in Nat /\ m \in Nat
  BY UnvisitedFalls
<1>2. \A F \in V : step(F) \in V
  <2> SUFFICES ASSUME NEW F \in V, NEW visited \in SUBSET Path
               PROVE  LoadOne(files, F, visited) \in [Path -> SUBSET Shape]
    OBVIOUS
  <2>1. \A p \in Path \ visited :
          F[visited \cup {p}] \in [Path -> SUBSET Shape]
    OBVIOUS
  <2> QED BY <2>1, LoadOneType
<1> HIDE DEF c, n, V
<1>3. PICK f \in [0..m -> V] : IteratesTo(f, c, h, m)
  <2>1. h \in [1..m -> [V -> V]]
    <3> HIDE DEF step
    <3> QED BY <1>2
  <2> HIDE DEF h, m
  <2> QED BY <1>1, <2>1, RecursionOver
<1>4. \A i \in 1..m : f[i] = step(f[i - 1])
  <2>1. f = [i \in 0..m |-> IF i = 0 THEN c ELSE h[i][f[i - 1]]]
    BY <1>3 DEF IteratesTo
  <2> SUFFICES ASSUME NEW i \in 1..m PROVE f[i] = step(f[i - 1])
    OBVIOUS
  <2>2. i - 1 \in 0..m /\ i \in 0..m /\ i # 0
    BY <1>1
  <2>3. f[i - 1] \in V
    BY <1>3, <2>2
  <2> HIDE DEF step
  <2>4. h[i][f[i - 1]] = step(f[i - 1])
    BY <2>3
  <2> HIDE DEF h
  <2> QED BY <2>1, <2>2, <2>4
<1> HIDE DEF h
<1> DEFINE Stands(i) == \A visited \in SUBSET Path :
                          Unvisited(visited) < i
                            => f[i][visited] = f[i + 1][visited]
           T == {i \in 0..n : Stands(i)}
<1>5. 0 \in T
  <2>1. \A visited \in SUBSET Path : ~(Unvisited(visited) < 0)
    BY UnvisitedFalls
  <2> QED BY <1>1, <2>1
<1>6. ASSUME NEW i \in 1..n, i - 1 \in T PROVE i \in T
  <2>1. /\ i \in 1..m /\ i + 1 \in 1..m /\ i + 1 - 1 = i /\ i - 1 + 1 = i
        /\ i \in 0..n
    BY <1>1
  <2>2. f[i] = step(f[i - 1]) /\ f[i + 1] = step(f[i])
    <3> DEFINE k == i + 1
    <3>1. k \in 1..m /\ k - 1 = i
      BY <2>1
    <3> HIDE DEF step, k, m
    <3>2. f[k] = step(f[k - 1])
      BY <1>4, <3>1
    <3>3. f[k] = step(f[i])
      BY <3>1, <3>2
    <3>4. f[i] = step(f[i - 1])
      BY <1>4, <2>1
    <3> QED BY <3>3, <3>4 DEF k
  <2>3. ASSUME NEW visited \in SUBSET Path, Unvisited(visited) < i
        PROVE  f[i][visited] = f[i + 1][visited]
    <3>1. \A p \in Path \ visited :
            f[i - 1][visited \cup {p}] = f[i][visited \cup {p}]
      <4> SUFFICES ASSUME NEW p \in Path \ visited
                   PROVE  f[i - 1][visited \cup {p}] = f[i][visited \cup {p}]
        OBVIOUS
      <4> DEFINE further == visited \cup {p}
      <4>1. /\ further \in SUBSET Path /\ Unvisited(further) < Unvisited(visited)
            /\ Unvisited(visited) \in Nat
        BY UnvisitedFalls
      <4>2. Unvisited(further) \in Nat
        BY <4>1, UnvisitedFalls
      <4> HIDE DEF further
      <4>3. Unvisited(further) < i - 1
        BY <1>1, <2>3, <4>1, <4>2
      <4>4. f[i - 1][further] = f[i - 1 + 1][further]
        BY <1>6, <4>1, <4>3
      <4> QED BY <2>1, <4>4 DEF further
    <3>2. LoadOne(files, f[i - 1], visited) = LoadOne(files, f[i], visited)
      BY <3>1, LoadOneSame
    <3> QED BY <2>2, <3>2
  <2>4. Stands(i)
    BY <2>3
  <2> HIDE DEF Stands
  <2> QED BY <2>1, <2>4
<1>7. n \in T
  <2>1. 0..n \subseteq T
    <3> HIDE DEF T
    <3> QED BY <1>1, <1>5, <1>6, InductionTo
  <2> HIDE DEF T
  <2> QED BY <1>1, <2>1
<1>8. f[n] = f[m]
  <2>1. f[n] \in V /\ f[m] \in V
    BY <1>1, <1>3
  <2>2. \A visited \in SUBSET Path : Unvisited(visited) < n
    BY <1>1, UnvisitedFalls DEF n
  <2>3. \A visited \in SUBSET Path : f[n][visited] = f[m][visited]
    BY <1>7, <2>2
  <2> QED BY <2>1, <2>3 DEF V
<1>9. f[m] = step(f[n])
  <2>1. m \in 1..m /\ m - 1 = n
    BY <1>1
  <2> HIDE DEF m, step
  <2> QED BY <1>4, <2>1
<1>10. LoadedBy(files, f[n])
  BY <1>8, <1>9 DEF LoadedBy
<1> QED BY <1>10

LEMMA LoadingIs ==
  ASSUME NEW files \in Disk, NEW visited \in SUBSET Path
  PROVE  Loading(files)[visited] = LoadOne(files, Loading(files), visited)
<1> DEFINE those(loaded) == LoadedBy(files, loaded)
           it == CHOOSE loaded : those(loaded)
<1>1. those(it)
  <2> HIDE DEF those
  <2> QED BY LoadedExists DEF those
<1>2. Loading(files) = it
  BY Zenon DEF Loading, LoadedBy, LoadOne
<1> HIDE DEF it
<1>3. it = [v \in SUBSET Path |-> LoadOne(files, it, v)]
  BY <1>1 DEF LoadedBy
<1> HIDE DEF those
<1>4. it[visited] = LoadOne(files, it, visited)
  BY <1>3
<1> QED BY <1>2, <1>4

LEMMA LoadingType ==
  ASSUME NEW files \in Disk, NEW visited \in SUBSET Path
  PROVE  Loading(files)[visited] \in [Path -> SUBSET Shape]
<1> DEFINE it == Loading(files)
<1>1. \A v \in SUBSET Path : it[v] = LoadOne(files, it, v)
  BY LoadingIs
<1> HIDE DEF it
<1> DEFINE n == Cardinality(Path) + 1
           T == {i \in 0..n : \A v \in SUBSET Path :
                   Unvisited(v) < i => it[v] \in [Path -> SUBSET Shape]}
<1>4. Cardinality(Path) \in Nat /\ n \in Nat
  BY UnvisitedFalls
<1> HIDE DEF n
<1>5. 0 \in T
  <2>1. \A v \in SUBSET Path : ~(Unvisited(v) < 0)
    BY UnvisitedFalls
  <2> QED BY <1>4, <2>1
<1>6. ASSUME NEW i \in 1..n, i - 1 \in T PROVE i \in T
  <2>1. i \in 0..n
    BY <1>4
  <2>2. ASSUME NEW v \in SUBSET Path, Unvisited(v) < i
        PROVE  it[v] \in [Path -> SUBSET Shape]
    <3>1. ASSUME NEW p \in Path \ v
          PROVE  it[v \cup {p}] \in [Path -> SUBSET Shape]
      <4> DEFINE further == v \cup {p}
      <4>1. /\ further \in SUBSET Path /\ Unvisited(further) < Unvisited(v)
            /\ Unvisited(v) \in Nat
        BY UnvisitedFalls
      <4>2. Unvisited(further) \in Nat
        BY <4>1, UnvisitedFalls
      <4> HIDE DEF further
      <4>3. Unvisited(further) < i - 1
        BY <1>4, <2>2, <4>1, <4>2
      <4>4. it[further] \in [Path -> SUBSET Shape]
        BY <1>6, <4>1, <4>3
      <4> QED BY <4>4 DEF further
    <3>2. LoadOne(files, it, v) \in [Path -> SUBSET Shape]
      BY <3>1, LoadOneType
    <3> QED BY <1>1, <3>2
  <2> QED BY <2>1, <2>2
<1>7. n \in T
  <2>1. 0..n \subseteq T
    <3> HIDE DEF T
    <3> QED BY <1>4, <1>5, <1>6, InductionTo
  <2> HIDE DEF T
  <2> QED BY <1>4, <2>1
<1>8. Unvisited(visited) < n
  BY <1>4, UnvisitedFalls DEF n
<1> QED BY <1>7, <1>8 DEF it

LEMMA FoundType ==
  ASSUME NEW files \in Disk, NEW visited \in SUBSET Path, NEW p
  PROVE  /\ Found(files, visited, p) \in SUBSET Shape
         /\ UNION Found(files, visited, p) \in Shape
<1>1. Found(files, visited, p) \in SUBSET Shape
  BY LoadingType DEF Found
<1> QED BY <1>1 DEF Shape

LEMMA ReadIs ==
  ASSUME NEW files \in Disk, NEW visited \in SUBSET Path,
         NEW d \in KeptDocument, Apart(d.occs)
  PROVE  /\ Loose(Read(files, visited, d))
         /\ Read(files, visited, d).path = d.path
<1>1. d \in Document /\ d.occs \in Occurrences
        /\ d.kind \in {"part", "assembly"}
      /\ DOMAIN d.occs \in SUBSET Name
  BY DocumentParts DEF KeptDocument
<1>2. CASE d.kind = "part"
  <2>1. Read(files, visited, d) = d
    BY <1>2 DEF Read
  <2> QED BY <1>1, <1>2, <2>1 DEF Loose, KeptDocument
<1>3. CASE d.kind # "part"
  <2> DEFINE shape(o) == UNION Reads(files, visited, d.occs[o])
             new(o) == [d.occs[o] EXCEPT !.shape = shape(o)]
             occs == [o \in DOMAIN d.occs |-> new(o)]
  <2>1. Read(files, visited, d) = Rebuilt(d, occs)
    BY <1>3 DEF Read
  <2>2. ASSUME NEW o \in DOMAIN d.occs
        PROVE  new(o) \in Occurrence /\ new(o).link = None /\ ~new(o).same
    <3>1. d.occs[o] \in Occurrence /\ d.occs[o].link = None /\ ~d.occs[o].same
      BY <1>1, OccursType DEF Apart
    <3>2. shape(o) \in Shape
      <4>1. /\ Found(files, visited, d.occs[o].path) \in SUBSET Shape
            /\ d.occs[o].shape \in Shape
        BY <3>1, FoundType, OccParts
      <4>2. Reads(files, visited, d.occs[o]) \in SUBSET Shape
        BY <4>1, FoundOrType DEF Reads
      <4> QED BY <4>2 DEF Shape
    <3> HIDE DEF shape
    <3>3. /\ new(o) \in Occurrence /\ new(o).link = d.occs[o].link
          /\ new(o).same = d.occs[o].same
      BY <3>1, <3>2 DEF Occurrence
    <3> HIDE DEF new
    <3> QED BY <3>1, <3>3
  <2> HIDE DEF new
  <2>3. occs \in Occurrences /\ Apart(occs)
    <3>1. occs \in [DOMAIN d.occs -> Occurrence]
      BY <2>2
    <3>2. occs \in Occurrences
      BY <1>1, <3>1 DEF Occurrences
    <3> QED BY <2>2, <3>2 DEF Apart
  <2> HIDE DEF occs
  <2> QED BY <1>1, <1>3, <2>1, <2>3, RebuiltIs DEF Loose
<1> QED BY <1>2, <1>3

LEMMA FromFileIs ==
  ASSUME disk \in Disk, NEW p \in Path, CanLoad(p)
  PROVE  Loose(FromFile(p)) /\ FromFile(p).path = p
<1>1. disk[p] \in Written
  BY DEF Disk, CanLoad
<1> DEFINE d == [kind |-> disk[p].kind, path |-> p, dirty |-> FALSE,
                 shape |-> disk[p].shape, occs |-> disk[p].occs]
<1>2. /\ d \in Document /\ d.kind = disk[p].kind /\ d.occs = disk[p].occs
      /\ d.path = p
  BY <1>1, WrittenParts DEF Document
<1>3. FromFile(p) = Read(disk, {p}, d)
  BY DEF FromFile
<1> HIDE DEF d
<1>4. d \in KeptDocument /\ Apart(d.occs)
  BY <1>1, <1>2, WrittenParts DEF KeptDocument
<1> QED BY <1>2, <1>3, <1>4, ReadIs

LEMMA RestoredIs ==
  ASSUME NEW files \in Disk, NEW d \in KeptDocument
  PROVE  Loose(Restored(files, d))
<1>1. d \in Document /\ d.occs \in Occurrences /\ DOMAIN d.occs \in SUBSET Name
  BY DocumentParts DEF KeptDocument
<1>2. Relocated(d) \in Occurrences /\ DOMAIN Relocated(d) = DOMAIN d.occs
  <2>1. CASE d.path = None
    BY <1>1, <2>1 DEF Relocated
  <2>2. CASE d.path # None
    <3> DEFINE new(o) == [d.occs[o] EXCEPT !.path = Elsewhere]
    <3>1. Relocated(d) = [o \in DOMAIN d.occs |-> new(o)]
      BY <2>2 DEF Relocated
    <3>2. \A o \in DOMAIN d.occs : new(o) \in Occurrence
      <4>1. \A o \in DOMAIN d.occs : d.occs[o] \in Occurrence
        BY <1>1, OccursType
      <4> QED BY <4>1 DEF Occurrence
    <3> HIDE DEF new
    <3>3. Relocated(d) \in [DOMAIN d.occs -> Occurrence]
      BY <3>1, <3>2
    <3> QED BY <1>1, <3>1, <3>3 DEF Occurrences
  <2> QED BY <2>1, <2>2
<1> DEFINE occs == Unlinked(Relocated(d))
           e == [Snapshot(d) EXCEPT !.occs = occs]
<1>3. occs \in Occurrences /\ Apart(occs) /\ DOMAIN occs = DOMAIN d.occs
  BY <1>2, UnlinkedIs
<1>4. Snapshot(d) \in Document /\ Snapshot(d).kind = d.kind
  BY SnapshotIs DEF KeptDocument
<1>5. Restored(files, d) = Read(files, {}, e)
  BY DEF Restored
<1> HIDE DEF occs
<1>6. e \in Document /\ e.kind = d.kind /\ e.occs = occs
  BY <1>3, <1>4 DEF Document
<1> HIDE DEF e
<1>7. e \in KeptDocument /\ Apart(e.occs)
  BY <1>3, <1>6 DEF KeptDocument
<1>8. {} \in SUBSET Path
  OBVIOUS
<1> QED BY <1>5, <1>7, <1>8, ReadIs

----------------------------------------------------------------------------
(* The inductive invariant.                                                *)

Follows(ds, order) ==
  Acyclic(ds, order) => \A x \in Range(order) : Stale(ds, order, x) = {}

Stacks(S) == [S -> Seq(KeptDocument)]

(* The documents fit each other, the files and the kept versions are what  *)
(* loading expects, and after a command nothing is stale.                  *)
LinksInv ==
  /\ tabs \in Seq(Session) /\ active \in Opened \cup {None}
  /\ \A i, j \in DOMAIN tabs : tabs[i] = tabs[j] => i = j
  /\ DocsOK(doc, Opened)
  /\ undo \in Stacks(Opened) /\ redo \in Stacks(Opened)
  /\ disk \in Disk
  /\ closed \subseteq Session
  /\ rolled \in BOOLEAN
  /\ ~rolled => Follows(doc, tabs)

LEMMA OpenedIs ==
  ASSUME NEW order \in Seq(Session)
  PROVE  /\ Range(order) \in SUBSET Session /\ order \in Seq(Range(order))
         /\ \A i \in DOMAIN order : order[i] \in Range(order)
         /\ \A s \in Range(order) : \E i \in DOMAIN order : order[i] = s
<1>1. Range(order) \in SUBSET Session
  BY DEF Range
<1>2. \A i \in 1..Len(order) : order[i] \in Range(order)
  BY DEF Range
<1> QED BY <1>1, <1>2 DEF Range

(* A command that follows.                                                 *)
LEMMA FollowedIs ==
  ASSUME NEW order \in Seq(Session), NEW docs, DocsOK(docs, Range(order))
  PROVE  /\ DocsOK(Sync(docs, order), Range(order))
         /\ Follows(Sync(docs, order), order)
         /\ KeepsLinks(docs, Sync(docs, order))
<1> DEFINE S == Range(order)
<1>1. S \in SUBSET Session /\ order \in Seq(S)
  BY OpenedIs
<1> HIDE DEF S
<1>2. S = Range(order)
  BY DEF S
<1>3. /\ DocsOK(Sync(docs, order), S)
      /\ Acyclic(Sync(docs, order), order) =>
           \A x \in S : Stale(Sync(docs, order), order, x) = {}
      /\ KeepsLinks(docs, Sync(docs, order))
  BY <1>1, <1>2, SyncSettles
<1> QED BY <1>2, <1>3 DEF Follows

LEMMA DocKept ==
  ASSUME NEW ds, NEW S, DocsOK(ds, S), NEW s \in S
  PROVE  /\ ds[s] \in KeptDocument /\ ds[s] \in Document
         /\ DocFits(ds[s], ds, S, s)
  BY DEF DocsOK, DocFits, KeptDocument

(* Documents that differ in their paths and dirty flags.                   *)
LEMMA DocsSame ==
  ASSUME NEW ds, NEW S, DocsOK(ds, S), NEW ds2 \in [S -> Document],
         \A s \in S : /\ ds2[s].kind = ds[s].kind /\ ds2[s].shape = ds[s].shape
                      /\ ds2[s].occs = ds[s].occs
  PROVE  DocsOK(ds2, S)
  BY DEF DocsOK, DocFits

(* Documents with the same paths, shapes and occurrences.                  *)
LEMMA SameLinks ==
  ASSUME NEW order \in Seq(Session), NEW ds, LinksIn(ds, Range(order)),
         NEW ds2,
         \A s \in Range(order) :
           /\ ds2[s].path = ds[s].path /\ ds2[s].shape = ds[s].shape
           /\ ds2[s].occs = ds[s].occs
  PROVE  /\ \A X \in SUBSET Range(order) :
              LinkedFrom(ds2, X) = LinkedFrom(ds, X)
         /\ \A x \in Range(order) :
              /\ Below(ds2, order, x) = Below(ds, order, x)
              /\ Stale(ds2, order, x) = Stale(ds, order, x)
              /\ \A o \in DOMAIN ds[x].occs :
                   Of(ds2, order, x, o) = Of(ds, order, x, o)
<1> DEFINE S == Range(order)
<1>1. S \in SUBSET Session /\ None \notin S
  BY OpenedIs, LinksAssumption
<1>2. LinksIn(ds, S) /\ LinksIn(ds2, S)
  BY DEF LinksIn
<1>3. ASSUME NEW X \in SUBSET S PROVE LinkedFrom(ds2, X) = LinkedFrom(ds, X)
  <2>1. \A t \in X : ds2[t].occs = ds[t].occs
    OBVIOUS
  <2>2. ASSUME NEW x
        PROVE  x \in LinkedFrom(ds2, X) <=> x \in LinkedFrom(ds, X)
    BY <2>1, LinkedFromIs
  <2> QED BY <2>2
<1> HIDE DEF S
<1>4. ASSUME NEW x \in S PROVE Below(ds2, order, x) = Below(ds, order, x)
  <2> DEFINE X == Below(ds, order, x)
             Y == Below(ds2, order, x)
  <2>1. /\ X \in SUBSET S /\ Closed(ds, x, X)
        /\ Y \in SUBSET S /\ Closed(ds2, x, Y)
    BY <1>2, BelowIsLeast DEF S
  <2>2. {x} \in SUBSET S
    OBVIOUS
  <2> HIDE DEF X, Y
  <2>3. Closed(ds2, x, X) /\ Closed(ds, x, Y)
    BY <1>3, <2>1, <2>2 DEF Closed
  <2>4. Below(ds2, order, x) \subseteq X /\ Below(ds, order, x) \subseteq Y
    BY <1>2, <2>1, <2>3, BelowIsLeast DEF S
  <2> QED BY <2>4 DEF X, Y
<1>5. ASSUME NEW x \in S, NEW o \in DOMAIN ds[x].occs
      PROVE  Of(ds2, order, x, o) = Of(ds, order, x, o)
  <2>1. /\ ds2[x].occs[o].path = ds[x].occs[o].path
        /\ ds2[x].occs[o].link = ds[x].occs[o].link
    BY DEF S
  <2>2. \A s \in Range(order) : ds2[s].path = ds[s].path
    OBVIOUS
  <2> DEFINE new == ds2[x].occs[o]
             old == ds[x].occs[o]
  <2>3. new.path = old.path /\ new.link = old.link
    BY <2>1
  <2> HIDE DEF new, old
  <2>4. Showing(ds2, order, new.path) = Showing(ds, order, old.path)
    <3>1. \A i \in DOMAIN order : order[i] \in Range(order)
      BY OpenedIs
    <3> QED BY <2>2, <2>3, <3>1 DEF Showing
  <2>5. Source(ds2, order, new) = Source(ds, order, old)
    BY <2>3, <2>4 DEF Source
  <2> QED BY <2>5 DEF Of, new, old
<1>6. ASSUME NEW x \in S, NEW o
      PROVE  o \in Stale(ds2, order, x) <=> o \in Stale(ds, order, x)
  <2>1. ds2[x].occs = ds[x].occs
    BY DEF S
  <2>2. CASE o \notin DOMAIN ds[x].occs
    BY <2>1, <2>2, StaleIs
  <2>3. CASE o \in DOMAIN ds[x].occs
    <3>1. Of(ds2, order, x, o) = Of(ds, order, x, o)
      BY <1>5, <2>3
    <3>2. Of(ds, order, x, o) \in S \cup {None}
      <4>1. ds[x].occs[o].link \in S \cup {None}
        BY <1>2, <2>3 DEF LinksIn
      <4> QED BY <4>1, SourceIs DEF Of, S
    <3>3. Of(ds, order, x, o) # None =>
            ds2[Of(ds, order, x, o)].shape = ds[Of(ds, order, x, o)].shape
      BY <3>2 DEF S
    <3> QED BY <2>1, <3>1, <3>3, StaleIs
  <2> QED BY <2>2, <2>3
<1>7. \A x \in S : Stale(ds2, order, x) = Stale(ds, order, x)
  BY <1>6
<1> QED BY <1>3, <1>4, <1>5, <1>7 DEF S

(* Documents that differ in their dirty flags alone.                       *)
LEMMA FollowsSame ==
  ASSUME NEW order \in Seq(Session), NEW ds, DocsOK(ds, Range(order)), NEW ds2,
         \A s \in Range(order) :
           /\ ds2[s].path = ds[s].path /\ ds2[s].shape = ds[s].shape
           /\ ds2[s].occs = ds[s].occs,
         Follows(ds, order)
  PROVE  Follows(ds2, order)
<1>1. LinksIn(ds, Range(order))
  BY OpenedIs, DocsLink
<1>2. \A x \in Range(order) :
        /\ Below(ds2, order, x) = Below(ds, order, x)
        /\ Stale(ds2, order, x) = Stale(ds, order, x)
  BY <1>1, SameLinks
<1> QED BY <1>2 DEF Follows, Acyclic

(* A step that opens and closes no tab.                                    *)
LEMMA StayInv ==
  ASSUME LinksInv, tabs' = tabs, closed' = closed,
         active' \in Opened \cup {None}, DocsOK(doc', Opened),
         undo' \in Stacks(Opened), redo' \in Stacks(Opened), disk' \in Disk,
         rolled' \in BOOLEAN, ~rolled' => Follows(doc', tabs)
  PROVE  LinksInv'
<1>1. Opened' = Opened
  BY DEF Opened
<1> QED BY <1>1 DEF LinksInv

(* A step after which the workspace is as good as before.                  *)
LEMMA IdleStays ==
  ASSUME LinksInv, tabs' = tabs, closed' = closed, active' = active,
         rolled' = rolled, DocsOK(doc', Opened), undo' \in Stacks(Opened),
         redo' \in Stacks(Opened), disk' \in Disk,
         ~rolled => Follows(doc', tabs)
  PROVE  LinksInv'
<1>1. active' \in Opened \cup {None} /\ rolled' \in BOOLEAN
  BY DEF LinksInv
<1>2. ~rolled' => Follows(doc', tabs)
  BY Zenon
<1> QED BY Zenon, <1>1, <1>2, StayInv

LEMMA CommitStays ==
  ASSUME LinksInv, tabs' = tabs, closed' = closed,
         active' \in Opened \cup {None},
         undo' \in Stacks(Opened), redo' \in Stacks(Opened), disk' \in Disk,
         NEW docs, DocsOK(docs, Opened), Commit(docs)
  PROVE  LinksInv'
<1>1. tabs \in Seq(Session)
  BY DEF LinksInv
<1>2. doc' = Sync(docs, tabs) /\ rolled' = FALSE
  BY DEF Commit
<1>3. DocsOK(Sync(docs, tabs), Opened) /\ Follows(Sync(docs, tabs), tabs)
  BY <1>1, FollowedIs DEF Opened
<1> QED BY <1>2, <1>3, StayInv

LEMMA PushIs ==
  ASSUME NEW stack \in Seq(KeptDocument), NEW d \in KeptDocument
  PROVE  Push(stack, d) \in Seq(KeptDocument)
<1>1. Snapshot(d) \in KeptDocument /\ MaxHistory \in Nat
  BY SnapshotIs, LinksAssumption
<1>2. CASE MaxHistory = 0
  BY <1>2 DEF Push
<1>3. CASE MaxHistory # 0 /\ Len(stack) < MaxHistory
  BY <1>1, <1>3 DEF Push
<1>4. CASE MaxHistory # 0 /\ ~(Len(stack) < MaxHistory)
  <2>1. stack # <<>>
    BY <1>1, <1>4
  <2>2. Tail(stack) \in Seq(KeptDocument)
    BY <2>1, HeadTailProperties
  <2> QED BY <1>1, <1>4, <2>2 DEF Push
<1> QED BY <1>2, <1>3, <1>4

LEMMA DirtyIs ==
  ASSUME NEW S, NEW docs, DocsOK(docs, S), NEW x \in S
  PROVE  DocsOK([docs EXCEPT ![x].dirty = TRUE], S)
<1> DEFINE d == [docs[x] EXCEPT !.dirty = TRUE]
           new == [docs EXCEPT ![x] = d]
<1>1. docs \in [S -> Document] /\ docs[x] \in Document
  BY DEF DocsOK
<1>2. [docs EXCEPT ![x].dirty = TRUE] = new
  BY <1>1
<1>3. /\ d \in Document /\ d.kind = docs[x].kind
      /\ d.shape = docs[x].shape /\ d.occs = docs[x].occs
  BY <1>1 DEF Document
<1> HIDE DEF d
<1>4. /\ new \in [S -> Document]
      /\ \A s \in S : new[s] = IF s = x THEN d ELSE docs[s]
  BY <1>1, <1>3
<1> HIDE DEF new
<1>5. \A s \in S : /\ new[s].kind = docs[s].kind /\ new[s].shape = docs[s].shape
                   /\ new[s].occs = docs[s].occs
  BY <1>3, <1>4
<1>6. DocsOK(new, S)
  BY <1>4, <1>5, DocsSame
<1> QED BY <1>2, <1>6

LEMMA TrackedStays ==
  ASSUME LinksInv, active # None, NEW docs, DocsOK(docs, Opened),
         Tracked(docs), disk' \in Disk
  PROVE  LinksInv'
<1>1. /\ active \in Opened /\ doc[active] \in KeptDocument
      /\ undo \in Stacks(Opened) /\ redo \in Stacks(Opened)
  BY DocKept DEF LinksInv
<1>2. undo' \in Stacks(Opened) /\ redo' \in Stacks(Opened)
  <2> DEFINE top == Push(undo[active], doc[active])
  <2>1. top \in Seq(KeptDocument)
    BY <1>1, PushIs DEF Stacks
  <2>2. undo' = [undo EXCEPT ![active] = top]
    BY <1>1 DEF Tracked, Stacks
  <2>3. redo' = [redo EXCEPT ![active] = <<>>]
    BY DEF Tracked
  <2> HIDE DEF top
  <2>4. <<>> \in Seq(KeptDocument)
    OBVIOUS
  <2> QED BY <1>1, <2>1, <2>2, <2>3, <2>4 DEF Stacks
<1>3. DocsOK([docs EXCEPT ![active].dirty = TRUE], Opened)
  BY <1>1, DirtyIs
<1>4. /\ tabs' = tabs /\ active' = active /\ closed' = closed
      /\ Commit([docs EXCEPT ![active].dirty = TRUE])
  BY DEF Tracked
<1> QED BY <1>1, <1>2, <1>3, <1>4, CommitStays

----------------------------------------------------------------------------
(* Opening and activating.                                                 *)

LEMMA AppendIsOpen ==
  ASSUME NEW order \in Seq(Session), NEW s \in Session, s \notin Range(order),
         \A i, j \in DOMAIN order : order[i] = order[j] => i = j
  PROVE  /\ Append(order, s) \in Seq(Session)
         /\ Range(Append(order, s)) = Range(order) \cup {s}
         /\ \A i, j \in DOMAIN Append(order, s) :
              Append(order, s)[i] = Append(order, s)[j] => i = j
<1> DEFINE t == Append(order, s)
           n == Len(order)
<1>1. /\ t \in Seq(Session) /\ Len(t) = n + 1 /\ n \in Nat
      /\ \A i \in 1..n : t[i] = order[i]
      /\ t[n + 1] = s /\ DOMAIN order = 1..n /\ DOMAIN t = 1..(n + 1)
  BY AppendProperties
<1>2. \A i \in 1..n : order[i] \in Range(order)
  BY DEF Range
<1> HIDE DEF t, n
<1>3. Range(t) = Range(order) \cup {s}
  <2>1. \A i \in 1..(n + 1) : i \in 1..n \/ i = n + 1
    BY <1>1
  <2>2. \A i \in 1..n : i \in 1..(n + 1)
    BY <1>1
  <2>3. n + 1 \in 1..(n + 1)
    BY <1>1
  <2> QED BY <1>1, <2>1, <2>2, <2>3 DEF Range
<1>4. ASSUME NEW i \in DOMAIN t, NEW j \in DOMAIN t, t[i] = t[j]
      PROVE  i = j
  <2>1. (i \in 1..n \/ i = n + 1) /\ (j \in 1..n \/ j = n + 1)
    BY <1>1
  <2> QED BY <1>1, <1>2, <1>4, <2>1
<1> QED BY <1>1, <1>3, <1>4 DEF t

(* The documents with that of the new tab s.                               *)
WithTab(s, d) == [t \in Opened \cup {s} |-> IF t = s THEN d ELSE doc[t]]

LEMMA AddTabIs ==
  ASSUME LinksInv, NEW s \in Session, NEW d, Loose(d), AddTab(s, d)
  PROVE  /\ Opened' = Opened \cup {s} /\ s \notin Opened /\ disk' = disk
         /\ Commit(WithTab(s, d)) /\ DocsOK(WithTab(s, d), Opened')
         /\ WithTab(s, d)[s] = d
         /\ \A t \in Opened : WithTab(s, d)[t] = doc[t]
<1> DEFINE docs == WithTab(s, d)
<1>1. /\ tabs \in Seq(Session) /\ s \notin Opened /\ tabs' = Append(tabs, s)
      /\ Commit(docs) /\ disk' = disk
  BY DEF LinksInv, AddTab, WithTab
<1>2. Opened' = Opened \cup {s}
  BY <1>1, AppendIsOpen DEF LinksInv, Opened
<1>3. DocsOK(doc, Opened)
  BY DEF LinksInv
<1>4. /\ \A t \in Opened : docs[t] = doc[t] /\ docs[t] \in Document
      /\ docs[s] = d /\ d \in Document
  BY <1>1, <1>3 DEF DocsOK, Loose, WithTab
<1>5. docs \in [Opened \cup {s} -> Document]
  BY <1>4 DEF WithTab
<1> HIDE DEF docs
<1>6. DocFits(docs[s], docs, Opened \cup {s}, s)
  BY <1>4, LooseFits
<1>7. ASSUME NEW t \in Opened PROVE DocFits(docs[t], docs, Opened \cup {s}, t)
  <2>1. DocFits(doc[t], doc, Opened, t)
    BY <1>3 DEF DocsOK
  <2> QED BY <1>4, <2>1 DEF DocFits
<1>8. DocsOK(docs, Opened \cup {s})
  BY <1>5, <1>6, <1>7 DEF DocsOK
<1> QED BY <1>1, <1>2, <1>4, <1>8 DEF docs

LEMMA AddTabStays ==
  ASSUME LinksInv, NEW s \in Session, NEW d, Loose(d), AddTab(s, d)
  PROVE  LinksInv'
<1>1. /\ tabs \in Seq(Session) /\ s \notin Opened /\ tabs' = Append(tabs, s)
      /\ active' = s /\ disk' = disk /\ closed' = closed
      /\ undo \in Stacks(Opened) /\ redo \in Stacks(Opened) /\ disk \in Disk
      /\ closed \subseteq Session
  BY DEF LinksInv, AddTab
<1>2. /\ tabs' \in Seq(Session) /\ Opened' = Opened \cup {s}
      /\ \A i, j \in DOMAIN tabs' : tabs'[i] = tabs'[j] => i = j
  BY <1>1, AppendIsOpen DEF LinksInv, Opened
<1>3. /\ doc' = Sync(WithTab(s, d), tabs') /\ rolled' = FALSE
      /\ DocsOK(WithTab(s, d), Opened')
  BY AddTabIs DEF Commit
<1>4. DocsOK(doc', Opened') /\ Follows(doc', tabs')
  BY <1>2, <1>3, FollowedIs DEF Opened
<1>5. undo' \in Stacks(Opened') /\ redo' \in Stacks(Opened')
  <2>1. <<>> \in Seq(KeptDocument)
    OBVIOUS
  <2>2. /\ undo' = [t \in Opened \cup {s} |-> IF t = s THEN <<>> ELSE undo[t]]
        /\ redo' = [t \in Opened \cup {s} |-> IF t = s THEN <<>> ELSE redo[t]]
    BY DEF AddTab
  <2> QED BY <1>1, <1>2, <2>1, <2>2 DEF Stacks
<1>6. active' \in Opened' \cup {None}
  BY <1>1, <1>2
<1> QED BY <1>1, <1>2, <1>3, <1>4, <1>5, <1>6 DEF LinksInv

LEMMA NewDocumentStays ==
  ASSUME LinksInv, NEW s \in Session, NEW kind \in {"part", "assembly"},
         NewDocument(s, kind)
  PROVE  LinksInv'
<1> DEFINE d == [kind |-> kind, path |-> None, dirty |-> FALSE, shape |-> {},
                 occs |-> <<>>]
<1>1. <<>> \in Occurrences /\ DOMAIN <<>> = {}
  <2>1. DOMAIN <<>> = {}
    OBVIOUS
  <2>2. <<>> \in [{} -> Occurrence]
    BY <2>1
  <2> QED BY <2>1, <2>2 DEF Occurrences
<1>2. /\ d \in Document /\ d.kind = kind /\ d.occs = <<>> /\ d.shape = {}
  BY <1>1 DEF Document, Shape
<1> HIDE DEF d
<1>3. Loose(d)
  BY <1>1, <1>2 DEF Loose, Apart, Compose
<1>4. AddTab(s, d)
  BY DEF NewDocument, d
<1> QED BY <1>3, <1>4, AddTabStays

LEMMA LoadDocumentStays ==
  ASSUME LinksInv, NEW s \in Session, NEW p \in Path, LoadDocument(s, p)
  PROVE  LinksInv'
<1>1. disk \in Disk
  BY DEF LinksInv
<1>2. Loose(FromFile(p)) /\ AddTab(s, FromFile(p))
  BY <1>1, FromFileIs DEF LoadDocument
<1> QED BY <1>2, AddTabStays

LEMMA ActivateDocumentStays ==
  ASSUME LinksInv, NEW s \in Session, ActivateDocument(s)
  PROVE  LinksInv'
<1>1. /\ tabs' = tabs /\ active' = s /\ s \in Opened /\ Commit(doc)
      /\ undo' = undo /\ redo' = redo /\ disk' = disk /\ closed' = closed
  BY DEF ActivateDocument
<1>2. /\ undo \in Stacks(Opened) /\ redo \in Stacks(Opened) /\ disk \in Disk
      /\ DocsOK(doc, Opened)
  BY DEF LinksInv
<1> QED BY <1>1, <1>2, CommitStays

----------------------------------------------------------------------------
(* Editing.                                                                *)

(* Who is linked to a tab names the file of that tab.                      *)
NamesSource(occ, docs) == occ.link # None => occ.path = docs[occ.link].path

ByPath(docs, S) ==
  \A s \in S : \A o \in DOMAIN docs[s].occs : NamesSource(docs[s].occs[o], docs)

(* The active document becomes d, which is a new object.                   *)
Editing(d) ==
  /\ active # None /\ d \in Document /\ DocFits(d, doc, Opened, active)
  /\ d.path = doc[active].path
  /\ ByPath(doc, Opened) =>
       \A o \in DOMAIN d.occs : NamesSource(d.occs[o], doc)
  /\ disk' = disk /\ Tracked(Put(doc, active, d))

(* The active assembly becomes d, and may be the object it was.            *)
Reshowing(d) ==
  /\ active # None /\ d \in Document
  /\ d.kind = doc[active].kind /\ d.kind # "part"
  /\ d.path = doc[active].path
  /\ DocsOK([doc EXCEPT ![active] = d], Opened)
  /\ \E o : /\ DOMAIN d.occs = {o} /\ DOMAIN doc[active].occs = {o}
            /\ doc[active].occs[o].same
            /\ d.occs[o].link = doc[active].occs[o].link
            /\ NamesSource(d.occs[o], doc)
  /\ disk' = disk /\ Tracked([doc EXCEPT ![active] = d])

LEMMA EditingStays ==
  ASSUME LinksInv, NEW d, Editing(d)
  PROVE  LinksInv'
<1>1. /\ active \in Opened /\ DocsOK(doc, Opened) /\ disk \in Disk
      /\ disk' = disk /\ active # None /\ d \in Document
      /\ DocFits(d, doc, Opened, active) /\ Tracked(Put(doc, active, d))
  BY DEF LinksInv, Editing
<1>2. DocsOK(Put(doc, active, d), Opened)
  BY <1>1, PutOK
<1> QED BY <1>1, <1>2, TrackedStays

LEMMA ReshowingStays ==
  ASSUME LinksInv, NEW d, Reshowing(d)
  PROVE  LinksInv'
<1>1. /\ disk \in Disk /\ disk' = disk /\ active # None
      /\ DocsOK([doc EXCEPT ![active] = d], Opened)
      /\ Tracked([doc EXCEPT ![active] = d])
  BY DEF LinksInv, Reshowing
<1> QED BY <1>1, TrackedStays

LEMMA EditedFits ==
  ASSUME NEW d, NEW v \in Version, NEW docs, NEW S, NEW s, d \in Document,
         DocFits(d, docs, S, s), d.kind = "part"
  PROVE  /\ [d EXCEPT !.shape = {v}] \in Document
         /\ DocFits([d EXCEPT !.shape = {v}], docs, S, s)
<1> DEFINE new == [d EXCEPT !.shape = {v}]
<1>1. new \in Document /\ new.kind = d.kind /\ new.occs = d.occs
  BY DEF Document, Shape
<1> HIDE DEF new
<1>2. DocFits(new, docs, S, s)
  BY <1>1 DEF DocFits
<1> QED BY <1>1, <1>2 DEF new

LEMMA EditPartIs ==
  ASSUME LinksInv, NEW v \in Version, EditPart(v)
  PROVE  \E d : Editing(d)
<1> DEFINE d == [doc[active] EXCEPT !.shape = {v}]
<1>1. /\ active # None /\ active \in Opened /\ DocsOK(doc, Opened)
      /\ doc[active].kind = "part" /\ disk' = disk
      /\ Tracked(Put(doc, active, d))
  BY DEF LinksInv, EditPart
<1>2. d \in Document /\ DocFits(d, doc, Opened, active)
  BY <1>1, DocKept, EditedFits
<1>3. doc[active] \in Document /\ DOMAIN doc[active].occs = {}
  BY <1>1, DocKept DEF KeptDocument
<1>4. d.path = doc[active].path /\ DOMAIN d.occs = {}
  BY <1>3 DEF Document
<1> HIDE DEF d
<1>5. Editing(d)
  BY <1>1, <1>2, <1>4 DEF Editing
<1> QED BY <1>5

(* A new shape of an assembly fits when each occurrence does.              *)
OccFits(occ, docs, S, s) ==
  /\ occ \in Occurrence /\ occ.link \in S \cup {None}
  /\ occ.same /\ occ.link # s =>
       occ.link \in S /\ occ.shape = docs[occ.link].shape

LEMMA RebuiltFits ==
  ASSUME NEW d \in Document, d.kind = "assembly", NEW docs, NEW S, NEW s,
         NEW occs, DOMAIN occs \in SUBSET Name,
         occs \in [DOMAIN occs -> Occurrence],
         \A o \in DOMAIN occs : OccFits(occs[o], docs, S, s)
  PROVE  /\ Rebuilt(d, occs) \in Document
         /\ DocFits(Rebuilt(d, occs), docs, S, s)
<1>1. occs \in Occurrences
  BY OccursType
<1>2. /\ Rebuilt(d, occs) \in Document /\ Rebuilt(d, occs).kind = "assembly"
      /\ Rebuilt(d, occs).occs = occs /\ Rebuilt(d, occs).shape = Compose(occs)
  BY <1>1, RebuiltIs
<1> QED BY <1>2 DEF DocFits, OccFits

LEMMA FitsOccs ==
  ASSUME NEW d \in Document, NEW docs, NEW S, NEW s, DocFits(d, docs, S, s)
  PROVE  /\ DOMAIN d.occs \in SUBSET Name
         /\ \A o \in DOMAIN d.occs : OccFits(d.occs[o], docs, S, s)
<1>1. DOMAIN d.occs \in SUBSET Name
      /\ \A o \in DOMAIN d.occs : d.occs[o] \in Occurrence
  BY DocumentParts
<1> QED BY <1>1 DEF DocFits, OccFits

(* Facts about the active assembly that its commands need.                 *)
LEMMA ActiveIs ==
  ASSUME LinksInv, ActiveIsAssembly
  PROVE  /\ active # None /\ active \in Opened /\ DocsOK(doc, Opened)
         /\ doc \in [Opened -> Document] /\ disk \in Disk
         /\ doc[active] \in Document /\ doc[active].kind = "assembly"
         /\ DocFits(doc[active], doc, Opened, active)
         /\ OwnPath \in SUBSET Path
<1>1. /\ active # None /\ active \in Opened /\ DocsOK(doc, Opened)
      /\ doc[active].kind = "assembly" /\ disk \in Disk
  BY DEF LinksInv, ActiveIsAssembly
<1>2. /\ doc \in [Opened -> Document] /\ doc[active] \in Document
      /\ DocFits(doc[active], doc, Opened, active)
  BY <1>1 DEF DocsOK
<1>3. doc[active].path \in Path \cup {None}
  BY <1>2, DocumentParts
<1> QED BY <1>1, <1>2, <1>3 DEF OwnPath

LEMMA BindFits ==
  ASSUME LinksInv, ActiveIsAssembly, NEW occ \in Occurrence,
         occ.link = None, ~occ.same
  PROVE  /\ OccFits(Bind(occ), doc, Opened, active)
         /\ Bind(occ).same =>
              Bind(occ).link \in Opened
              /\ Bind(occ).shape = doc[Bind(occ).link].shape
<1> DEFINE showing == Showing(doc, tabs, occ.path)
           s == tabs[Min(showing)]
<1>1. Bind(occ) = IF showing = {} THEN occ ELSE LinkTo(doc, s, occ)
  BY DEF Bind
<1>2. CASE showing = {}
  BY <1>1, <1>2 DEF OccFits
<1>3. CASE showing # {}
  <2>1. tabs \in Seq(Session) /\ Opened \in SUBSET Session
    BY OpenedIs DEF LinksInv, Opened
  <2>2. s \in Opened
    BY <1>3, <2>1, ShowingIs DEF Opened
  <2>3. doc[s].shape \in Shape
    <3>1. doc[s] \in Document
      BY <2>2, ActiveIs
    <3> QED BY <3>1, DocumentParts
  <2> HIDE DEF s, showing
  <2>4. /\ LinkTo(doc, s, occ) \in Occurrence /\ LinkTo(doc, s, occ).link = s
        /\ LinkTo(doc, s, occ).shape = doc[s].shape
    BY <2>1, <2>2, <2>3, LinkToIs
  <2> QED BY <1>1, <1>3, <2>2, <2>4 DEF OccFits
<1> QED BY <1>2, <1>3

(* A bound occurrence names the file of the tab it is linked to.           *)
LEMMA BindNames ==
  ASSUME LinksInv, ActiveIsAssembly, NEW occ \in Occurrence, occ.link = None
  PROVE  NamesSource(Bind(occ), doc)
<1> DEFINE showing == Showing(doc, tabs, occ.path)
           s == tabs[Min(showing)]
<1>1. Bind(occ) = IF showing = {} THEN occ ELSE LinkTo(doc, s, occ)
  BY DEF Bind
<1>2. CASE showing = {}
  BY <1>1, <1>2 DEF NamesSource
<1>3. CASE showing # {}
  <2>1. tabs \in Seq(Session) /\ Opened \in SUBSET Session
    BY OpenedIs DEF LinksInv, Opened
  <2>2. s \in Opened /\ doc[s].path = occ.path
    BY <1>3, <2>1, ShowingIs DEF Opened
  <2>3. doc[s].shape \in Shape
    <3>1. doc[s] \in Document
      BY <2>2, ActiveIs
    <3> QED BY <3>1, DocumentParts
  <2> HIDE DEF s, showing
  <2>4. /\ LinkTo(doc, s, occ).path = occ.path
        /\ LinkTo(doc, s, occ).link = s
    BY <2>1, <2>2, <2>3, LinkToIs
  <2> QED BY <1>1, <1>3, <2>2, <2>4 DEF NamesSource
<1> QED BY <1>2, <1>3

LEMMA LoadedOccurrence ==
  ASSUME LinksInv, ActiveIsAssembly, NEW p \in Path, NEW occ,
         occ = [path |-> p, link |-> None, same |-> FALSE,
                shape |-> UNION Found(disk, OwnPath, p)]
  PROVE  occ \in Occurrence /\ occ.link = None /\ ~occ.same
<1>1. UNION Found(disk, OwnPath, p) \in Shape
  BY ActiveIs, FoundType
<1> QED BY <1>1 DEF Occurrence

(* The only occurrence of the assembly changes, and still shows the tab it *)
(* showed: the assembly may be the object it was.                          *)
LEMMA KeptObjectOK ==
  ASSUME LinksInv, ActiveIsAssembly, NEW o, NEW occ, NEW d,
         MayKeepObject(doc[active], o, occ),
         occ.same => occ.link \in Opened /\ occ.shape = doc[occ.link].shape,
         d \in Document, DocFits(d, doc, Opened, active),
         d.kind = "assembly", DOMAIN d.occs = {o}, d.occs[o] = occ
  PROVE  DocsOK([doc EXCEPT ![active] = d], Opened)
<1> DEFINE new == [doc EXCEPT ![active] = d]
           old == doc[active].occs[o]
<1>1. /\ active \in Opened /\ DocsOK(doc, Opened)
      /\ doc \in [Opened -> Document] /\ doc[active].kind = "assembly"
      /\ DocFits(doc[active], doc, Opened, active)
  BY ActiveIs
<1>2. /\ DOMAIN doc[active].occs = {o} /\ old.same /\ occ.same
      /\ old.link = occ.link /\ occ.link \in Opened
      /\ occ.shape = doc[occ.link].shape
  BY DEF MayKeepObject
<1>3. d.shape = occ.shape
  <2>1. d.shape = Compose(d.occs)
    BY DEF DocFits
  <2> QED BY <2>1 DEF Compose
<1>4. doc[active].shape = old.shape
  <2>1. doc[active].shape = Compose(doc[active].occs)
    BY <1>1 DEF DocFits
  <2> QED BY <1>2, <2>1 DEF Compose
<1>5. d.shape = doc[active].shape
  <2>1. CASE occ.link = active
    BY <1>2, <1>3, <2>1
  <2>2. CASE occ.link # active
    <3>1. old.shape = doc[old.link].shape
      BY <1>1, <1>2, <2>2 DEF DocFits
    <3> QED BY <1>2, <1>3, <1>4, <3>1
  <2> QED BY <2>1, <2>2
<1>6. /\ new \in [Opened -> Document] /\ new[active] = d
      /\ \A s \in Opened : s # active => new[s] = doc[s]
  BY <1>1
<1> HIDE DEF new
<1>7. \A s \in Opened : new[s].shape = doc[s].shape
  BY <1>5, <1>6
<1>8. ASSUME NEW s \in Opened PROVE DocFits(new[s], new, Opened, s)
  <2>1. DocFits(new[s], doc, Opened, s)
    <3>1. CASE s = active
      BY <1>6, <3>1
    <3>2. CASE s # active
      BY <1>1, <1>6, <3>2 DEF DocsOK
    <3> QED BY <3>1, <3>2
  <2> QED BY <1>7, <2>1 DEF DocFits
<1> QED BY <1>6, <1>8 DEF DocsOK, new

LEMMA PlaceIs ==
  ASSUME LinksInv, NEW o \in Name, NEW p \in Path, Place(o, p)
  PROVE  \E d : Editing(d) \/ Reshowing(d)
<1> DEFINE new == [path |-> p, link |-> None, same |-> FALSE,
                   shape |-> UNION Found(disk, OwnPath, p)]
           occ == Bind(new)
           old == doc[active].occs
           occs == [n \in DOMAIN old \cup {o} |-> IF n = o THEN occ ELSE old[n]]
           d == Rebuilt(doc[active], occs)
<1>1. /\ ActiveIsAssembly /\ disk' = disk
      /\ \/ Tracked(Put(doc, active, d))
         \/ /\ MayKeepObject(doc[active], o, occ)
            /\ Tracked([doc EXCEPT ![active] = d])
  BY DEF Place
<1>2. /\ active # None /\ active \in Opened /\ DocsOK(doc, Opened)
      /\ disk \in Disk /\ doc[active] \in Document
      /\ doc[active].kind = "assembly"
      /\ DocFits(doc[active], doc, Opened, active)
  BY <1>1, ActiveIs
<1>3. /\ OccFits(occ, doc, Opened, active) /\ NamesSource(occ, doc)
      /\ occ.same => occ.link \in Opened /\ occ.shape = doc[occ.link].shape
  <2>1. new \in Occurrence /\ new.link = None /\ ~new.same
    BY <1>1, LoadedOccurrence
  <2> HIDE DEF new
  <2> QED BY <1>1, <2>1, BindFits, BindNames
<1> HIDE DEF occ
<1>4. /\ DOMAIN occs = DOMAIN old \cup {o} /\ DOMAIN occs \in SUBSET Name
      /\ occs[o] = occ /\ \A n \in DOMAIN occs : n # o => occs[n] = old[n]
      /\ \A n \in DOMAIN occs : OccFits(occs[n], doc, Opened, active)
  <2>1. /\ DOMAIN old \in SUBSET Name
        /\ \A n \in DOMAIN old : OccFits(old[n], doc, Opened, active)
    BY <1>2, FitsOccs
  <2> QED BY <1>3, <2>1
<1>5. occs \in [DOMAIN occs -> Occurrence]
  <2>1. \A n \in DOMAIN occs : occs[n] \in Occurrence
    BY <1>4 DEF OccFits
  <2> QED BY <1>4, <2>1
<1> HIDE DEF occs
<1>6. /\ d \in Document /\ DocFits(d, doc, Opened, active)
  BY <1>2, <1>4, <1>5, RebuiltFits
<1>7. d.kind = "assembly" /\ d.occs = occs /\ d.path = doc[active].path
  <2>1. occs \in Occurrences
    BY <1>4, <1>5, OccursType
  <2> QED BY <1>2, <2>1, RebuiltIs
<1> HIDE DEF d
<1>8. ASSUME Tracked(Put(doc, active, d)) PROVE Editing(d)
  <2>1. ByPath(doc, Opened) =>
          \A n \in DOMAIN d.occs : NamesSource(d.occs[n], doc)
    BY <1>2, <1>3, <1>4, <1>7 DEF ByPath
  <2> QED BY <1>1, <1>2, <1>6, <1>7, <1>8, <2>1 DEF Editing
<1>9. ASSUME MayKeepObject(doc[active], o, occ),
             Tracked([doc EXCEPT ![active] = d])
      PROVE  Reshowing(d)
  <2>1. /\ DOMAIN d.occs = {o} /\ d.occs[o] = occ
        /\ DOMAIN doc[active].occs = {o} /\ doc[active].occs[o].same
        /\ d.occs[o].link = doc[active].occs[o].link
    BY <1>4, <1>7, <1>9 DEF MayKeepObject
  <2>2. DocsOK([doc EXCEPT ![active] = d], Opened)
    BY <1>1, <1>3, <1>6, <1>7, <1>9, <2>1, KeptObjectOK
  <2>3. NamesSource(d.occs[o], doc)
    BY <1>3, <2>1
  <2> QED BY <1>1, <1>2, <1>6, <1>7, <1>9, <2>1, <2>2, <2>3 DEF Reshowing
<1> QED BY <1>1, <1>8, <1>9

LEMMA ReplaceIs ==
  ASSUME LinksInv, NEW o \in Name, NEW p \in Path, Replace(o, p)
  PROVE  \E d : Editing(d)
<1> DEFINE occ == [path |-> p, link |-> None, same |-> FALSE,
                   shape |-> UNION Found(disk, OwnPath, p)]
           old == doc[active].occs
           occs(names) == [n \in DOMAIN old |->
                             IF n \in names THEN occ ELSE old[n]]
           d(names) == Rebuilt(doc[active], occs(names))
<1>1. ActiveIsAssembly /\ disk' = disk
  BY DEF Replace
<1>2. PICK names : Tracked(Put(doc, active, d(names)))
  BY DEF Replace
<1>3. /\ active # None /\ active \in Opened /\ DocsOK(doc, Opened)
      /\ disk \in Disk /\ doc[active] \in Document
      /\ doc[active].kind = "assembly"
      /\ DocFits(doc[active], doc, Opened, active)
  BY <1>1, ActiveIs
<1>4. OccFits(occ, doc, Opened, active) /\ NamesSource(occ, doc)
  <2>1. occ \in Occurrence /\ occ.link = None /\ ~occ.same
    BY <1>1, LoadedOccurrence
  <2> HIDE DEF occ
  <2> QED BY <2>1 DEF OccFits, NamesSource
<1> HIDE DEF occ
<1> DEFINE all == occs(names)
<1>5. /\ DOMAIN all = DOMAIN old /\ DOMAIN all \in SUBSET Name
      /\ \A n \in DOMAIN all : OccFits(all[n], doc, Opened, active)
      /\ \A n \in DOMAIN all : all[n] = occ \/ all[n] = old[n]
  <2>1. /\ DOMAIN old \in SUBSET Name
        /\ \A n \in DOMAIN old : OccFits(old[n], doc, Opened, active)
    BY <1>3, FitsOccs
  <2> QED BY <1>4, <2>1
<1>6. all \in [DOMAIN all -> Occurrence]
  <2>1. \A n \in DOMAIN all : all[n] \in Occurrence
    BY <1>5 DEF OccFits
  <2> QED BY <1>5, <2>1
<1>7. d(names) = Rebuilt(doc[active], all)
  OBVIOUS
<1> HIDE DEF all, d
<1>8. d(names) \in Document /\ DocFits(d(names), doc, Opened, active)
  BY <1>3, <1>5, <1>6, <1>7, RebuiltFits
<1>9. d(names).occs = all /\ d(names).path = doc[active].path
  <2>1. all \in Occurrences
    BY <1>5, <1>6, OccursType
  <2> QED BY <1>3, <1>7, <2>1, RebuiltIs
<1>10. ByPath(doc, Opened) =>
         \A n \in DOMAIN d(names).occs : NamesSource(d(names).occs[n], doc)
  BY <1>3, <1>4, <1>5, <1>9 DEF ByPath
<1> QED BY <1>1, <1>2, <1>3, <1>8, <1>9, <1>10 DEF Editing

(* An assembly without some of its occurrences.                            *)
LEMMA FewerFits ==
  ASSUME NEW d \in Document, d.kind = "assembly", NEW docs, NEW S, NEW s,
         DocFits(d, docs, S, s), NEW N \in SUBSET DOMAIN d.occs, NEW occs,
         occs = [n \in N |-> d.occs[n]]
  PROVE  /\ Rebuilt(d, occs) \in Document
         /\ DocFits(Rebuilt(d, occs), docs, S, s)
<1>1. /\ DOMAIN d.occs \in SUBSET Name
      /\ \A o \in DOMAIN d.occs : OccFits(d.occs[o], docs, S, s)
  BY FitsOccs
<1>2. /\ DOMAIN occs \in SUBSET Name
      /\ \A o \in DOMAIN occs : OccFits(occs[o], docs, S, s)
  BY <1>1
<1>3. occs \in [DOMAIN occs -> Occurrence]
  BY <1>2 DEF OccFits
<1> QED BY <1>2, <1>3, RebuiltFits

LEMMA DeleteOccurrenceIs ==
  ASSUME LinksInv, NEW o \in Name, DeleteOccurrence(o)
  PROVE  \E d : Editing(d)
<1> DEFINE old == doc[active].occs
           occs == [n \in DOMAIN old \ {o} |-> old[n]]
           d == Rebuilt(doc[active], occs)
<1>1. ActiveIsAssembly /\ disk' = disk /\ Tracked(Put(doc, active, d))
  BY DEF DeleteOccurrence
<1>2. /\ active # None /\ active \in Opened /\ DocsOK(doc, Opened)
      /\ disk \in Disk /\ doc[active] \in Document
      /\ doc[active].kind = "assembly"
      /\ DocFits(doc[active], doc, Opened, active)
  BY <1>1, ActiveIs
<1>3. d \in Document /\ DocFits(d, doc, Opened, active)
  BY <1>2, FewerFits
<1>4. d.occs = occs /\ d.path = doc[active].path
  <2>1. occs \in Occurrences
    <3>1. old \in Occurrences
      BY <1>2, DocumentParts
    <3>2. DOMAIN old \in SUBSET Name /\ old \in [DOMAIN old -> Occurrence]
      BY <3>1, OccursType
    <3> HIDE DEF old
    <3>3. DOMAIN occs \in SUBSET Name /\ occs \in [DOMAIN occs -> Occurrence]
      BY <3>2
    <3> QED BY <3>3, OccursType
  <2> HIDE DEF occs
  <2> QED BY <1>2, <2>1, RebuiltIs
<1> HIDE DEF d
<1>5. ByPath(doc, Opened) =>
        \A n \in DOMAIN d.occs : NamesSource(d.occs[n], doc)
  BY <1>2, <1>4 DEF ByPath
<1> QED BY <1>1, <1>2, <1>3, <1>4, <1>5 DEF Editing

----------------------------------------------------------------------------
(* Undoing, and commands that raise.                                       *)

LEMMA LooseDocs ==
  ASSUME NEW S, NEW ds, DOMAIN ds = S, ds = [s \in S |-> ds[s]],
         \A s \in S : Loose(ds[s])
  PROVE  DocsOK(ds, S)
<1>1. \A s \in S : ds[s] \in Document
  BY DEF Loose
<1>2. \A s \in S : DocFits(ds[s], ds, S, s)
  BY LooseFits
<1>3. ds \in [S -> Document]
  BY <1>1
<1> QED BY <1>2, <1>3 DEF DocsOK

LEMMA RestoreStays ==
  ASSUME LinksInv, NEW files \in Disk, NEW left, DocsOK(left, Opened),
         disk' \in Disk, RestoreWorkspace(files, left)
  PROVE  LinksInv'
<1> DEFINE back == [s \in Opened |-> Restored(files, doc[s])]
<1>1. /\ tabs' = tabs /\ active' = active /\ closed' = closed
      /\ undo' = undo /\ redo' = redo /\ rolled' = TRUE
      /\ doc' = back \/ doc' = left
  BY DEF RestoreWorkspace
<1>2. DocsOK(back, Opened)
  <2>1. \A s \in Opened : Loose(Restored(files, doc[s]))
    BY DocKept, RestoredIs DEF LinksInv
  <2>2. /\ DOMAIN back = Opened /\ back = [s \in Opened |-> back[s]]
        /\ \A s \in Opened : Loose(back[s])
    BY <2>1
  <2> HIDE DEF back
  <2> QED BY <2>2, LooseDocs
<1> HIDE DEF back
<1>3. DocsOK(doc', Opened)
  BY <1>1, <1>2
<1>4. /\ undo \in Stacks(Opened) /\ redo \in Stacks(Opened)
      /\ active \in Opened \cup {None}
  BY DEF LinksInv
<1> QED BY <1>1, <1>3, <1>4, StayInv

LEMMA HalfDoneOK ==
  ASSUME LinksInv, active # None, NEW left \in HalfDone
  PROVE  DocsOK(left, Opened)
<1>1. /\ active \in Opened /\ DocsOK(doc, Opened) /\ doc[active] \in Document
      /\ DocFits(doc[active], doc, Opened, active)
  BY DocKept DEF LinksInv
<1>2. CASE left = doc
  BY <1>1, <1>2
<1>3. CASE left # doc
  <2>1. CASE doc[active].kind = "part"
    <3>1. PICK v \in Version :
            left = Put(doc, active, [doc[active] EXCEPT !.shape = {v}])
      BY <1>3, <2>1 DEF HalfDone
    <3> DEFINE d == [doc[active] EXCEPT !.shape = {v}]
    <3>2. d \in Document /\ DocFits(d, doc, Opened, active)
      BY <1>1, <2>1, EditedFits
    <3> HIDE DEF d
    <3>3. DocsOK(Put(doc, active, d), Opened)
      BY <1>1, <3>2, PutOK
    <3> QED BY <3>1, <3>3 DEF d
  <2>2. CASE doc[active].kind # "part"
    <3> DEFINE old == doc[active].occs
               occs(o) == [n \in DOMAIN old \ {o} |-> old[n]]
               d(o) == Rebuilt(doc[active], occs(o))
    <3>1. PICK o \in DOMAIN old : left = Put(doc, active, d(o))
      BY <1>3, <2>2 DEF HalfDone
    <3>2. doc[active].kind = "assembly"
      BY <1>1, <2>2, DocumentParts
    <3>3. d(o) \in Document /\ DocFits(d(o), doc, Opened, active)
      BY <1>1, <3>2, FewerFits
    <3> HIDE DEF d
    <3>4. DocsOK(Put(doc, active, d(o)), Opened)
      BY <1>1, <3>3, PutOK
    <3> QED BY <3>1, <3>4
  <2> QED BY <2>1, <2>2
<1> QED BY <1>2, <1>3

LEMMA FailingCommandStays ==
  ASSUME LinksInv, FailingCommand
  PROVE  LinksInv'
<1>1. active # None /\ disk' = disk /\ disk \in Disk
  BY DEF FailingCommand, LinksInv
<1>2. PICK left \in HalfDone : RestoreWorkspace(disk, left)
  BY DEF FailingCommand
<1>3. DocsOK(left, Opened)
  BY <1>1, HalfDoneOK
<1> QED BY <1>1, <1>2, <1>3, RestoreStays

(* The stacks after undo and redo, from one to the other.                  *)
LEMMA MovedIs ==
  ASSUME LinksInv, active # None,
         NEW from \in Stacks(Opened), NEW to \in Stacks(Opened),
         from[active] # <<>>
  PROVE  /\ [from EXCEPT ![active] = Front(@)] \in Stacks(Opened)
         /\ [to EXCEPT ![active] = Push(@, doc[active])] \in Stacks(Opened)
         /\ Last(from[active]) \in KeptDocument
<1>1. active \in Opened /\ doc[active] \in KeptDocument
  BY DocKept DEF LinksInv
<1>2. from[active] \in Seq(KeptDocument) /\ to[active] \in Seq(KeptDocument)
  BY <1>1 DEF Stacks
<1> DEFINE front == Front(from[active])
           top == Push(to[active], doc[active])
<1>3. front \in Seq(KeptDocument) /\ Last(from[active]) \in KeptDocument
  BY <1>2, FrontLastProperties
<1>4. top \in Seq(KeptDocument)
  BY <1>1, <1>2, PushIs
<1>5. /\ [from EXCEPT ![active] = Front(@)] = [from EXCEPT ![active] = front]
      /\ [to EXCEPT ![active] = Push(@, doc[active])]
           = [to EXCEPT ![active] = top]
  BY <1>1 DEF Stacks
<1> HIDE DEF front, top
<1>6. /\ [from EXCEPT ![active] = front] \in Stacks(Opened)
      /\ [to EXCEPT ![active] = top] \in Stacks(Opened)
  BY <1>1, <1>3, <1>4 DEF Stacks
<1> QED BY <1>3, <1>5, <1>6

LEMMA ShownAgain ==
  ASSUME LinksInv, active # None, NEW d \in KeptDocument
  PROVE  DocsOK(Put(doc, active, Restored(disk, d)), Opened)
<1>1. active \in Opened /\ DocsOK(doc, Opened) /\ disk \in Disk
  BY DEF LinksInv
<1>2. Loose(Restored(disk, d))
  BY <1>1, RestoredIs
<1>3. /\ Restored(disk, d) \in Document
      /\ DocFits(Restored(disk, d), doc, Opened, active)
  BY <1>2, LooseFits
<1> QED BY <1>1, <1>3, PutOK

LEMMA UndoRedoStay ==
  ASSUME LinksInv, Undo \/ Redo
  PROVE  LinksInv'
<1>1. /\ undo \in Stacks(Opened) /\ redo \in Stacks(Opened) /\ disk \in Disk
      /\ active \in Opened \cup {None}
  BY DEF LinksInv
<1>2. CASE Undo
  <2> DEFINE d == Last(undo[active])
  <2>1. /\ active # None /\ undo[active] # <<>>
        /\ undo' = [undo EXCEPT ![active] = Front(@)]
        /\ redo' = [redo EXCEPT ![active] = Push(@, doc[active])]
        /\ tabs' = tabs /\ active' = active /\ disk' = disk /\ closed' = closed
        /\ Commit(Put(doc, active, Restored(disk, d)))
    BY <1>2 DEF Undo
  <2>2. undo' \in Stacks(Opened) /\ redo' \in Stacks(Opened)
          /\ d \in KeptDocument
    BY <1>1, <2>1, MovedIs
  <2> HIDE DEF d
  <2>3. DocsOK(Put(doc, active, Restored(disk, d)), Opened)
    BY <2>1, <2>2, ShownAgain
  <2> QED BY <1>1, <2>1, <2>2, <2>3, CommitStays
<1>3. CASE Redo
  <2> DEFINE d == Last(redo[active])
  <2>1. /\ active # None /\ redo[active] # <<>>
        /\ redo' = [redo EXCEPT ![active] = Front(@)]
        /\ undo' = [undo EXCEPT ![active] = Push(@, doc[active])]
        /\ tabs' = tabs /\ active' = active /\ disk' = disk /\ closed' = closed
        /\ Commit(Put(doc, active, Restored(disk, d)))
    BY <1>3 DEF Redo
  <2>2. undo' \in Stacks(Opened) /\ redo' \in Stacks(Opened)
          /\ d \in KeptDocument
    BY <1>1, <2>1, MovedIs
  <2> HIDE DEF d
  <2>3. DocsOK(Put(doc, active, Restored(disk, d)), Opened)
    BY <2>1, <2>2, ShownAgain
  <2> QED BY <1>1, <2>1, <2>2, <2>3, CommitStays
<1> QED BY <1>2, <1>3

LEMMA UndoRedoFailStay ==
  ASSUME LinksInv, UndoFails \/ RedoFails
  PROVE  LinksInv'
<1>1. /\ undo \in Stacks(Opened) /\ redo \in Stacks(Opened) /\ disk \in Disk
      /\ active \in Opened \cup {None} /\ DocsOK(doc, Opened)
  BY DEF LinksInv
<1>5. ~rolled => Follows(doc, tabs)
  BY Zenon DEF LinksInv
<1>2. disk' = disk /\ active # None
  BY DEF UndoFails, RedoFails
<1>3. CASE RestoreWorkspace(disk, doc)
  BY <1>1, <1>2, <1>3, RestoreStays
<1>4. CASE ~RestoreWorkspace(disk, doc)
  <2>1. /\ tabs' = tabs /\ active' = active /\ doc' = doc /\ closed' = closed
        /\ rolled' = rolled
        /\ \/ /\ undo[active] # <<>>
              /\ undo' = [undo EXCEPT ![active] = Front(@)]
              /\ redo' = [redo EXCEPT ![active] = Push(@, doc[active])]
           \/ /\ redo[active] # <<>>
              /\ redo' = [redo EXCEPT ![active] = Front(@)]
              /\ undo' = [undo EXCEPT ![active] = Push(@, doc[active])]
    BY <1>4 DEF UndoFails, RedoFails
  <2>2. undo' \in Stacks(Opened) /\ redo' \in Stacks(Opened)
    BY <1>1, <1>2, <2>1, MovedIs
  <2>3. ~rolled => Follows(doc', tabs)
    BY Zenon, <1>5, <2>1
  <2>4. DocsOK(doc', Opened) /\ disk' \in Disk
    BY Zenon, <1>1, <1>2, <2>1
  <2> QED BY Zenon, <2>1, <2>2, <2>3, <2>4, IdleStays
<1> QED BY <1>3, <1>4

----------------------------------------------------------------------------
(* Saving.                                                                 *)

DependsBy(x, before) ==
  before = [i \in 0..Len(tabs) |->
              IF i = 0 THEN Linked({x})
              ELSE before[i - 1] \cup Linked(before[i - 1])]

LEMMA DependenciesAre ==
  ASSUME LinksInv, NEW x
  PROVE  /\ Dependencies(x) \in SUBSET Opened
         /\ Linked({x}) \subseteq Dependencies(x)
         /\ Linked(Dependencies(x)) \subseteq Dependencies(x)
<1> DEFINE n == Len(tabs)
           c == Linked({x})
           V == SUBSET Opened
           h == [i \in 1..n |-> [v \in V |-> v \cup Linked(v)]]
<1>1. /\ n \in Nat /\ IsFiniteSet(Opened) /\ Cardinality(Opened) <= n
      /\ Cardinality(Opened) \in Nat
  BY RangeIsSmall DEF LinksInv, Opened
<1>2. c \in V /\ \A v : Linked(v) \in V
  BY DEF Linked, Dirty
<1> HIDE DEF n, c, V
<1>3. \A v \in V : v \cup Linked(v) \in V
  BY <1>2 DEF V
<1>4. PICK f \in [0..n -> V] : IteratesTo(f, c, h, n)
  <2>1. h \in [1..n -> [V -> V]]
    BY <1>3
  <2> HIDE DEF h
  <2> QED BY <1>1, <1>2, <2>1, RecursionOver
<1>5. DependsBy(x, f)
  <2>1. f = [i \in 0..n |-> IF i = 0 THEN c ELSE h[i][f[i - 1]]]
    BY <1>4 DEF IteratesTo
  <2>2. ASSUME NEW i \in 0..n
        PROVE  f[i] = IF i = 0 THEN c ELSE f[i - 1] \cup Linked(f[i - 1])
    <3>1. CASE i = 0
      BY <2>1, <3>1
    <3>2. CASE i # 0
      <4>1. i \in 1..n /\ f[i - 1] \in V
        BY <1>1, <1>4, <3>2
      <4>2. h[i][f[i - 1]] = f[i - 1] \cup Linked(f[i - 1])
        BY <4>1
      <4> HIDE DEF h
      <4>3. f[i] = h[i][f[i - 1]]
        BY <2>1, <3>2
      <4> QED BY <3>2, <4>2, <4>3
    <3> QED BY <3>1, <3>2
  <2> HIDE DEF h
  <2>3. f = [i \in 0..n |->
               IF i = 0 THEN c ELSE f[i - 1] \cup Linked(f[i - 1])]
    BY <1>4, <2>2
  <2> QED BY <2>3 DEF DependsBy, n, c
<1> DEFINE those(a) == DependsBy(x, a)
           it == CHOOSE a : those(a)
<1>6. those(it)
  <2> HIDE DEF those
  <2> QED BY <1>5 DEF those
<1>7. Dependencies(x) = it[n]
  BY Zenon DEF Dependencies, DependsBy, n
<1> HIDE DEF it
<1>8. it = [i \in 0..n |->
              IF i = 0 THEN c ELSE it[i - 1] \cup Linked(it[i - 1])]
  BY <1>6 DEF DependsBy, n, c
<1> HIDE DEF those, h
<1>9. it[0] = c /\ \A i \in 1..n : it[i] = it[i - 1] \cup Linked(it[i - 1])
  <2>1. 0 \in 0..n /\ \A i \in 1..n : i \in 0..n /\ i # 0
    BY <1>1
  <2> QED BY <1>8, <2>1
<1>10. \A i \in 0..n : it[i] \in V
  <2> DEFINE T == {i \in 0..n : it[i] \in V}
  <2>1. 0 \in T
    BY <1>1, <1>2, <1>9
  <2>2. ASSUME NEW i \in 1..n, i - 1 \in T PROVE i \in T
    BY <1>1, <1>3, <1>9, <2>2
  <2>3. 0..n \subseteq T
    <3> HIDE DEF T
    <3> QED BY <1>1, <2>1, <2>2, InductionTo
  <2> QED BY <2>3
<1>11. c \subseteq it[n]
  <2> DEFINE T == {i \in 0..n : c \subseteq it[i]}
  <2>1. 0 \in T
    BY <1>1, <1>9
  <2>2. ASSUME NEW i \in 1..n, i - 1 \in T PROVE i \in T
    BY <1>1, <1>9, <2>2
  <2>3. 0..n \subseteq T
    <3> HIDE DEF T
    <3> QED BY <1>1, <2>1, <2>2, InductionTo
  <2> QED BY <1>1, <2>3
<1>12. ASSUME NEW k \in 0..n, Linked(it[k]) \subseteq it[k]
       PROVE  Linked(it[n]) \subseteq it[n]
  <2> DEFINE T == {i \in 0..n : i < k \/ it[i] = it[k]}
  <2>1. 0 \in T
    BY <1>1
  <2>2. ASSUME NEW i \in 1..n, i - 1 \in T PROVE i \in T
    <3>1. i < k \/ i = k \/ it[i - 1] = it[k]
      BY <1>1, <2>2
    <3>2. it[i] = it[i - 1] \cup Linked(it[i - 1])
      BY <1>9
    <3>3. ASSUME it[i - 1] = it[k] PROVE it[i] = it[k]
      <4>1. it[i] = it[k] \cup Linked(it[k])
        BY <3>2, <3>3
      <4> QED BY <1>12, <4>1
    <3>4. i < k \/ it[i] = it[k]
      BY <3>1, <3>3
    <3> QED BY <1>1, <3>4
  <2>3. 0..n \subseteq T
    <3> HIDE DEF T
    <3> QED BY <1>1, <2>1, <2>2, InductionTo
  <2>4. n \in T
    BY <1>1, <2>3
  <2>5. it[n] = it[k]
    BY <1>1, <2>4
  <2> QED BY <1>12, <2>5
<1>13. Linked(it[n]) \subseteq it[n]
  <2> DEFINE F == [i \in 0..(n + 1) |-> IF i = 0 THEN {} ELSE it[i - 1]]
  <2>1. \A i \in 0..(n + 1) : F[i] \subseteq Opened
    BY <1>1, <1>10 DEF V
  <2>2. F[0] = {} /\ \A i \in 1..(n + 1) : F[i] = it[i - 1]
    BY <1>1
  <2>3. \A i \in 0..n : F[i] \subseteq F[i + 1]
    BY <1>1, <1>9, <2>2
  <2> HIDE DEF F
  <2>4. PICK k \in 0..n : F[k] = F[k + 1]
    <3>1. Growing(F, Opened, n)
      BY <2>1, <2>3 DEF Growing
    <3> QED BY <1>1, <3>1, Saturates
  <2>5. CASE k = 0
    <3>1. it[0] = {}
      BY <1>1, <2>2, <2>4, <2>5
    <3>2. Linked(it[0]) \subseteq it[0]
      BY <3>1 DEF Linked
    <3> QED BY <1>1, <1>12, <3>2
  <2>6. CASE k # 0
    <3>1. k \in 1..n /\ k - 1 \in 0..n
      BY <1>1, <2>6
    <3>2. it[k - 1] = it[k]
      BY <1>1, <2>2, <2>4, <3>1
    <3>3. it[k] = it[k - 1] \cup Linked(it[k - 1])
      BY <1>9, <3>1
    <3> QED BY <1>12, <3>1, <3>2, <3>3
  <2> QED BY <2>5, <2>6
<1>14. it[n] \in V
  BY <1>1, <1>10
<1> QED BY <1>7, <1>11, <1>13, <1>14 DEF V, c

LEMMA DisksAre ==
  ASSUME LinksInv, NEW S \in SUBSET Opened, NEW files \in Disks(S)
  PROVE  files \in Disk
<1> DEFINE paths == {doc[s].path : s \in S}
<1>1. PICK w \in [paths -> S] :
        files = [p \in Path |-> IF p \in DOMAIN w THEN FileOf(doc[w[p]])
                                ELSE disk[p]]
  BY DEF Disks
<1>2. disk \in Disk /\ DocsOK(doc, Opened)
  BY DEF LinksInv
<1> HIDE DEF paths
<1>3. ASSUME NEW p \in Path
      PROVE  (IF p \in DOMAIN w THEN FileOf(doc[w[p]]) ELSE disk[p])
               \in Written \cup {None}
  <2>1. CASE p \in DOMAIN w
    <3>1. w[p] \in Opened
      BY <2>1
    <3>2. doc[w[p]] \in KeptDocument
      BY <1>2, <3>1, DocKept
    <3>3. FileOf(doc[w[p]]) \in Written
      BY <3>2, FileOfIs
    <3> QED BY <2>1, <3>3
  <2>2. CASE p \notin DOMAIN w
    BY <1>2, <2>2 DEF Disk
  <2> QED BY <2>1, <2>2
<1> QED BY <1>1, <1>3 DEF Disk

LEMMA WrittenAt ==
  ASSUME LinksInv, active # None, NEW files \in Disk, NEW p
  PROVE  [files EXCEPT ![p] = FileOf(doc[active])] \in Disk
<1>1. doc[active] \in KeptDocument
  BY DocKept DEF LinksInv
<1> DEFINE f == FileOf(doc[active])
<1>2. f \in Written
  BY <1>1, FileOfIs
<1> HIDE DEF f
<1>3. [files EXCEPT ![p] = f] \in Disk
  BY <1>2 DEF Disk
<1> QED BY <1>3 DEF f

LEMMA SavedIs ==
  ASSUME LinksInv, NEW X
  PROVE  /\ Saved(X) \in [Opened -> Document] /\ DocsOK(Saved(X), Opened)
         /\ \A s \in Opened :
              /\ Saved(X)[s].kind = doc[s].kind
              /\ Saved(X)[s].path = doc[s].path
              /\ Saved(X)[s].shape = doc[s].shape
              /\ Saved(X)[s].occs = doc[s].occs
<1>1. DocsOK(doc, Opened) /\ doc \in [Opened -> Document]
  BY DEF LinksInv, DocsOK
<1> DEFINE new(s) == [doc[s] EXCEPT !.dirty = @ /\ s \notin X]
<1>2. ASSUME NEW s \in Opened
      PROVE  /\ new(s) \in Document /\ new(s).kind = doc[s].kind
             /\ new(s).path = doc[s].path /\ new(s).shape = doc[s].shape
             /\ new(s).occs = doc[s].occs
  <2> DEFINE b == doc[s].dirty /\ s \notin X
  <2>1. b \in BOOLEAN
    BY Zenon
  <2>2. new(s) = [doc[s] EXCEPT !.dirty = b]
    BY Zenon
  <2>3. doc[s] \in Document
    BY <1>1
  <2> HIDE DEF b, new
  <2> QED BY <2>1, <2>2, <2>3 DEF Document
<1>3. Saved(X) = [s \in Opened |-> new(s)]
  BY DEF Saved
<1> HIDE DEF new
<1>4. /\ Saved(X) \in [Opened -> Document]
      /\ \A s \in Opened :
           /\ Saved(X)[s].kind = doc[s].kind
           /\ Saved(X)[s].path = doc[s].path
           /\ Saved(X)[s].shape = doc[s].shape
           /\ Saved(X)[s].occs = doc[s].occs
  BY <1>2, <1>3
<1>5. DocsOK(Saved(X), Opened)
  BY <1>1, <1>4, DocsSame
<1> QED BY <1>4, <1>5

(* A step that saves and does not follow.                                  *)
LEMMA SavesOnlyStays ==
  ASSUME LinksInv, NEW S \in SUBSET Opened, SavesOnly(S),
         UNCHANGED <<tabs, active, undo, redo, closed, rolled>>
  PROVE  LinksInv'
<1>1. disk' \in Disk /\ doc' = Saved(S)
  BY DisksAre DEF SavesOnly
<1>2. /\ DocsOK(doc', Opened)
      /\ \A s \in Opened :
           /\ doc'[s].path = doc[s].path
           /\ doc'[s].shape = doc[s].shape
           /\ doc'[s].occs = doc[s].occs
  BY <1>1, SavedIs
<1>3. /\ undo \in Stacks(Opened) /\ redo \in Stacks(Opened)
      /\ DocsOK(doc, Range(tabs)) /\ tabs \in Seq(Session)
  BY DEF LinksInv, Opened
<1>5. ~rolled => Follows(doc, tabs)
  BY Zenon DEF LinksInv
<1>4. ~rolled => Follows(doc', tabs)
  <2> SUFFICES ASSUME ~rolled PROVE Follows(doc', tabs)
    OBVIOUS
  <2>1. Follows(doc, tabs)
    BY Zenon, <1>5
  <2>2. \A s \in Range(tabs) :
           /\ doc'[s].path = doc[s].path
           /\ doc'[s].shape = doc[s].shape
           /\ doc'[s].occs = doc[s].occs
    BY <1>2 DEF Opened
  <2> QED BY <1>3, <2>1, <2>2, FollowsSame
<1>6. /\ tabs' = tabs /\ closed' = closed /\ active' = active
      /\ rolled' = rolled
      /\ undo' \in Stacks(Opened) /\ redo' \in Stacks(Opened)
  BY <1>3
<1> QED BY Zenon, <1>1, <1>2, <1>4, <1>6, IdleStays

LEMMA SavingStopsStays ==
  ASSUME LinksInv, SaveStops \/ SaveAllStops
  PROVE  LinksInv'
<1>1. Dependencies(active) \in SUBSET Opened /\ Dirty \in SUBSET Opened
  BY DependenciesAre DEF Dirty
<1>2. UNCHANGED <<tabs, active, undo, redo, closed, rolled>>
  BY DEF SaveStops, SaveAllStops
<1>3. PICK S \in SUBSET Opened : SavesOnly(S)
  BY <1>1 DEF SaveStops, SaveAllStops
<1> QED BY <1>2, <1>3, SavesOnlyStays

LEMMA SaveAllStays ==
  ASSUME LinksInv, SaveAll \/ ExecuteSaveAll \/ ExecuteSaveAllStops
  PROVE  LinksInv'
<1>1. Dirty \in SUBSET Opened
  BY DEF Dirty
<1>2. /\ undo \in Stacks(Opened) /\ redo \in Stacks(Opened)
      /\ active \in Opened \cup {None}
  BY DEF LinksInv
<1>3. CASE SaveAll
  <2>1. /\ disk' \in Disks(Dirty) /\ Commit(Saved(Dirty))
        /\ tabs' = tabs /\ active' = active /\ undo' = undo /\ redo' = redo
        /\ closed' = closed
    BY <1>3 DEF SaveAll
  <2>2. disk' \in Disk /\ DocsOK(Saved(Dirty), Opened)
    BY <1>1, <2>1, DisksAre, SavedIs
  <2> QED BY <1>2, <2>1, <2>2, CommitStays
<1>4. CASE ExecuteSaveAll
  <2> DEFINE docs == Sync(Saved(Dirty), tabs)
  <2>1. /\ disk' \in Disks(Dirty) /\ active # None /\ Tracked(docs)
    BY <1>4 DEF ExecuteSaveAll, Tracked
  <2>2. DocsOK(Saved(Dirty), Opened) /\ disk' \in Disk
    BY <1>1, <2>1, DisksAre, SavedIs
  <2>3. DocsOK(docs, Opened)
    <3>1. tabs \in Seq(Session)
      BY DEF LinksInv
    <3> QED BY <2>2, <3>1, FollowedIs DEF Opened
  <2> HIDE DEF docs
  <2> QED BY <2>1, <2>2, <2>3, TrackedStays
<1>5. CASE ExecuteSaveAllStops
  <2>1. PICK S \in SUBSET Dirty :
          disk' \in Disks(S) /\ RestoreWorkspace(disk', Saved(S))
    BY <1>5 DEF ExecuteSaveAllStops
  <2>2. disk' \in Disk /\ DocsOK(Saved(S), Opened)
    BY <1>1, <2>1, DisksAre, SavedIs
  <2> QED BY <2>1, <2>2, RestoreStays
<1> QED BY <1>3, <1>4, <1>5

(* What Save-As of x makes of an occurrence: where it refers to x it is    *)
(* linked to x and names the new file.                                     *)
MovedTo(was, now, here, x, new, renewed) ==
  /\ now \in Occurrence /\ now.shape = was.shape
  /\ here => now.path = new /\ now.link = x
  /\ ~here => now.path = was.path /\ now.link = was.link
  /\ now.same <=> was.same /\ now.link = was.link /\ now.link \notin renewed

(* The documents after Save-As of x.                                       *)
Rebound(docs, all, S, x, old, new, renewed) ==
  /\ all \in [S -> Document]
  /\ \A s \in S :
       /\ all[s].kind = docs[s].kind /\ all[s].path = docs[s].path
       /\ all[s].shape = docs[s].shape
       /\ s \in Touched(docs, x, old) => all[s].dirty
       /\ s \notin Touched(docs, x, old) => all[s].dirty = docs[s].dirty
       /\ DOMAIN all[s].occs = DOMAIN docs[s].occs
       /\ Compose(all[s].occs) = Compose(docs[s].occs)
       /\ \A o \in DOMAIN docs[s].occs :
            MovedTo(docs[s].occs[o], all[s].occs[o],
                    s \in Touched(docs, x, old) /\ Refers(docs[s].occs[o], x, old),
                    x, new, renewed)

LEMMA RebindIs ==
  ASSUME NEW S \in SUBSET Session, S = Opened, NEW docs, DocsOK(docs, S),
         NEW x \in S, NEW old, NEW new \in Path, NEW renewed
  PROVE  Rebound(docs, Rebind(docs, x, old, new, renewed), S, x, old, new, renewed)
<1> DEFINE touched == Touched(docs, x, old)
           here(s, o) == s \in touched /\ Refers(docs[s].occs[o], x, old)
           link(s, o) == IF here(s, o) THEN x ELSE docs[s].occs[o].link
           path(s, o) == IF here(s, o) THEN new ELSE docs[s].occs[o].path
           same(s, o) == docs[s].occs[o].same
                           /\ link(s, o) = docs[s].occs[o].link
                           /\ link(s, o) \notin renewed
           occ(s, o) == [docs[s].occs[o] EXCEPT
                           !.path = IF here(s, o) THEN new ELSE @,
                           !.link = link(s, o),
                           !.same = @ /\ link(s, o) = docs[s].occs[o].link
                                      /\ link(s, o) \notin renewed]
           moved(s) == [o \in DOMAIN docs[s].occs |-> occ(s, o)]
           one(s) == IF s \in touched
                       THEN [Rebuilt(docs[s], moved(s)) EXCEPT !.dirty = TRUE]
                     ELSE [docs[s] EXCEPT !.occs = moved(s)]
           all == [s \in S |-> one(s)]
           Moves(s, o) == MovedTo(docs[s].occs[o], occ(s, o), here(s, o), x,
                                  new, renewed)
<1>1. Rebind(docs, x, old, new, renewed) = all
  <2>1. Rebind(docs, x, old, new, renewed) = [s \in Opened |-> one(s)]
    BY Zenon DEF Rebind
  <2> HIDE DEF one
  <2> QED BY <2>1
<1>2. /\ docs \in [S -> Document] /\ \A s \in S : DocFits(docs[s], docs, S, s)
      /\ None \notin S
  BY LinksAssumption DEF DocsOK
<1>3. \A s \in touched : s \in S /\ docs[s].kind = "assembly"
  BY DEF Touched
<1> HIDE DEF touched
<1>4. ASSUME NEW s \in S, NEW o \in DOMAIN docs[s].occs
      PROVE  Moves(s, o)
  <2> DEFINE was == docs[s].occs[o]
             h == here(s, o)
             l == link(s, o)
             p == path(s, o)
             b == same(s, o)
  <2>1. was \in Occurrence /\ was.link \in S \cup {None}
    BY <1>2, DocumentParts DEF DocFits
  <2>2. was.path \in Path \cup {Elsewhere}
    BY <2>1, OccParts
  <2> HIDE DEF was, here
  <2>3. l \in S \cup {None}
    BY <2>1 DEF was
  <2>4. p \in Path \cup {Elsewhere}
    BY <2>2 DEF was
  <2>5. b \in BOOLEAN
    BY Zenon
  <2>6. /\ b <=> was.same /\ l = was.link /\ l \notin renewed
        /\ h => p = new /\ l = x
        /\ ~h => p = was.path /\ l = was.link
    BY Zenon DEF was
  <2>7. occ(s, o) = [was EXCEPT !.path = p, !.link = l, !.same = b]
    BY Zenon DEF was
  <2> HIDE DEF l, p, b, h, occ
  <2>8. /\ occ(s, o) \in Occurrence /\ occ(s, o).shape = was.shape
        /\ occ(s, o).link = l /\ occ(s, o).same = b /\ occ(s, o).path = p
    BY <2>1, <2>3, <2>4, <2>5, <2>7 DEF Occurrence
  <2>9. MovedTo(was, occ(s, o), h, x, new, renewed)
    BY Zenon, <2>6, <2>8 DEF MovedTo
  <2> QED BY Zenon, <2>9 DEF was, h
<1>5. \A s \in S : \A o \in DOMAIN docs[s].occs :
        /\ occ(s, o) \in Occurrence
        /\ occ(s, o).shape = docs[s].occs[o].shape
  BY <1>4 DEF MovedTo
<1> HIDE DEF occ
<1>6. ASSUME NEW s \in S
      PROVE  /\ moved(s) \in Occurrences
             /\ DOMAIN moved(s) = DOMAIN docs[s].occs
             /\ Compose(moved(s)) = Compose(docs[s].occs)
             /\ \A o \in DOMAIN docs[s].occs : moved(s)[o] = occ(s, o)
  <2>1. docs[s].occs \in Occurrences /\ DOMAIN docs[s].occs \in SUBSET Name
    BY <1>2, DocumentParts
  <2>2. moved(s) \in [DOMAIN docs[s].occs -> Occurrence]
    BY <1>5
  <2>3. moved(s) \in Occurrences
    BY <2>1, <2>2 DEF Occurrences
  <2>4. \A o \in DOMAIN moved(s) : moved(s)[o].shape = docs[s].occs[o].shape
    BY <1>5
  <2>5. DOMAIN moved(s) = DOMAIN docs[s].occs
        /\ \A o \in DOMAIN docs[s].occs : moved(s)[o] = occ(s, o)
    OBVIOUS
  <2> HIDE DEF moved
  <2> QED BY <2>3, <2>4, <2>5, ComposeSame
<1> HIDE DEF moved
<1>7. ASSUME NEW s \in S
      PROVE  /\ one(s) \in Document /\ one(s).kind = docs[s].kind
             /\ one(s).path = docs[s].path
             /\ one(s).occs = moved(s) /\ one(s).shape = docs[s].shape
             /\ s \in touched => one(s).dirty
             /\ s \notin touched => one(s).dirty = docs[s].dirty
  <2>1. docs[s] \in Document
    BY <1>2
  <2>2. CASE s \in touched
    <3> DEFINE d == Rebuilt(docs[s], moved(s))
    <3>1. /\ d \in Document /\ d.kind = docs[s].kind /\ d.occs = moved(s)
          /\ d.path = docs[s].path /\ d.shape = Compose(moved(s))
      BY <1>6, <2>1, RebuiltIs
    <3>2. docs[s].shape = Compose(docs[s].occs)
      BY <1>2, <1>3, <2>2 DEF DocFits
    <3>3. one(s) = [d EXCEPT !.dirty = TRUE]
      BY <2>2
    <3> HIDE DEF d, one
    <3>4. /\ one(s) \in Document /\ one(s).kind = d.kind
          /\ one(s).path = d.path /\ one(s).dirty
          /\ one(s).occs = d.occs /\ one(s).shape = d.shape
      BY <3>1, <3>3 DEF Document
    <3> QED BY <1>6, <2>2, <3>1, <3>2, <3>4
  <2>3. CASE s \notin touched
    <3>1. one(s) = [docs[s] EXCEPT !.occs = moved(s)]
      BY <2>3
    <3> HIDE DEF one
    <3> QED BY <1>6, <2>1, <2>3, <3>1 DEF Document
  <2> QED BY <2>2, <2>3
<1> HIDE DEF one
<1>8. all \in [S -> Document] /\ \A s \in S : all[s] = one(s)
  BY <1>7
<1> HIDE DEF all
<1>9. \A s \in S : \A o \in DOMAIN docs[s].occs :
        MovedTo(docs[s].occs[o], all[s].occs[o], here(s, o), x, new, renewed)
  <2> SUFFICES ASSUME NEW s \in S, NEW o \in DOMAIN docs[s].occs
               PROVE  MovedTo(docs[s].occs[o], all[s].occs[o], here(s, o), x,
                              new, renewed)
    OBVIOUS
  <2>1. all[s].occs[o] = occ(s, o)
    BY <1>6, <1>7, <1>8
  <2>2. Moves(s, o)
    BY <1>4
  <2> HIDE DEF here
  <2> QED BY <2>1, <2>2
<1>10. \A s \in S :
         /\ all[s].kind = docs[s].kind /\ all[s].path = docs[s].path
         /\ all[s].shape = docs[s].shape
         /\ s \in touched => all[s].dirty
         /\ s \notin touched => all[s].dirty = docs[s].dirty
         /\ DOMAIN all[s].occs = DOMAIN docs[s].occs
         /\ Compose(all[s].occs) = Compose(docs[s].occs)
  BY <1>6, <1>7, <1>8
<1> HIDE DEF here
<1>11. \A s, o : here(s, o) = (s \in Touched(docs, x, old)
                                 /\ Refers(docs[s].occs[o], x, old))
  BY Zenon DEF here, touched
<1> QED BY <1>1, <1>8, <1>9, <1>10, <1>11 DEF touched, Rebound

LEMMA RebindFits ==
  ASSUME NEW S \in SUBSET Session, NEW docs, DocsOK(docs, S), NEW all,
         NEW x \in S, NEW old, NEW new, NEW renewed,
         Rebound(docs, all, S, x, old, new, renewed)
  PROVE  DocsOK(all, S)
<1>1. \A s \in S : DocFits(docs[s], docs, S, s)
  BY DEF DocsOK
<1>2. ASSUME NEW s \in S PROVE DocFits(all[s], all, S, s)
  <2>1. ASSUME NEW o \in DOMAIN docs[s].occs
        PROVE  /\ all[s].occs[o].link \in S \cup {None}
               /\ all[s].occs[o].same /\ all[s].occs[o].link # s =>
                    /\ all[s].occs[o].link \in S
                    /\ all[s].occs[o].shape = all[all[s].occs[o].link].shape
    <3> DEFINE was == docs[s].occs[o]
               now == all[s].occs[o]
               here == s \in Touched(docs, x, old) /\ Refers(was, x, old)
    <3>1. MovedTo(was, now, here, x, new, renewed)
      BY DEF Rebound
    <3>2. /\ was.link \in S \cup {None}
          /\ was.same /\ was.link # s =>
               was.link \in S /\ was.shape = docs[was.link].shape
      BY <1>1 DEF DocFits
    <3>3. \A t \in S : all[t].shape = docs[t].shape
      BY DEF Rebound
    <3> HIDE DEF was, now, here
    <3> QED BY <3>1, <3>2, <3>3 DEF MovedTo, now
  <2> QED BY <1>1, <2>1 DEF DocFits, Rebound
<1> QED BY <1>2 DEF DocsOK, Rebound

LEMMA SaveStays ==
  ASSUME LinksInv, NEW p \in Path, Save(p)
  PROVE  LinksInv'
<1> DEFINE old == doc[active].path
           X == Dependencies(active) \cup {active}
           saved == [Saved(X) EXCEPT ![active].path = p]
<1>1. /\ active # None /\ active \in Opened /\ tabs' = tabs /\ active' = active
      /\ undo' = undo /\ redo' = redo /\ closed' = closed
      /\ undo \in Stacks(Opened) /\ redo \in Stacks(Opened)
      /\ Opened \in SUBSET Session
  BY OpenedIs DEF Save, LinksInv, Opened
<1>2. disk' \in Disk
  <2>1. PICK files \in Disks(Dependencies(active)) :
          disk' = [files EXCEPT ![p] = FileOf(doc[active])]
    BY DEF Save
  <2>2. files \in Disk
    BY <2>1, DependenciesAre, DisksAre
  <2> QED BY <1>1, <2>1, <2>2, WrittenAt
<1>3. DocsOK(saved, Opened)
  <2> DEFINE ds == Saved(X)
             d == [ds[active] EXCEPT !.path = p]
             new == [ds EXCEPT ![active] = d]
  <2>1. ds \in [Opened -> Document] /\ DocsOK(ds, Opened)
    BY SavedIs
  <2> HIDE DEF ds
  <2>2. saved = new
    BY <1>1, <2>1 DEF ds
  <2>3. /\ d \in Document /\ d.kind = ds[active].kind
        /\ d.shape = ds[active].shape /\ d.occs = ds[active].occs
    <3>1. ds[active] \in Document
      BY <1>1, <2>1
    <3> QED BY <3>1 DEF Document
  <2> HIDE DEF d
  <2>4. /\ new \in [Opened -> Document]
        /\ \A s \in Opened : new[s] = IF s = active THEN d ELSE ds[s]
    BY <1>1, <2>1, <2>3
  <2> HIDE DEF new
  <2>5. \A s \in Opened :
          /\ new[s].kind = ds[s].kind /\ new[s].shape = ds[s].shape
          /\ new[s].occs = ds[s].occs
    BY <2>3, <2>4
  <2>6. DocsOK(new, Opened)
    BY <2>1, <2>4, <2>5, DocsSame
  <2> QED BY <2>2, <2>6
<1>4. \/ Commit(saved)
      \/ \E renewed : Commit(Rebind(saved, active, old, p, renewed))
  BY DEF Save
<1> HIDE DEF saved, old
<1>5. CASE Commit(saved)
  BY <1>1, <1>2, <1>3, <1>5, CommitStays
<1>6. CASE \E renewed : Commit(Rebind(saved, active, old, p, renewed))
  <2>1. PICK renewed : Commit(Rebind(saved, active, old, p, renewed))
    BY <1>6
  <2> DEFINE all == Rebind(saved, active, old, p, renewed)
  <2>2. DocsOK(all, Opened)
    <3>1. Rebound(saved, all, Opened, active, old, p, renewed)
      BY <1>1, <1>3, RebindIs
    <3> HIDE DEF all
    <3> QED BY <1>1, <1>3, <3>1, RebindFits
  <2> QED BY <1>1, <1>2, <2>1, <2>2, CommitStays
<1> QED BY <1>4, <1>5, <1>6

----------------------------------------------------------------------------
(* Closing and deleting.                                                   *)

LEMMA RestIs ==
  ASSUME NEW order \in Seq(Session), NEW i \in DOMAIN order,
         \A j, k \in DOMAIN order : order[j] = order[k] => j = k
  PROVE  /\ RemoveAt(order, i) \in Seq(Session)
         /\ Range(RemoveAt(order, i)) = Range(order) \ {order[i]}
         /\ \A j, k \in DOMAIN RemoveAt(order, i) :
              RemoveAt(order, i)[j] = RemoveAt(order, i)[k] => j = k
<1> DEFINE rest == RemoveAt(order, i)
           n == Len(order)
<1>1. /\ n \in Nat /\ DOMAIN order = 1..n /\ i \in 1..n
  OBVIOUS
<1>2. /\ rest \in Seq(Session) /\ Len(rest) = n - 1
      /\ \A j \in 1..(n - 1) :
           rest[j] = IF j < i THEN order[j] ELSE order[j + 1]
  <2>1. i \in 1..Len(order)
    OBVIOUS
  <2> QED BY Zenon, <2>1, RemoveAtProperties
<1> HIDE DEF rest, n
<1>3. DOMAIN rest = 1..(n - 1)
  BY <1>2
<1> DEFINE at(j) == IF j < i THEN j ELSE j + 1
<1>4. \A j \in 1..(n - 1) : at(j) \in 1..n /\ at(j) # i
        /\ rest[j] = order[at(j)]
  BY <1>1, <1>2
<1>5. \A j, k \in 1..(n - 1) : at(j) = at(k) => j = k
  BY <1>1
<1>6. \A k \in 1..n : k # i => \E j \in 1..(n - 1) : at(j) = k
  <2> SUFFICES ASSUME NEW k \in 1..n, k # i
               PROVE  \E j \in 1..(n - 1) : at(j) = k
    OBVIOUS
  <2>1. CASE k < i
    <3>1. k \in 1..(n - 1) /\ at(k) = k
      BY <1>1, <2>1
    <3> QED BY <3>1
  <2>2. CASE ~(k < i)
    <3>1. k - 1 \in 1..(n - 1) /\ at(k - 1) = k
      BY <1>1, <2>2
    <3> QED BY <3>1
  <2> QED BY <2>1, <2>2
<1> HIDE DEF at
<1>7. \A j, k \in 1..(n - 1) : rest[j] = rest[k] => j = k
  BY <1>1, <1>4, <1>5
<1>8. ASSUME NEW s PROVE s \in Range(rest) <=> s \in Range(order) \ {order[i]}
  <2>1. s \in Range(rest) <=> \E j \in 1..(n - 1) : s = order[at(j)]
    BY <1>3, <1>4 DEF Range
  <2>2. s \in Range(order) <=> \E k \in 1..n : s = order[k]
    BY <1>1 DEF Range
  <2>3. ASSUME s \in Range(rest) PROVE s \in Range(order) /\ s # order[i]
    <3>1. PICK j \in 1..(n - 1) : s = order[at(j)]
      BY <2>1, <2>3
    <3> QED BY <1>1, <1>4, <2>2, <3>1
  <2>4. ASSUME s \in Range(order), s # order[i] PROVE s \in Range(rest)
    <3>1. PICK k \in 1..n : s = order[k] /\ k # i
      BY <2>2, <2>4
    <3>2. PICK j \in 1..(n - 1) : at(j) = k
      BY <1>6, <3>1
    <3> QED BY <2>1, <3>1, <3>2
  <2> QED BY <2>3, <2>4
<1>9. Range(rest) = Range(order) \ {order[i]}
  BY <1>8
<1> QED BY <1>2, <1>3, <1>7, <1>9 DEF rest

(* An occurrence after tab x is closed.                                    *)
Dropped(occ, x) ==
  IF occ.link = x THEN [occ EXCEPT !.link = None, !.same = FALSE] ELSE occ

LEMMA DroppedIs ==
  ASSUME NEW occ \in Occurrence, NEW x, x # None
  PROVE  /\ Dropped(occ, x) \in Occurrence
         /\ Dropped(occ, x).shape = occ.shape
         /\ Dropped(occ, x).path = occ.path
         /\ Dropped(occ, x).link # x
         /\ Dropped(occ, x).link = occ.link \/ Dropped(occ, x).link = None
         /\ Dropped(occ, x).same => Dropped(occ, x) = occ
<1> DEFINE gone == [occ EXCEPT !.link = None, !.same = FALSE]
<1>1. /\ gone \in Occurrence /\ gone.shape = occ.shape /\ gone.link = None
      /\ gone.same = FALSE /\ gone.path = occ.path
  BY DEF Occurrence
<1>2. Dropped(occ, x) = IF occ.link = x THEN gone ELSE occ
  BY DEF Dropped
<1> HIDE DEF gone
<1>3. CASE occ.link = x
  BY <1>1, <1>2, <1>3
<1>4. CASE occ.link # x
  BY <1>2, <1>4
<1> QED BY <1>3, <1>4

(* The document d with the occurrences f.                                  *)
LEMMA OccsChanged ==
  ASSUME NEW d \in Document, NEW f, DOMAIN f = DOMAIN d.occs,
         \A o \in DOMAIN f : /\ f[o] \in Occurrence
                             /\ f[o].shape = d.occs[o].shape,
         f \in [DOMAIN f -> Occurrence]
  PROVE  /\ [d EXCEPT !.occs = f] \in Document
         /\ [d EXCEPT !.occs = f].kind = d.kind
         /\ [d EXCEPT !.occs = f].shape = d.shape
         /\ [d EXCEPT !.occs = f].occs = f
         /\ Compose(f) = Compose(d.occs)
<1>1. DOMAIN f \in SUBSET Name
  BY DocumentParts
<1>2. f \in Occurrences
  BY <1>1, OccursType
<1>3. Compose(f) = Compose(d.occs)
  BY ComposeSame
<1> QED BY <1>2, <1>3 DEF Document

LEMMA DroppedOK ==
  ASSUME NEW S, None \notin S, NEW docs, DocsOK(docs, S), NEW x \in S, NEW new,
         new = [s \in S \ {x} |->
                  [docs[s] EXCEPT !.occs =
                     [o \in DOMAIN docs[s].occs |->
                        Dropped(docs[s].occs[o], x)]]]
  PROVE  DocsOK(new, S \ {x})
<1> DEFINE f(s) == [o \in DOMAIN docs[s].occs |-> Dropped(docs[s].occs[o], x)]
           one(s) == [docs[s] EXCEPT !.occs = f(s)]
<1>1. /\ docs \in [S -> Document] /\ x # None
      /\ \A s \in S : DocFits(docs[s], docs, S, s)
  BY DEF DocsOK
<1>2. ASSUME NEW s \in S, NEW o \in DOMAIN docs[s].occs
      PROVE  /\ f(s)[o] \in Occurrence
             /\ f(s)[o].shape = docs[s].occs[o].shape
             /\ f(s)[o].link # x
             /\ f(s)[o].link = docs[s].occs[o].link \/ f(s)[o].link = None
             /\ f(s)[o].same => f(s)[o] = docs[s].occs[o]
  <2>1. docs[s].occs[o] \in Occurrence
    BY <1>1, DocumentParts
  <2>2. f(s)[o] = Dropped(docs[s].occs[o], x)
    OBVIOUS
  <2> HIDE DEF f
  <2> QED BY <1>1, <2>1, <2>2, DroppedIs
<1>3. ASSUME NEW s \in S
      PROVE  /\ DOMAIN f(s) = DOMAIN docs[s].occs
             /\ f(s) \in [DOMAIN f(s) -> Occurrence]
  <2>1. \A o \in DOMAIN docs[s].occs :
          Dropped(docs[s].occs[o], x) \in Occurrence
    BY <1>2
  <2> QED BY <2>1
<1>4. new = [s \in S \ {x} |-> one(s)]
  OBVIOUS
<1> HIDE DEF f
<1>5. ASSUME NEW s \in S
      PROVE  /\ one(s) \in Document /\ one(s).kind = docs[s].kind
             /\ one(s).shape = docs[s].shape /\ one(s).occs = f(s)
             /\ Compose(f(s)) = Compose(docs[s].occs)
  BY <1>1, <1>2, <1>3, OccsChanged
<1> HIDE DEF one
<1>6. /\ new \in [S \ {x} -> Document]
      /\ \A s \in S \ {x} : new[s] = one(s)
  BY <1>4, <1>5
<1>7. ASSUME NEW s \in S \ {x} PROVE DocFits(new[s], new, S \ {x}, s)
  <2>1. DocFits(docs[s], docs, S, s)
    BY <1>1
  <2>2. /\ new[s].kind = docs[s].kind /\ new[s].shape = docs[s].shape
        /\ new[s].occs = f(s) /\ DOMAIN f(s) = DOMAIN docs[s].occs
        /\ Compose(f(s)) = Compose(docs[s].occs)
    BY <1>3, <1>5, <1>6
  <2>3. ASSUME NEW o \in DOMAIN f(s)
        PROVE  /\ f(s)[o].link \in (S \ {x}) \cup {None}
               /\ f(s)[o].same /\ f(s)[o].link # s =>
                    f(s)[o].link \in S \ {x}
                    /\ f(s)[o].shape = new[f(s)[o].link].shape
    <3> DEFINE was == docs[s].occs[o]
               now == f(s)[o]
    <3>1. o \in DOMAIN docs[s].occs
      BY <2>2
    <3>2. /\ now.link # x
          /\ now.link = was.link \/ now.link = None
          /\ now.same => now = was
      BY <1>2, <3>1
    <3>3. /\ was.link \in S \cup {None}
          /\ was.same /\ was.link # s =>
               was.link \in S /\ was.shape = docs[was.link].shape
      BY <2>1, <3>1 DEF DocFits
    <3>4. \A t \in S \ {x} : new[t].shape = docs[t].shape
      BY <1>5, <1>6
    <3> HIDE DEF was, now
    <3>5. now.link \in (S \ {x}) \cup {None}
      BY <3>2, <3>3
    <3>6. ASSUME now.same, now.link # s
          PROVE  now.link \in S \ {x} /\ now.shape = new[now.link].shape
      <4>1. now = was
        BY <3>2, <3>6
      <4> QED BY <3>2, <3>3, <3>4, <3>6, <4>1
    <3> QED BY <3>5, <3>6 DEF now
  <2>4. \A o \in DOMAIN new[s].occs :
          /\ new[s].occs[o].link \in (S \ {x}) \cup {None}
          /\ new[s].occs[o].same /\ new[s].occs[o].link # s =>
               new[s].occs[o].link \in S \ {x}
               /\ new[s].occs[o].shape = new[new[s].occs[o].link].shape
    BY <2>2, <2>3
  <2>5. /\ new[s].kind = "part" => DOMAIN new[s].occs = {}
        /\ new[s].kind = "assembly" => new[s].shape = Compose(new[s].occs)
    BY <2>1, <2>2 DEF DocFits
  <2> HIDE DEF one
  <2> QED BY <2>4, <2>5 DEF DocFits
<1> QED BY <1>6, <1>7 DEF DocsOK

(* The documents without the active one, before they follow.               *)
LeftBy(docs) ==
  [s \in Opened \ {active} |->
     [docs[s] EXCEPT !.occs =
        [o \in DOMAIN docs[s].occs |-> Dropped(docs[s].occs[o], active)]]]

LEMMA CloseTabIs ==
  ASSUME LinksInv, active # None, NEW docs, DocsOK(docs, Opened),
         CloseTab(docs)
  PROVE  /\ Opened' = Opened \ {active} /\ KeepsLinks(LeftBy(docs), doc')
         /\ tabs' \in Seq(Session)
         /\ \A j, k \in DOMAIN tabs' : tabs'[j] = tabs'[k] => j = k
         /\ DocsOK(doc', Opened') /\ Follows(doc', tabs')
         /\ active' \in Opened' \cup {None}
         /\ undo' \in Stacks(Opened') /\ redo' \in Stacks(Opened')
         /\ closed' \subseteq Session /\ rolled' = FALSE
<1> DEFINE i == CHOOSE n \in DOMAIN tabs : tabs[n] = active
           rest == RemoveAt(tabs, i)
           S == Opened \ {active}
           left == LeftBy(docs)
<1>1. /\ tabs \in Seq(Session) /\ active \in Opened
      /\ \A j, k \in DOMAIN tabs : tabs[j] = tabs[k] => j = k
      /\ undo \in Stacks(Opened) /\ redo \in Stacks(Opened)
      /\ closed \in SUBSET Session /\ Opened \in SUBSET Session
  BY OpenedIs DEF LinksInv, Opened
<1>2. i \in DOMAIN tabs /\ tabs[i] = active
  <2>1. \E n \in DOMAIN tabs : tabs[n] = active
    BY <1>1, OpenedIs DEF Opened
  <2> QED BY <2>1
<1>3. /\ tabs' = rest /\ closed' = closed \cup {active}
      /\ active' = IF rest = <<>> THEN None
                   ELSE IF i <= Len(rest) THEN rest[i] ELSE rest[Len(rest)]
      /\ undo' = Forget(undo) /\ redo' = Forget(redo)
  BY Zenon DEF CloseTab
<1>4. doc' = Sync(left, rest) /\ rolled' = FALSE
  <2>1. Commit(left)
    BY Zenon DEF CloseTab, Dropped, LeftBy
  <2> HIDE DEF left, rest
  <2> QED BY <1>3, <2>1 DEF Commit
<1> HIDE DEF i
<1>5. /\ rest \in Seq(Session) /\ Range(rest) = S
      /\ \A j, k \in DOMAIN rest : rest[j] = rest[k] => j = k
  BY <1>1, <1>2, RestIs DEF Opened
<1>6. DocsOK(left, S)
  <2>1. None \notin Opened
    BY <1>1, LinksAssumption
  <2>2. left = [s \in Opened \ {active} |->
                  [docs[s] EXCEPT !.occs =
                     [o \in DOMAIN docs[s].occs |->
                        Dropped(docs[s].occs[o], active)]]]
    BY DEF LeftBy
  <2> HIDE DEF left
  <2> QED BY <1>1, <2>1, <2>2, DroppedOK
<1> HIDE DEF left, rest
<1>7. Opened' = S
  BY <1>3, <1>5 DEF Opened
<1>8. DocsOK(doc', S) /\ Follows(doc', rest) /\ KeepsLinks(left, doc')
  BY <1>4, <1>5, <1>6, FollowedIs
<1>9. active' \in S \cup {None}
  <2>1. rest # <<>> => Len(rest) \in 1..Len(rest)
    BY <1>5
  <2>2. rest # <<>> /\ i <= Len(rest) => i \in 1..Len(rest)
    BY <1>1, <1>2, <1>5
  <2>3. \A j \in 1..Len(rest) : rest[j] \in S
    BY <1>5, OpenedIs
  <2> QED BY <1>3, <2>1, <2>2, <2>3
<1>10. undo' \in Stacks(S) /\ redo' \in Stacks(S)
  BY <1>1, <1>3 DEF Forget, Stacks
<1>11. closed' \subseteq Session
  BY <1>1, <1>3
<1>12. /\ tabs' \in Seq(Session)
       /\ \A j, k \in DOMAIN tabs' : tabs'[j] = tabs'[k] => j = k
  BY <1>3, <1>5
<1>13. Follows(doc', tabs')
  BY <1>3, <1>8
<1> HIDE DEF S
<1> QED BY <1>4, <1>7, <1>8, <1>9, <1>10, <1>11, <1>12, <1>13 DEF S, left

LEMMA CloseTabStays ==
  ASSUME LinksInv, active # None, NEW docs, DocsOK(docs, Opened),
         CloseTab(docs), disk' \in Disk
  PROVE  LinksInv'
<1>1. /\ tabs' \in Seq(Session)
      /\ \A j, k \in DOMAIN tabs' : tabs'[j] = tabs'[k] => j = k
      /\ DocsOK(doc', Opened') /\ Follows(doc', tabs')
      /\ active' \in Opened' \cup {None}
      /\ undo' \in Stacks(Opened') /\ redo' \in Stacks(Opened')
      /\ closed' \subseteq Session /\ rolled' = FALSE
  BY CloseTabIs
<1>2. rolled' \in BOOLEAN
  BY <1>1
<1> QED BY Zenon, <1>1, <1>2 DEF LinksInv

LEMMA ClosingStays ==
  ASSUME LinksInv, CloseSaving \/ CloseUnchanged \/ DeleteFile
  PROVE  LinksInv'
<1>1. DocsOK(doc, Opened) /\ disk \in Disk
  BY DEF LinksInv
<1>2. active # None /\ CloseTab(doc)
  BY DEF CloseSaving, CloseUnchanged, DeleteFile
<1>3. disk' \in Disk
  <2>1. CASE CloseSaving
    <3>1. disk' = [disk EXCEPT ![doc[active].path] = FileOf(doc[active])]
      BY <2>1 DEF CloseSaving
    <3> DEFINE p == doc[active].path
    <3> HIDE DEF p
    <3>2. disk' = [disk EXCEPT ![p] = FileOf(doc[active])]
      BY <3>1 DEF p
    <3> QED BY <1>1, <1>2, <3>2, WrittenAt
  <2>2. CASE CloseUnchanged
    BY <1>1, <2>2 DEF CloseUnchanged
  <2>3. CASE DeleteFile
    BY <1>1, <2>3 DEF DeleteFile, Disk
  <2> QED BY <2>1, <2>2, <2>3
<1> QED BY <1>1, <1>2, <1>3, CloseTabStays

LEMMA MarkedFits ==
  ASSUME NEW d \in Document, NEW docs, NEW S, NEW s, DocFits(d, docs, S, s)
  PROVE  /\ [d EXCEPT !.dirty = TRUE] \in Document
         /\ DocFits([d EXCEPT !.dirty = TRUE], docs, S, s)
<1> DEFINE new == [d EXCEPT !.dirty = TRUE]
<1>1. /\ new \in Document /\ new.kind = d.kind /\ new.shape = d.shape
      /\ new.occs = d.occs
  BY DEF Document
<1> HIDE DEF new
<1>2. DocFits(new, docs, S, s)
  BY <1>1 DEF DocFits
<1> QED BY <1>1, <1>2 DEF new

(* An assembly that goes back to the file of tab x.                        *)
LEMMA BackToDiskIs ==
  ASSUME NEW S, None \notin S, NEW docs, DocsOK(docs, S), NEW s \in S, NEW x,
         NEW file, file.shape \in Shape
  PROVE  /\ BackToDisk(docs[s], x, file) \in Document
         /\ DocFits(BackToDisk(docs[s], x, file), docs, S, s)
<1> DEFINE d == docs[s]
           back == {o \in DOMAIN d.occs : Refers(d.occs[o], x, doc[x].path)}
           file2 == file.shape
           at(o) == [d.occs[o] EXCEPT !.link = None, !.same = FALSE,
                                      !.shape = file2]
           f == [o \in DOMAIN d.occs |->
                   IF o \in back THEN at(o) ELSE d.occs[o]]
           r == Rebuilt(d, f)
<1>1. BackToDisk(d, x, file)
      = IF d.kind = "part" \/ back = {} THEN d ELSE [r EXCEPT !.dirty = TRUE]
  BY Zenon DEF BackToDisk
<1>2. d \in Document /\ DocFits(d, docs, S, s)
  BY DEF DocsOK
<1> HIDE DEF d, back, file2
<1>3. CASE d.kind = "part" \/ back = {}
  BY <1>1, <1>2, <1>3 DEF d
<1>4. CASE ~(d.kind = "part" \/ back = {})
  <2>1. d.kind = "assembly" /\ DOMAIN d.occs \in SUBSET Name
    BY <1>2, <1>4, DocumentParts
  <2>2. ASSUME NEW o \in DOMAIN d.occs
        PROVE  OccFits(IF o \in back THEN at(o) ELSE d.occs[o], docs, S, s)
    <3>1. OccFits(d.occs[o], docs, S, s)
      BY <1>2, FitsOccs
    <3>2. /\ at(o) \in Occurrence /\ at(o).link = None /\ at(o).same = FALSE
      <4>1. d.occs[o] \in Occurrence /\ file2 \in Shape
        BY <3>1 DEF OccFits, file2
      <4> QED BY <4>1 DEF Occurrence
    <3> HIDE DEF at
    <3>3. OccFits(at(o), docs, S, s)
      BY <3>2 DEF OccFits
    <3> QED BY <3>1, <3>3
  <2> HIDE DEF at
  <2>3. DOMAIN f = DOMAIN d.occs
          /\ \A o \in DOMAIN f : OccFits(f[o], docs, S, s)
    BY <2>2
  <2>4. f \in [DOMAIN f -> Occurrence]
    <3>1. f = [o \in DOMAIN f |-> f[o]]
      OBVIOUS
    <3> HIDE DEF f
    <3> QED BY <2>3, <3>1 DEF OccFits
  <2> HIDE DEF f
  <2>5. r \in Document /\ DocFits(r, docs, S, s)
    BY <1>2, <2>1, <2>3, <2>4, RebuiltFits
  <2> HIDE DEF r
  <2>6. DocFits([r EXCEPT !.dirty = TRUE], docs, S, s)
        /\ [r EXCEPT !.dirty = TRUE] \in Document
    BY <2>5, MarkedFits
  <2> QED BY <1>1, <1>4, <2>6 DEF d
<1> QED BY <1>3, <1>4

(* The tabs of touched have new documents, the others are told.            *)
Told(S, docs, b, touched, new) ==
  /\ DocsOK(docs, S) /\ b \in [S -> Document]
  /\ \A s \in S : DocFits(b[s], docs, S, s)
  /\ touched = {s \in S : b[s] # docs[s]}
  /\ new = [s \in S |-> [b[s] EXCEPT !.occs = Parted(b[s].occs, touched)]]

LEMMA ToldFits ==
  ASSUME NEW S, None \notin S, NEW docs, NEW b, NEW touched, NEW new,
         Told(S, docs, b, touched, new)
  PROVE  DocsOK(new, S)
<1>0. /\ b \in [S -> Document] /\ \A s \in S : DocFits(b[s], docs, S, s)
      /\ touched = {s \in S : b[s] # docs[s]}
      /\ new = [s \in S |-> [b[s] EXCEPT !.occs = Parted(b[s].occs, touched)]]
  BY DEF Told
<1> DEFINE one(s) == [b[s] EXCEPT !.occs = Parted(@, touched)]
<1>1. new = [s \in S |-> one(s)]
  BY <1>0
<1>2. ASSUME NEW s \in S
      PROVE  /\ one(s) \in Document /\ one(s).kind = b[s].kind
             /\ one(s).shape = b[s].shape
             /\ one(s).occs = Parted(b[s].occs, touched)
             /\ Compose(one(s).occs) = Compose(b[s].occs)
  <2>1. b[s] \in Document
    BY <1>0
  <2> HIDE DEF one
  <2> QED BY <2>1, PartedFits DEF one
<1> HIDE DEF one
<1>3. /\ new \in [S -> Document] /\ \A s \in S : new[s] = one(s)
  BY <1>1, <1>2
<1>4. ASSUME NEW s \in S PROVE DocFits(new[s], new, S, s)
  <2>1. DocFits(b[s], docs, S, s)
    BY <1>0
  <2>2. /\ new[s].kind = b[s].kind /\ new[s].shape = b[s].shape
        /\ new[s].occs = Parted(b[s].occs, touched)
        /\ Compose(new[s].occs) = Compose(b[s].occs)
    BY <1>2, <1>3
  <2>3. b[s].occs \in Occurrences
    BY <1>0, DocumentParts
  <2>4. DOMAIN new[s].occs = DOMAIN b[s].occs
    BY <2>2, <2>3, PartedIs
  <2>5. ASSUME NEW o \in DOMAIN new[s].occs
        PROVE  /\ new[s].occs[o].link \in S \cup {None}
               /\ new[s].occs[o].same /\ new[s].occs[o].link # s =>
                    new[s].occs[o].link \in S
                    /\ new[s].occs[o].shape = new[new[s].occs[o].link].shape
    <3> DEFINE was == b[s].occs[o]
               now == new[s].occs[o]
    <3>1. /\ now.link = was.link /\ now.shape = was.shape
          /\ now.same => was.same /\ was.link \notin touched
      BY <2>2, <2>3, <2>4, PartedIs
    <3>2. /\ was.link \in S \cup {None}
          /\ was.same /\ was.link # s =>
               was.link \in S /\ was.shape = docs[was.link].shape
      BY <2>1, <2>4 DEF DocFits
    <3> HIDE DEF was, now
    <3>3. \A t \in S : t \notin touched => new[t].shape = docs[t].shape
      BY <1>0, <1>2, <1>3
    <3>4. ASSUME now.same, now.link # s
          PROVE  now.link \in S /\ now.shape = new[now.link].shape
      BY <3>1, <3>2, <3>3, <3>4
    <3> QED BY <3>1, <3>2, <3>4 DEF now
  <2> QED BY <2>1, <2>2, <2>4, <2>5 DEF DocFits
<1> QED BY <1>3, <1>4 DEF DocsOK

(* The documents when the changes of the active one are discarded.         *)
Back(s) ==
  IF s = active THEN doc[s]
  ELSE BackToDisk(doc[s], active, FromFile(doc[active].path))

Discarded ==
  [s \in Opened |->
     [Back(s) EXCEPT !.occs = Parted(@, {t \in Opened : Back(t) # doc[t]})]]

LEMMA DiscardedIs ==
  ASSUME LinksInv, CloseDiscarding
  PROVE  /\ active # None /\ disk' = disk /\ disk \in Disk
         /\ CloseTab(Discarded) /\ DocsOK(Discarded, Opened)
         /\ \A s \in Opened :
              Back(s) \in Document /\ DocFits(Back(s), doc, Opened, s)
<1> DEFINE file == FromFile(doc[active].path)
           touched == {s \in Opened : Back(s) # doc[s]}
           b == [s \in Opened |-> Back(s)]
<1>1. active # None /\ disk' = disk /\ CanLoad(doc[active].path)
      /\ doc[active].path # None
  BY DEF CloseDiscarding
<1>2. CloseTab(Discarded)
  BY Zenon DEF CloseDiscarding, Discarded, Back
<1>3. /\ DocsOK(doc, Opened) /\ disk \in Disk /\ active \in Opened
      /\ Opened \in SUBSET Session
  BY <1>1, OpenedIs DEF LinksInv, Opened
<1>4. file.shape \in Shape
  <2>1. doc[active].path \in Path
    BY <1>1, <1>3, DocumentParts DEF DocsOK
  <2>2. file \in Document
    BY <1>1, <1>3, <2>1, FromFileIs DEF Loose
  <2> HIDE DEF file
  <2> QED BY <2>2, DocumentParts
<1>5. None \notin Opened
  BY <1>3, LinksAssumption
<1>6. ASSUME NEW s \in Opened
      PROVE  Back(s) \in Document /\ DocFits(Back(s), doc, Opened, s)
  <2>1. doc[s] \in Document /\ DocFits(doc[s], doc, Opened, s)
    BY <1>3 DEF DocsOK
  <2>2. Back(s) = IF s = active THEN doc[s]
          ELSE BackToDisk(doc[s], active, file)
    BY DEF Back
  <2> HIDE DEF file
  <2>3. /\ BackToDisk(doc[s], active, file) \in Document
        /\ DocFits(BackToDisk(doc[s], active, file), doc, Opened, s)
    BY <1>3, <1>4, <1>5, BackToDiskIs
  <2> QED BY <2>1, <2>2, <2>3
<1>7. b \in [Opened -> Document] /\ \A s \in Opened : b[s] = Back(s)
  BY <1>6
<1>8. \A s \in Opened : DocFits(b[s], doc, Opened, s)
  BY <1>6, <1>7
<1>9. touched = {s \in Opened : b[s] # doc[s]}
  OBVIOUS
<1>10. Discarded
       = [s \in Opened |-> [b[s] EXCEPT !.occs = Parted(b[s].occs, touched)]]
  BY DEF Discarded
<1> HIDE DEF touched, b
<1>11. DocsOK(Discarded, Opened)
  <2>1. Told(Opened, doc, b, touched, Discarded)
    BY Zenon, <1>3, <1>7, <1>8, <1>9, <1>10 DEF Told
  <2> QED BY <1>5, <2>1, ToldFits
<1> QED BY <1>1, <1>2, <1>3, <1>6, <1>11

LEMMA CloseDiscardingStays ==
  ASSUME LinksInv, CloseDiscarding
  PROVE  LinksInv'
  BY DiscardedIs, CloseTabStays

(* What was placed from the file of x shows that file again.               *)
LEMMA BackToDiskShows ==
  ASSUME NEW d \in Document, d.kind = "part" => DOMAIN d.occs = {}, NEW x,
         NEW file, NEW o \in DOMAIN BackToDisk(d, x, file).occs,
         BackToDisk(d, x, file).occs[o].path = doc[x].path, doc[x].path # None
  PROVE  BackToDisk(d, x, file).occs[o].shape = file.shape
<1> DEFINE back == {n \in DOMAIN d.occs : Refers(d.occs[n], x, doc[x].path)}
           shape == file.shape
           at(n) == [d.occs[n] EXCEPT !.link = None, !.same = FALSE,
                                      !.shape = shape]
           f == [n \in DOMAIN d.occs |->
                   IF n \in back THEN at(n) ELSE d.occs[n]]
           r == Rebuilt(d, f)
           new == BackToDisk(d, x, file)
<1>1. new = IF d.kind = "part" \/ back = {} THEN d
        ELSE [r EXCEPT !.dirty = TRUE]
  BY Zenon DEF BackToDisk
<1>2. \A n \in DOMAIN d.occs : d.occs[n].path = doc[x].path => n \in back
  BY DEF Refers
<1>3. \A n \in DOMAIN d.occs : d.occs[n] \in Occurrence
  BY DocumentParts
<1> HIDE DEF back, shape
<1>4. r.occs = f /\ [r EXCEPT !.dirty = TRUE].occs = f
  BY DEF Rebuilt, Document
<1> HIDE DEF r, new
<1>5. o \in DOMAIN new.occs /\ new.occs[o].path = doc[x].path
  BY DEF new
<1>6. CASE d.kind = "part" \/ back = {}
  BY <1>1, <1>2, <1>5, <1>6
<1>7. CASE ~(d.kind = "part" \/ back = {})
  <2>1. new.occs = f
    BY <1>1, <1>4, <1>7
  <2>2. o \in DOMAIN d.occs
    BY <1>5, <2>1
  <2>3. CASE o \in back
    <3>1. new.occs[o] = at(o)
      BY <2>1, <2>2, <2>3
    <3>2. at(o).shape = shape
      BY <1>3, <2>2 DEF Occurrence
    <3> QED BY <3>1, <3>2 DEF new, shape
  <2>4. CASE o \notin back
    <3>1. new.occs[o] = d.occs[o]
      BY <2>1, <2>2, <2>4
    <3> QED BY <1>2, <1>5, <2>2, <2>4, <3>1
  <2> QED BY <2>3, <2>4
<1> QED BY <1>6, <1>7

(* What s shows after the changes of the active document are discarded.    *)
LEMMA DiscardReaches ==
  ASSUME LinksInv, CloseDiscarding, NEW s \in Opened',
         NEW o \in DOMAIN doc'[s].occs,
         doc'[s].occs[o].path = doc[active].path, doc'[s].occs[o].link = None
  PROVE  doc'[s].occs[o].shape = FromFile(doc[active].path).shape
<1> DEFINE left == LeftBy(Discarded)
           touched == {t \in Opened : Back(t) # doc[t]}
<1>1. /\ active # None /\ CloseTab(Discarded) /\ DocsOK(Discarded, Opened)
      /\ Opened' = Opened \ {active} /\ KeepsLinks(left, doc')
  BY DiscardedIs, CloseTabIs
<1>2. s \in Opened /\ s # active
  BY <1>1
<1>3. /\ Back(s) \in Document
      /\ Back(s) = BackToDisk(doc[s], active, FromFile(doc[active].path))
  BY <1>2, DiscardedIs DEF Back
<1>4. Discarded[s] = [Back(s) EXCEPT !.occs = Parted(Back(s).occs, touched)]
  BY <1>2 DEF Discarded
<1> HIDE DEF touched
<1>5. Discarded[s].occs = Parted(Back(s).occs, touched)
  BY <1>3, <1>4 DEF Document
<1>6. Discarded[s] \in Document
  BY <1>1, <1>2 DEF DocsOK
<1>7. /\ s \in DOMAIN left
      /\ left[s].occs = [n \in DOMAIN Discarded[s].occs |->
                           Dropped(Discarded[s].occs[n], active)]
  <2> DEFINE f == [n \in DOMAIN Discarded[s].occs |->
                     Dropped(Discarded[s].occs[n], active)]
  <2>1. left[s] = [Discarded[s] EXCEPT !.occs = f]
    BY <1>2 DEF LeftBy
  <2>2. s \in DOMAIN left
    BY <1>2 DEF LeftBy
  <2> HIDE DEF f, left
  <2>3. left[s].occs = f
    BY <1>6, <2>1 DEF Document
  <2> QED BY <2>2, <2>3 DEF f
<1> HIDE DEF left
<1>8. /\ DOMAIN doc'[s].occs = DOMAIN left[s].occs
      /\ KeepsOcc(left[s].occs[o], doc'[s].occs[o])
  BY <1>1, <1>7 DEF KeepsLinks
<1> DEFINE was == Discarded[s].occs[o]
           old == Back(s).occs[o]
<1>9. o \in DOMAIN Discarded[s].occs /\ left[s].occs[o] = Dropped(was, active)
  BY <1>7, <1>8
<1>10. o \in DOMAIN Back(s).occs /\ was.path = old.path /\ was.shape = old.shape
  <2>1. Back(s).occs \in Occurrences
    BY <1>3, DocumentParts
  <2> QED BY <1>5, <1>9, <2>1, PartedIs
<1>11. was \in Occurrence
  BY <1>6, <1>9, DocumentParts
<1> HIDE DEF was, old
<1>12. Dropped(was, active).path = was.path
         /\ Dropped(was, active).shape = was.shape
  BY <1>1, <1>11, DroppedIs
<1>13. old.path = doc[active].path /\ doc'[s].occs[o].shape = old.shape
  BY <1>8, <1>9, <1>10, <1>12 DEF KeepsOcc
<1>14. doc[active].path # None
  BY DEF CloseDiscarding
<1>15. doc[s] \in Document /\ (doc[s].kind = "part" => DOMAIN doc[s].occs = {})
  BY <1>2 DEF LinksInv, DocsOK, DocFits
<1>16. old.shape = FromFile(doc[active].path).shape
  BY <1>3, <1>10, <1>13, <1>14, <1>15, BackToDiskShows DEF old
<1> QED BY <1>13, <1>16

----------------------------------------------------------------------------
(* The specification, and the links.                                       *)

LEMMA InitLinks == ASSUME Init PROVE LinksInv
<1>1. /\ tabs = <<>> /\ active = None /\ doc = <<>> /\ undo = <<>>
      /\ redo = <<>> /\ disk = [p \in Path |-> None] /\ closed = {}
      /\ rolled = FALSE
  BY DEF Init
<1>2. DOMAIN tabs = {} /\ Opened = {} /\ tabs \in Seq(Session)
  BY <1>1 DEF Opened, Range
<1>3. DOMAIN doc = {} /\ doc \in [{} -> Document]
        /\ undo \in [{} -> Seq(KeptDocument)]
      /\ redo \in [{} -> Seq(KeptDocument)]
  <2>1. DOMAIN <<>> = {}
    OBVIOUS
  <2> QED BY <1>1, <2>1
<1>4. DocsOK(doc, Opened) /\ undo \in Stacks(Opened) /\ redo \in Stacks(Opened)
  BY <1>2, <1>3 DEF DocsOK, Stacks
<1>5. disk \in Disk
  BY <1>1 DEF Disk
<1>6. Follows(doc, tabs)
  BY <1>2 DEF Follows, Opened
<1>7. active \in Opened \cup {None} /\ closed \subseteq Session
      /\ \A i, j \in DOMAIN tabs : tabs[i] = tabs[j] => i = j
  BY <1>1, <1>2
<1>8. rolled \in BOOLEAN /\ (~rolled => Follows(doc, tabs))
  BY <1>1, <1>6
<1> QED BY Zenon, <1>2, <1>4, <1>5, <1>7, <1>8 DEF LinksInv

LEMMA NextLinks == ASSUME LinksInv, Next PROVE LinksInv'
<1>1. CASE PlainNext
  <2>1. CASE \E s \in Session, kind \in {"part", "assembly"} :
               NewDocument(s, kind)
    BY <2>1, NewDocumentStays
  <2>2. CASE \E s \in Session, p \in Path : LoadDocument(s, p)
    BY <2>2, LoadDocumentStays
  <2>3. CASE \E s \in Session : ActivateDocument(s)
    BY <2>3, ActivateDocumentStays
  <2>4. CASE \E v \in Version : EditPart(v)
    BY <2>4, EditPartIs, EditingStays
  <2>5. CASE \E o \in Name, p \in Path : Place(o, p) \/ Replace(o, p)
    BY <2>5, PlaceIs, ReplaceIs, EditingStays, ReshowingStays
  <2>6. CASE \E o \in Name : DeleteOccurrence(o)
    BY <2>6, DeleteOccurrenceIs, EditingStays, ReshowingStays
  <2>7. CASE \E p \in Path : Save(p)
    BY <2>7, SaveStays
  <2>8. CASE SaveStops \/ SaveAllStops
    BY <2>8, SavingStopsStays
  <2>9. CASE SaveAll \/ ExecuteSaveAll
    BY <2>9, SaveAllStays
  <2>10. CASE CloseSaving \/ CloseUnchanged \/ DeleteFile
    BY <2>10, ClosingStays
  <2>11. CASE CloseDiscarding
    BY <2>11, CloseDiscardingStays
  <2> QED BY Zenon, <1>1, <2>1, <2>2, <2>3, <2>4, <2>5, <2>6, <2>7, <2>8,
             <2>9, <2>10, <2>11 DEF PlainNext
<1>2. CASE FailingCommand
  BY <1>2, FailingCommandStays
<1>3. CASE ExecuteSaveAllStops
  BY <1>3, SaveAllStays
<1>4. CASE Undo \/ Redo
  BY <1>4, UndoRedoStay
<1>5. CASE UndoFails \/ RedoFails
  BY <1>5, UndoRedoFailStay
<1> QED BY Zenon, <1>1, <1>2, <1>3, <1>4, <1>5 DEF Next

LEMMA UnchangedLinks == ASSUME LinksInv, UNCHANGED vars PROVE LinksInv'
<1>1. /\ tabs' = tabs /\ active' = active /\ doc' = doc /\ undo' = undo
      /\ redo' = redo /\ disk' = disk /\ closed' = closed /\ rolled' = rolled
  BY DEF vars
<1>2. ~rolled => Follows(doc', tabs)
  BY Zenon, <1>1 DEF LinksInv
<1>3. /\ DocsOK(doc, Opened) /\ undo \in Stacks(Opened)
      /\ redo \in Stacks(Opened) /\ disk \in Disk
  BY DEF LinksInv
<1>4. /\ DocsOK(doc', Opened) /\ undo' \in Stacks(Opened)
      /\ redo' \in Stacks(Opened) /\ disk' \in Disk
  BY Zenon, <1>1, <1>3
<1> QED BY Zenon, <1>1, <1>2, <1>4, IdleStays

(* LinksInv holds after every command: what _document_snapshot, load,      *)
(* rebuild_assembly and the synchronisation leave of links and shapes is   *)
(* what the next of them expects.                                          *)
THEOREM AlwaysLinksInv == Spec => []LinksInv
<1>1. Init => LinksInv
  BY InitLinks
<1>2. LinksInv /\ [Next]_vars => LinksInv'
  BY NextLinks, UnchangedLinks
<1> QED BY <1>1, <1>2, PTL DEF Spec

LEMMA LinksInvTypeOK == ASSUME LinksInv PROVE TypeOK
<1>1. Seq(KeptDocument) \subseteq Seq(Document)
  BY DEF KeptDocument
<1>2. Written \subseteq File
  BY DEF Written
<1>3. undo \in [Opened -> Seq(Document)] /\ redo \in [Opened -> Seq(Document)]
  BY <1>1 DEF LinksInv, Stacks
<1>4. disk \in [Path -> File \cup {None}]
  BY <1>2 DEF LinksInv, Disk
<1>5. Opened \subseteq Session /\ doc \in [Opened -> Document]
  BY OpenedIs DEF LinksInv, Opened, DocsOK
<1>6. /\ tabs \in Seq(Session) /\ active \in Opened \cup {None}
      /\ closed \subseteq Session
  BY DEF LinksInv
<1>7. rolled \in BOOLEAN
  BY Zenon DEF LinksInv
<1>8. active \in Session \cup {None}
  BY <1>5, <1>6
<1> QED BY Zenon, <1>3, <1>4, <1>5, <1>6, <1>7, <1>8 DEF TypeOK

(* The tabs, the documents, the two stacks of each and the files have the  *)
(* form the code gives them, whatever commands are given.                  *)
THEOREM LinksTypeCorrect == Spec => []TypeOK
<1>1. LinksInv => TypeOK
  BY LinksInvTypeOK
<1> QED BY <1>1, AlwaysLinksInv, PTL

LEMMA LinksInvFollows == ASSUME LinksInv PROVE AssembliesFollow
<1> SUFFICES ASSUME ~rolled, NoCycle, NEW s \in Opened,
                    doc[s].kind = "assembly"
             PROVE  /\ doc[s].shape = Compose(doc[s].occs)
                    /\ \A o \in DOMAIN doc[s].occs :
                         LET t == Source(doc, tabs, doc[s].occs[o])
                         IN (t \notin {None, s} /\ doc[t].shape # {}) =>
                              /\ doc[s].occs[o].link = t
                              /\ doc[s].occs[o].shape = doc[t].shape
  BY Zenon DEF AssembliesFollow
<1>1. Follows(doc, tabs)
  BY Zenon DEF LinksInv
<1>2. Stale(doc, tabs, s) = {}
  BY <1>1 DEF Follows, Acyclic, NoCycle, Opened
<1>3. DocFits(doc[s], doc, Opened, s)
  BY DEF LinksInv, DocsOK
<1>4. doc[s].shape = Compose(doc[s].occs)
  BY <1>3 DEF DocFits
<1>5. ASSUME NEW o \in DOMAIN doc[s].occs,
             Source(doc, tabs, doc[s].occs[o]) \notin {None, s},
             doc[Source(doc, tabs, doc[s].occs[o])].shape # {}
      PROVE  /\ doc[s].occs[o].link = Source(doc, tabs, doc[s].occs[o])
             /\ doc[s].occs[o].shape
                = doc[Source(doc, tabs, doc[s].occs[o])].shape
  <2> DEFINE t == Source(doc, tabs, doc[s].occs[o])
             occ == doc[s].occs[o]
  <2>1. Of(doc, tabs, s, o) = t
    BY DEF Of
  <2>2. o \notin Stale(doc, tabs, s)
    BY <1>2
  <2>3. t # None /\ t # s /\ doc[t].shape # {}
    BY <1>5
  <2> HIDE DEF t
  <2>4. occ.link = t /\ occ.same
    BY <2>1, <2>2, <2>3, StaleIs
  <2>5. occ.shape = doc[occ.link].shape
    BY <1>3, <2>3, <2>4 DEF DocFits
  <2> QED BY <2>4, <2>5 DEF t
<1> QED BY Zenon, <1>4, <1>5

(* After every command that is not rolled back, each open assembly shows   *)
(* what its open components show, at any depth and in any order of the     *)
(* tabs: the passes of _sync_open_assembly_occurrences are enough, and     *)
(* opening, saving, closing, discarding, undo and redo leave nothing       *)
(* stale behind.                                                           *)
THEOREM AssembliesAlwaysFollow == Spec => []AssembliesFollow
<1>1. LinksInv => AssembliesFollow
  BY LinksInvFollows
<1> QED BY <1>1, AlwaysLinksInv, PTL

(* When a document is closed without saving, whoever was placed from its   *)
(* file shows that file again, whichever assemblies are open and however   *)
(* they follow each other: no discarded shape stays in an open assembly.   *)
THEOREM DiscardAlwaysReachesParents == Spec => DiscardReachesParents
<1>1. LinksInv /\ [Next]_vars =>
        [CloseDiscarding =>
           \A s \in Opened' : \A o \in DOMAIN doc'[s].occs :
             LET occ == doc'[s].occs[o]
             IN (occ.path = doc[active].path /\ occ.link = None) =>
                  occ.shape = FromFile(doc[active].path).shape]_vars
  BY DiscardReaches
<1> QED BY <1>1, AlwaysLinksInv, PTL DEF Spec, DiscardReachesParents

----------------------------------------------------------------------------
(* Files and the documents saved to them.                                  *)

(* No two tabs show one file, and the file of a tab is there.              *)
OwnPaths(docs, S, files) ==
  /\ \A s, t \in S :
       docs[s].path = docs[t].path /\ docs[s].path # None => s = t
  /\ \A s \in S : docs[s].path # None => files[docs[s].path] # None

(* Document d can be read from file f: f has the components d has, and     *)
(* their paths unless the only component of d has been moved.              *)
FileFits(d, f) ==
  /\ f.kind = d.kind /\ DOMAIN f.occs = DOMAIN d.occs
  /\ f.shape = IF d.kind = "part" THEN d.shape ELSE {}
  /\ \/ \A o \in DOMAIN d.occs : f.occs[o].path = d.occs[o].path
     \/ d.dirty /\ \E o : DOMAIN d.occs = {o}

(* The tabs of B have new objects that were not saved. They have unsaved   *)
(* changes; every other document fits its file, and does not yet show the  *)
(* object of a tab of B.                                                   *)
FilesFit(docs, S, files, B) ==
  /\ B \subseteq S /\ \A s \in B : docs[s].dirty
  /\ \A s \in S \ B :
       /\ docs[s].path # None => FileFits(docs[s], files[docs[s].path])
       /\ \A o \in DOMAIN docs[s].occs :
            docs[s].occs[o].link \in B => ~docs[s].occs[o].same

FilesOK(docs, S, files) ==
  /\ OwnPaths(docs, S, files) /\ ByPath(docs, S)
  /\ \E B : FilesFit(docs, S, files, B)

(* The document of tab x after it followed.                                *)
LEMMA SyncOneIs ==
  ASSUME NEW S \in SUBSET Session, NEW order \in Seq(S), Range(order) = S,
         NEW ds, DocsOK(ds, S), NEW x \in S, Stale(ds, order, x) # {}
  PROVE  \E d \in Document :
           /\ SyncOne(ds, order, x) = Put(ds, x, d)
           /\ d.kind = ds[x].kind /\ d.path = ds[x].path
           /\ d.occs = Caught(ds, order, x)
           /\ d.dirty <=> \/ ds[x].dirty
                          \/ LinkedToUnsaved(ds, Caught(ds, order, x))
<1> DEFINE occs == Caught(ds, order, x)
           b == ds[x].dirty \/ LinkedToUnsaved(ds, occs)
           d == [Rebuilt(ds[x], occs) EXCEPT !.dirty = b]
<1>1. ds[x] \in Document /\ occs \in Occurrences
  BY CaughtIs DEF DocsOK
<1>2. SyncOne(ds, order, x) = Put(ds, x, d)
  <2>1. SyncOne(ds, order, x)
          = Put(ds, x, [Rebuilt(ds[x], occs) EXCEPT
                          !.dirty = @ \/ LinkedToUnsaved(ds, occs)])
    BY Zenon DEF SyncOne, Caught, Of
  <2>2. Rebuilt(ds[x], occs).dirty = ds[x].dirty
    BY <1>1 DEF Rebuilt, Document
  <2>3. [Rebuilt(ds[x], occs) EXCEPT !.dirty = @ \/ LinkedToUnsaved(ds, occs)]
          = [Rebuilt(ds[x], occs) EXCEPT
               !.dirty = ds[x].dirty \/ LinkedToUnsaved(ds, occs)]
    BY <2>2
  <2> QED BY <2>1, <2>3
<1>3. /\ d \in Document /\ d.kind = ds[x].kind /\ d.path = ds[x].path
      /\ d.occs = occs /\ d.dirty = b
  <2>1. b \in BOOLEAN
    BY Zenon
  <2>2. Compose(occs) \in Shape
    BY <1>1, ComposeType
  <2> HIDE DEF b, occs
  <2> QED BY <1>1, <2>1, <2>2 DEF Rebuilt, Document
<1> HIDE DEF d
<1> QED BY <1>2, <1>3

LEMMA SyncOneFits ==
  ASSUME NEW S \in SUBSET Session, NEW order \in Seq(S), Range(order) = S,
         NEW ds, DocsOK(ds, S), NEW x \in S, NEW files, FilesOK(ds, S, files)
  PROVE  FilesOK(SyncOne(ds, order, x), S, files)
<1> DEFINE new == SyncOne(ds, order, x)
           stale == Stale(ds, order, x)
           occs == Caught(ds, order, x)
           old == ds[x].occs
<1>1. CASE stale = {}
  BY <1>1 DEF SyncOne
<1>2. CASE stale # {}
  <2>1. /\ ds \in [S -> Document] /\ None \notin S
        /\ \A s \in S : DocFits(ds[s], ds, S, s)
    BY LinksAssumption DEF DocsOK
  <2>2. PICK d \in Document :
          /\ new = Put(ds, x, d)
          /\ d.kind = ds[x].kind /\ d.path = ds[x].path /\ d.occs = occs
          /\ d.dirty <=> ds[x].dirty \/ LinkedToUnsaved(ds, occs)
    BY <1>2, SyncOneIs
  <2>3. /\ DOMAIN occs = DOMAIN old
        /\ \A o \in DOMAIN old : occs[o].path = old[o].path
        /\ \A o \in stale : /\ Of(ds, order, x, o) \in S \ {x}
                            /\ occs[o].link = Of(ds, order, x, o)
        /\ \A o \in DOMAIN old : o \notin stale => occs[o] = old[o]
    BY CaughtIs
  <2>4. stale \subseteq DOMAIN old
    BY StaleIs
  <2>5. ds[x].kind # "part"
    BY <1>2, <2>1, <2>4 DEF DocFits
  <2>6. ShownBy(ds, new, S, x, d)
    BY <2>1, <2>2, PutIs
  <2> HIDE DEF new, stale, occs
  <2>7. /\ new[x] = d
        /\ \A s \in S \ {x} :
             /\ new[s].kind = ds[s].kind /\ new[s].path = ds[s].path
             /\ new[s].dirty = ds[s].dirty /\ new[s].shape = ds[s].shape
             /\ new[s].occs = Parted(ds[s].occs, {x})
    BY Zenon, <2>6 DEF ShownBy
  <2>8. ASSUME NEW s \in S \ {x}
        PROVE  /\ DOMAIN new[s].occs = DOMAIN ds[s].occs
               /\ \A o \in DOMAIN ds[s].occs :
                    /\ new[s].occs[o].link = ds[s].occs[o].link
                    /\ new[s].occs[o].path = ds[s].occs[o].path
                    /\ new[s].occs[o].same <=>
                         ds[s].occs[o].same /\ ds[s].occs[o].link # x
    <3>1. ds[s].occs \in Occurrences
      BY <2>1, DocumentParts
    <3> QED BY <2>7, <3>1, PartedIs
  <2>9. \A s \in S : new[s].path = ds[s].path
    BY <2>2, <2>7
  <2>10. OwnPaths(new, S, files)
    BY <2>9 DEF OwnPaths, FilesOK
  <2>11. ASSUME NEW o \in DOMAIN old
         PROVE  /\ occs[o].link \in S \cup {None}
                /\ NamesSource(occs[o], ds)
    <3>1. /\ old[o].link \in S \cup {None}
          /\ NamesSource(old[o], ds)
      BY <2>1 DEF DocFits, FilesOK, ByPath
    <3>2. CASE o \notin stale
      BY <2>3, <3>1, <3>2
    <3>3. CASE o \in stale
      <4>1. CASE old[o].link # None
        <5>1. Of(ds, order, x, o) = old[o].link
          BY <4>1, SourceIs DEF Of
        <5> QED BY <2>3, <3>1, <3>3, <4>1, <5>1 DEF NamesSource
      <4>2. CASE old[o].link = None
        <5> DEFINE showing == Showing(ds, order, old[o].path)
        <5>1. Of(ds, order, x, o)
                = IF showing = {} THEN None ELSE order[Max(showing)]
          BY <4>2 DEF Of, Source
        <5>2. showing # {}
          BY <2>1, <2>3, <3>3, <5>1
        <5>3. ds[order[Max(showing)]].path = old[o].path
          BY <5>2, ShowingIs
        <5> HIDE DEF showing
        <5> QED BY <2>3, <3>3, <5>1, <5>2, <5>3 DEF NamesSource
      <4> QED BY <4>1, <4>2
    <3> QED BY <3>2, <3>3
  <2>12. ByPath(new, S)
    <3> SUFFICES ASSUME NEW s \in S, NEW o \in DOMAIN new[s].occs
                 PROVE  NamesSource(new[s].occs[o], new)
      BY DEF ByPath
    <3>1. CASE s = x
      BY <2>2, <2>3, <2>7, <2>9, <2>11, <3>1 DEF NamesSource
    <3>2. CASE s # x
      <4>1. o \in DOMAIN ds[s].occs
        BY <2>8, <3>2
      <4>2. ds[s].occs[o].link \in S \cup {None} /\ NamesSource(ds[s].occs[o], ds)
        BY <2>1, <4>1 DEF DocFits, FilesOK, ByPath
      <4> QED BY <2>8, <2>9, <3>2, <4>1, <4>2 DEF NamesSource
    <3> QED BY <3>1, <3>2
  <2>13. PICK B : FilesFit(ds, S, files, B)
    BY DEF FilesOK
  <2>14. ds[x].dirty => d.dirty
    BY <2>2
  <2>15. CASE \E o \in stale : Of(ds, order, x, o) \in B
    <3>1. d.dirty
      <4>1. PICK o \in stale : Of(ds, order, x, o) \in B
        BY <2>15
      <4>2. /\ o \in DOMAIN occs /\ occs[o].link # None
            /\ ds[occs[o].link].dirty
        BY <2>1, <2>3, <2>4, <2>13, <4>1 DEF FilesFit
      <4>3. LinkedToUnsaved(ds, occs)
        BY <4>2 DEF LinkedToUnsaved
      <4> QED BY <2>2, <4>3
    <3>2. B \cup {x} \subseteq S /\ \A s \in B \cup {x} : new[s].dirty
      BY <2>7, <2>13, <3>1 DEF FilesFit
    <3>3. ASSUME NEW s \in S \ (B \cup {x})
          PROVE  /\ new[s].path # None =>
                      FileFits(new[s], files[new[s].path])
                 /\ \A o \in DOMAIN new[s].occs :
                      new[s].occs[o].link \in B \cup {x} =>
                        ~new[s].occs[o].same
      <4>1. s \in S \ {x} /\ s \in S \ B
        OBVIOUS
      <4>2. ds[s].path # None => FileFits(ds[s], files[ds[s].path])
        BY <2>13, <4>1 DEF FilesFit
      <4>3. new[s].path # None => FileFits(new[s], files[new[s].path])
        BY <2>7, <2>8, <4>1, <4>2 DEF FileFits
      <4>4. \A o \in DOMAIN ds[s].occs :
              ds[s].occs[o].link \in B => ~ds[s].occs[o].same
        BY <2>13, <4>1 DEF FilesFit
      <4> QED BY <2>8, <4>1, <4>3, <4>4
    <3>4. FilesFit(new, S, files, B \cup {x})
      BY <3>2, <3>3 DEF FilesFit
    <3> QED BY <2>10, <2>12, <3>4 DEF FilesOK, new
  <2>16. CASE ~\E o \in stale : Of(ds, order, x, o) \in B
    <3>1. B \subseteq S /\ \A s \in B : new[s].dirty
      BY <2>7, <2>13, <2>14 DEF FilesFit
    <3>2. ASSUME NEW s \in S \ B
          PROVE  /\ new[s].path # None =>
                      FileFits(new[s], files[new[s].path])
                 /\ \A o \in DOMAIN new[s].occs :
                      new[s].occs[o].link \in B => ~new[s].occs[o].same
      <4>1. ds[s].path # None => FileFits(ds[s], files[ds[s].path])
        BY <2>13 DEF FilesFit
      <4>2. \A o \in DOMAIN ds[s].occs :
              ds[s].occs[o].link \in B => ~ds[s].occs[o].same
        BY <2>13 DEF FilesFit
      <4>3. CASE s = x
        <5>1. new[s].path # None => FileFits(new[s], files[new[s].path])
          <6> SUFFICES ASSUME d.path # None
                       PROVE  FileFits(d, files[d.path])
            BY <2>7, <4>3
          <6> DEFINE f == files[d.path]
          <6>1. FileFits(ds[x], f)
            BY <2>2, <4>1, <4>3
          <6> HIDE DEF f
          <6>2. f.kind = d.kind /\ DOMAIN f.occs = DOMAIN d.occs
            BY <2>2, <2>3, <6>1 DEF FileFits
          <6>3. f.shape = IF d.kind = "part" THEN d.shape ELSE {}
            BY <2>2, <2>5, <6>1 DEF FileFits
          <6>4. \/ \A o \in DOMAIN d.occs : f.occs[o].path = d.occs[o].path
                \/ d.dirty /\ \E o : DOMAIN d.occs = {o}
            <7>1. DOMAIN d.occs = DOMAIN old
              BY <2>2, <2>3
            <7>2. \A o \in DOMAIN old : d.occs[o].path = old[o].path
              BY <2>2, <2>3
            <7> QED BY <2>14, <6>1, <7>1, <7>2 DEF FileFits
          <6> QED BY <6>2, <6>3, <6>4 DEF FileFits, f
        <5>2. \A o \in DOMAIN occs : occs[o].link \in B => ~occs[o].same
          BY <2>3, <2>16, <4>2, <4>3
        <5> QED BY <2>2, <2>7, <4>3, <5>1, <5>2
      <4>4. CASE s # x
        <5>1. new[s].path # None => FileFits(new[s], files[new[s].path])
          BY <2>7, <2>8, <4>1, <4>4 DEF FileFits
        <5> QED BY <2>8, <4>2, <4>4, <5>1
      <4> QED BY <4>3, <4>4
    <3>3. FilesFit(new, S, files, B)
      BY <3>1, <3>2 DEF FilesFit
    <3> QED BY <2>10, <2>12, <3>3 DEF FilesOK, new
  <2> QED BY <2>15, <2>16
<1> QED BY <1>1, <1>2

LEMMA OnePassFits ==
  ASSUME NEW S \in SUBSET Session, NEW order \in Seq(S), Range(order) = S,
         NEW docs, DocsOK(docs, S), NEW files, FilesOK(docs, S, files)
  PROVE  FilesOK(Pass(docs, order), S, files)
<1> DEFINE n == Len(order)
<1>1. PICK a : PassSteps(docs, order, S, a)
  BY PassRuns
<1>2. /\ n \in Nat /\ a[0] = docs /\ Pass(docs, order) = a[n]
      /\ \A i \in 0..n : DocsOK(a[i], S)
      /\ \A i \in 1..n : a[i] = SyncOne(a[i - 1], order, order[i])
      /\ \A i \in 1..n : order[i] \in S
  BY <1>1 DEF PassSteps
<1> HIDE DEF n
<1> DEFINE T == {i \in 0..n : FilesOK(a[i], S, files)}
<1>3. 0 \in T
  BY <1>2
<1>4. ASSUME NEW i \in 1..n, i - 1 \in T PROVE i \in T
  <2>1. i \in 0..n /\ DocsOK(a[i - 1], S) /\ FilesOK(a[i - 1], S, files)
    BY <1>2, <1>4
  <2>2. FilesOK(SyncOne(a[i - 1], order, order[i]), S, files)
    BY <1>2, <2>1, SyncOneFits
  <2> QED BY <1>2, <2>1, <2>2
<1>5. 0..n \subseteq T
  <2> HIDE DEF T
  <2> QED BY <1>2, <1>3, <1>4, InductionTo
<1> QED BY <1>2, <1>5

(* Following leaves the documents that fit their files.                    *)
LEMMA SyncFits ==
  ASSUME NEW order \in Seq(Session), NEW docs, DocsOK(docs, Range(order)),
         NEW files, FilesOK(docs, Range(order), files)
  PROVE  FilesOK(Sync(docs, order), Range(order), files)
<1> DEFINE n == Len(order) + 1
           S == Range(order)
<1>1. S \in SUBSET Session /\ order \in Seq(S) /\ Range(order) = S
  BY OpenedIs
<1>2. DocsOK(docs, S) /\ FilesOK(docs, S, files)
  OBVIOUS
<1> HIDE DEF S
<1>3. PICK b : Syncing(docs, order, S, b)
  BY <1>1, <1>2, SyncRuns
<1>4. /\ n \in Nat /\ b[0] = docs /\ Sync(docs, order) = b[n]
      /\ \A i \in 0..n : DocsOK(b[i], S)
      /\ \A i \in 1..n : b[i] = Pass(b[i - 1], order)
  BY <1>3 DEF Syncing
<1> HIDE DEF n
<1> DEFINE T == {i \in 0..n : FilesOK(b[i], S, files)}
<1>5. 0 \in T
  BY <1>2, <1>4
<1>6. ASSUME NEW i \in 1..n, i - 1 \in T PROVE i \in T
  <2>1. i \in 0..n /\ DocsOK(b[i - 1], S) /\ FilesOK(b[i - 1], S, files)
    BY <1>4, <1>6
  <2>2. FilesOK(Pass(b[i - 1], order), S, files)
    BY <1>1, <2>1, OnePassFits
  <2> QED BY <1>4, <2>1, <2>2
<1>7. 0..n \subseteq T
  <2> HIDE DEF T
  <2> QED BY <1>4, <1>5, <1>6, InductionTo
<1> QED BY <1>4, <1>7 DEF S

----------------------------------------------------------------------------
(* Assemblies that contain themselves do not disturb the others.           *)

(* What is linked from T is in T, and nothing in T is made of itself.      *)
AcyclicIn(docs, order, T) ==
  /\ T \subseteq Range(order) /\ LinkedFrom(docs, T) \subseteq T
  /\ \A t \in T : t \notin Below(docs, order, t)

(* No tab of T has a path as long as there are tabs: without the           *)
(* components of the tabs outside T nothing contains itself.               *)
LEMMA HeightsEndIn ==
  ASSUME NEW A, NEW order \in Seq(A), NEW docs, LinksIn(docs, Range(order)),
         NEW T, AcyclicIn(docs, order, T), NEW R,
         Heights(docs, Range(order), R, Len(order) + 1)
  PROVE  R[Len(order) + 1] \cap T = {}
<1> DEFINE S == Range(order)
           n == Len(order) + 1
           cut == [s \in S |-> [occs |-> IF s \in T THEN docs[s].occs
                                        ELSE <<>>]]
<1>1. n \in Nat /\ n = Len(order) + 1
  OBVIOUS
<1>2. \A s \in S : cut[s].occs = IF s \in T THEN docs[s].occs ELSE <<>>
  OBVIOUS
<1>3. DOMAIN <<>> = {}
  OBVIOUS
<1> HIDE DEF cut, n
<1>4. LinksIn(cut, S)
  BY <1>2, <1>3 DEF LinksIn
<1>5. ASSUME NEW X \in SUBSET S
      PROVE  LinkedFrom(cut, X) = LinkedFrom(docs, X \cap T)
  <2>1. ASSUME NEW x PROVE x \in LinkedFrom(cut, X)
                             <=> x \in LinkedFrom(docs, X \cap T)
    BY <1>2, <1>3, LinkedFromIs
  <2> QED BY <2>1
<1>6. \A X, Y : X \subseteq Y => LinkedFrom(docs, X) \subseteq LinkedFrom(docs, Y)
  BY LinkedFromIs
<1>7. T \subseteq S /\ \A t \in T : t \notin Below(docs, order, t)
  BY DEF AcyclicIn
<1>8. Acyclic(cut, order)
  <2> SUFFICES ASSUME NEW s \in S PROVE s \notin Below(cut, order, s)
    BY DEF Acyclic
  <2>1. CASE s \in T
    <3> DEFINE Y == Below(docs, order, s)
    <3>1. Y \in SUBSET S /\ Closed(docs, s, Y)
      BY BelowIsLeast
    <3>2. s \notin Y
      BY <1>7, <2>1
    <3> HIDE DEF Y
    <3>3. LinkedFrom(cut, {s}) \subseteq Y
      <4>1. {s} \cap T = {s}
        BY <2>1
      <4> QED BY <1>5, <3>1, <4>1 DEF Closed
    <3>4. LinkedFrom(cut, Y) \subseteq Y
      <4>1. LinkedFrom(docs, Y \cap T) \subseteq LinkedFrom(docs, Y)
        BY <1>6
      <4> QED BY <1>5, <3>1, <4>1 DEF Closed
    <3>5. Below(cut, order, s) \subseteq Y
      BY <1>4, <3>1, <3>3, <3>4, BelowIsLeast DEF Closed
    <3> QED BY <3>2, <3>5
  <2>2. CASE s \notin T
    <3>1. \A X \in {{s}, {}} : X \in SUBSET S /\ X \cap T = {}
      BY <2>2
    <3>2. LinkedFrom(docs, {}) = {}
      <4>1. \A x : x \notin LinkedFrom(docs, {})
        BY LinkedFromIs
      <4> QED BY <4>1
    <3>3. LinkedFrom(cut, {s}) = {} /\ LinkedFrom(cut, {}) = {}
      <4>1. {s} \in SUBSET S /\ {s} \cap T = {} /\ {} \in SUBSET S
        BY <2>2
      <4>2. LinkedFrom(cut, {s}) = LinkedFrom(docs, {s} \cap T)
        BY <1>5, <4>1
      <4>3. LinkedFrom(cut, {}) = LinkedFrom(docs, {} \cap T)
        BY <1>5
      <4>4. {} \cap T = {}
        OBVIOUS
      <4> QED BY <3>2, <4>1, <4>2, <4>3, <4>4
    <3>4. Closed(cut, s, {})
      BY <3>3 DEF Closed
    <3>5. Below(cut, order, s) \subseteq {}
      BY <1>4, <3>4, BelowIsLeast
    <3> QED BY <3>5
  <2> QED BY <2>1, <2>2
<1>9. PICK Q : Heights(cut, S, Q, n) /\ \A k \in 0..n : Q[k] \in SUBSET S
  BY <1>1, HeightsExist
<1>10. Q[n] = {}
  BY <1>1, <1>4, <1>8, <1>9, HeightsEnd
<1>11. /\ R[0] = S /\ Q[0] = S
       /\ \A k \in 1..n :
            /\ R[k] = {s \in S : LinkedFrom(docs, {s}) \cap R[k - 1] # {}}
            /\ Q[k] = {s \in S : LinkedFrom(cut, {s}) \cap Q[k - 1] # {}}
  BY <1>1, <1>9 DEF Heights
<1> DEFINE I == {k \in 0..n : R[k] \cap T \subseteq Q[k]}
<1>12. 0 \in I
  BY <1>1, <1>11
<1>13. ASSUME NEW k \in 1..n, k - 1 \in I PROVE k \in I
  <2>1. R[k - 1] \cap T \subseteq Q[k - 1] /\ k \in 0..n
    BY <1>1, <1>13
  <2>2. ASSUME NEW s \in R[k], s \in T PROVE s \in Q[k]
    <3>1. s \in S /\ LinkedFrom(docs, {s}) \cap R[k - 1] # {}
      BY <1>11
    <3>2. LinkedFrom(cut, {s}) = LinkedFrom(docs, {s})
      <4>1. {s} \in SUBSET S /\ {s} \cap T = {s}
        BY <2>2, <3>1
      <4>2. LinkedFrom(cut, {s}) = LinkedFrom(docs, {s} \cap T)
        BY <1>5, <4>1
      <4> QED BY <4>1, <4>2
    <3>3. LinkedFrom(docs, {s}) \subseteq T
      <4>1. LinkedFrom(docs, {s}) \subseteq LinkedFrom(docs, T)
        BY <1>6, <2>2
      <4> QED BY <4>1 DEF AcyclicIn
    <3>4. LinkedFrom(cut, {s}) \cap Q[k - 1] # {}
      BY <2>1, <3>1, <3>2, <3>3
    <3> QED BY <1>11, <3>1, <3>4
  <2> QED BY <2>1, <2>2
<1>14. n \in I
  <2>1. 0..n \subseteq I
    <3> HIDE DEF I
    <3> QED BY <1>1, <1>12, <1>13, InductionTo
  <2> QED BY <1>1, <2>1
<1> QED BY <1>10, <1>14 DEF n

(* The tabs of T show no open document but those of T.                     *)
ShowsIn(docs, order, T) ==
  \A t \in T : \A o \in DOMAIN docs[t].occs :
    Of(docs, order, t, o) \in T \cup {None}

(* Nothing is stale in what shows nothing else and is not made of itself.  *)
FollowsIn(docs, order) ==
  \A T : AcyclicIn(docs, order, T) /\ ShowsIn(docs, order, T) =>
           \A t \in T : Stale(docs, order, t) = {}

LEMMA SyncFollowsIn ==
  ASSUME NEW order \in Seq(Session), NEW docs, DocsOK(docs, Range(order))
  PROVE  FollowsIn(Sync(docs, order), order)
<1> DEFINE S == Range(order)
           F == Sync(docs, order)
           n == Len(order) + 1
<1>1. /\ S \in SUBSET Session /\ order \in Seq(S) /\ Range(order) = S
      /\ n \in Nat
  BY OpenedIs
<1>2. DocsOK(docs, S)
  OBVIOUS
<1>3. DocsOK(F, S) /\ LinksIn(F, S)
  BY FollowedIs, DocsLink
<1> HIDE DEF S
<1>4. PICK R : Heights(F, S, R, n)
  <2> HIDE DEF F, n
  <2> QED BY <1>1, HeightsExist
<1>5. StaleIn(F, order, S, R[n])
  BY <1>1, <1>2, <1>4, SyncWave
<1> SUFFICES ASSUME NEW T, AcyclicIn(F, order, T),
                    ShowsIn(F, order, T), NEW t \in T, NEW o \in Stale(F, order, t)
             PROVE  FALSE
  BY DEF FollowsIn
<1> HIDE DEF F
<1>6. T \subseteq S
  BY <1>1 DEF AcyclicIn
<1>7. o \in DOMAIN F[t].occs /\ Of(F, order, t, o) # None
  BY StaleIs
<1>8. Of(F, order, t, o) \in T
  BY <1>7 DEF ShowsIn
<1>9. Of(F, order, t, o) \in R[n]
  BY <1>5, <1>6 DEF StaleIn
<1>10. R[n] \cap T = {}
  BY <1>1, <1>3, <1>4, HeightsEndIn
<1> QED BY <1>8, <1>9, <1>10

LEMMA FollowsInSame ==
  ASSUME NEW order \in Seq(Session), NEW ds, LinksIn(ds, Range(order)),
         NEW ds2,
         \A s \in Range(order) :
           /\ ds2[s].path = ds[s].path /\ ds2[s].shape = ds[s].shape
           /\ ds2[s].occs = ds[s].occs,
         FollowsIn(ds, order)
  PROVE  FollowsIn(ds2, order)
<1>1. /\ \A X \in SUBSET Range(order) :
           LinkedFrom(ds2, X) = LinkedFrom(ds, X)
      /\ \A x \in Range(order) :
           /\ Below(ds2, order, x) = Below(ds, order, x)
           /\ Stale(ds2, order, x) = Stale(ds, order, x)
           /\ \A o \in DOMAIN ds[x].occs :
                Of(ds2, order, x, o) = Of(ds, order, x, o)
  BY SameLinks
<1> SUFFICES ASSUME NEW T, AcyclicIn(ds2, order, T),
                    ShowsIn(ds2, order, T), NEW t \in T
             PROVE  Stale(ds2, order, t) = {}
  BY DEF FollowsIn
<1>2. T \in SUBSET Range(order)
  BY DEF AcyclicIn
<1>3. AcyclicIn(ds, order, T)
  BY <1>1, <1>2 DEF AcyclicIn
<1>4. ShowsIn(ds, order, T)
  BY <1>1, <1>2 DEF ShowsIn
<1>5. Stale(ds, order, t) = {}
  BY <1>3, <1>4 DEF FollowsIn
<1> QED BY <1>1, <1>2, <1>5

----------------------------------------------------------------------------
(* What is read from the file of a document.                               *)

(* The file of tab t has what t shows: its shape if it is a part, and for  *)
(* each occurrence the path of the tab it is linked to.                    *)
Mirrored(t) ==
  LET file == disk[doc[t].path]
      occs == doc[t].occs
  IN /\ doc[t].path \in Path /\ file # None /\ doc[t].shape # {}
     /\ DOMAIN file.occs = DOMAIN occs
     /\ doc[t].shape = Compose(occs) \cup file.shape
     /\ file.kind = "part" => DOMAIN occs = {}
     /\ file.kind # "part" => file.shape = {}
     /\ \A o \in DOMAIN occs : /\ occs[o].link # None
                             /\ file.occs[o].path = doc[occs[o].link].path
                             /\ occs[o].shape = doc[occs[o].link].shape

(* A component that is found is shown, whatever was kept of it.            *)
LEMMA FoundOneIs ==
  ASSUME NEW shape, NEW kept
  PROVE  FoundOr({shape}, kept) = {shape}
  BY DEF FoundOr

(* A component is loaded as its tab shows it when its components are.      *)
LEMMA LoadStep ==
  ASSUME disk \in Disk, NEW t, Mirrored(t), NEW v \in SUBSET Path,
         doc[t].path \notin v,
         \A o \in DOMAIN doc[t].occs :
           LET u == doc[t].occs[o].link
           IN /\ doc[u].path \in Path
              /\ Loading(disk)[v \cup {doc[t].path}][doc[u].path]
                   = {doc[u].shape}
  PROVE  Loading(disk)[v][doc[t].path] = {doc[t].shape}
<1> DEFINE p == doc[t].path
           file == disk[p]
           F == Loading(disk)
           at(o) == FoundOr(IF file.occs[o].path \in Path
                              THEN F[v \cup {p}][file.occs[o].path]
                              ELSE {},
                            file.occs[o].shape)
           all == UNION {UNION at(o) : o \in DOMAIN file.occs}
<1>1. F[v] = LoadOne(disk, F, v)
  BY LoadingIs
<1>2. F[v][p] = IF \E o \in DOMAIN file.occs : at(o) = {} THEN {}
                ELSE {all \cup file.shape} \ {{}}
  <2>1. p \in Path /\ p \notin v /\ file # None
    BY DEF Mirrored
  <2> QED BY Zenon, <1>1, <2>1 DEF LoadOne
<1>3. ASSUME NEW o \in DOMAIN file.occs
      PROVE  o \in DOMAIN doc[t].occs /\ at(o) = {doc[t].occs[o].shape}
  <2> DEFINE u == doc[t].occs[o].link
  <2>1. o \in DOMAIN doc[t].occs
    BY <1>3 DEF Mirrored
  <2>2. file.occs[o].path = doc[u].path /\ doc[t].occs[o].shape = doc[u].shape
    BY <2>1 DEF Mirrored
  <2>3. doc[u].path \in Path /\ F[v \cup {p}][doc[u].path] = {doc[u].shape}
    BY <2>1
  <2> HIDE DEF u, F, p, file
  <2>4. at(o) = FoundOr({doc[u].shape}, file.occs[o].shape)
    BY <2>2, <2>3
  <2>5. at(o) = {doc[u].shape}
    BY <2>4, FoundOneIs
  <2> QED BY <2>1, <2>2, <2>5
<1> HIDE DEF F, at
<1>4. all = Compose(doc[t].occs)
  <2>1. DOMAIN file.occs = DOMAIN doc[t].occs
    BY DEF Mirrored
  <2> HIDE DEF file
  <2>2. \A o \in DOMAIN file.occs : UNION at(o) = doc[t].occs[o].shape
    BY <1>3
  <2>3. {UNION at(o) : o \in DOMAIN file.occs}
          = {doc[t].occs[o].shape : o \in DOMAIN doc[t].occs}
    BY <2>1, <2>2
  <2> QED BY <2>3 DEF Compose
<1>5. \A o \in DOMAIN file.occs : at(o) # {}
  BY <1>3
<1>6. all \cup file.shape = doc[t].shape /\ doc[t].shape # {}
  BY <1>4 DEF Mirrored
<1>7. F[v][p] = {all \cup file.shape} \ {{}}
  BY <1>2, <1>5
<1> DEFINE whole == all \cup file.shape
<1>8. F[v][p] = {whole} \ {{}} /\ whole = doc[t].shape /\ whole # {}
  BY <1>6, <1>7
<1> HIDE DEF whole
<1>9. F[v][p] = {doc[t].shape}
  BY <1>8
<1> QED BY <1>9 DEF F, p

PathsOf(X) == {doc[u].path : u \in X}

(* Whatever is being loaded above it, a component that is not in itself is *)
(* loaded as its tab shows it.                                             *)
LEMMA LoadsBack ==
  ASSUME LinksInv, FilesOK(doc, Opened, disk), NEW T,
         AcyclicIn(doc, tabs, T), \A t \in T : Mirrored(t)
  PROVE  \A t \in T : \A v \in SUBSET Path :
           v \cap PathsOf({t} \cup Below(doc, tabs, t)) = {} =>
             Loading(disk)[v][doc[t].path] = {doc[t].shape}
<1> DEFINE n == Len(tabs) + 1
           S == Range(tabs)
           below(t) == Below(doc, tabs, t)
           Loads(t) ==
             \A v \in SUBSET Path :
               v \cap PathsOf({t} \cup below(t)) = {} =>
                 Loading(disk)[v][doc[t].path] = {doc[t].shape}
<1>1. /\ tabs \in Seq(Session) /\ n \in Nat /\ disk \in Disk /\ S = Opened
      /\ LinksIn(doc, S)
  BY DocsLink DEF LinksInv, Opened
<1>2. /\ T \subseteq S /\ LinkedFrom(doc, T) \subseteq T
      /\ \A t \in T : t \notin below(t)
  BY DEF AcyclicIn
<1>3. PICK R : Heights(doc, S, R, n)
  <2> HIDE DEF n, S
  <2> QED BY <1>1, HeightsExist
<1>4. R[n] \cap T = {}
  BY <1>1, <1>3, HeightsEndIn
<1>5. /\ R[0] = S
      /\ \A k \in 1..n :
           R[k] = {s \in S : LinkedFrom(doc, {s}) \cap R[k - 1] # {}}
  BY <1>3 DEF Heights
<1> HIDE DEF n, S
<1>6. \A s, t \in S :
        doc[s].path = doc[t].path /\ doc[s].path # None => s = t
  BY <1>1 DEF FilesOK, OwnPaths
<1> DEFINE I == {k \in 0..n : \A t \in T : t \notin R[k] => Loads(t)}
<1>7. 0 \in I
  <2> HIDE DEF Loads
  <2> QED BY <1>1, <1>2, <1>5
<1>8. ASSUME NEW k \in 1..n, k - 1 \in I PROVE k \in I
  <2>1. k \in 0..n
    BY <1>1
  <2>2. \A t \in T : t \notin R[k - 1] => Loads(t)
    BY <1>8
  <2>3. ASSUME NEW t \in T, t \notin R[k], NEW v \in SUBSET Path,
               v \cap PathsOf({t} \cup below(t)) = {}
        PROVE  Loading(disk)[v][doc[t].path] = {doc[t].shape}
    <3> DEFINE p == doc[t].path
               further == v \cup {p}
    <3>1. Mirrored(t) /\ p \in Path /\ p \notin v /\ p # None
      <4>1. p \in PathsOf({t} \cup below(t))
        BY DEF PathsOf
      <4> QED BY <2>3, <4>1, LinksAssumption DEF Mirrored
    <3>2. /\ below(t) \subseteq S
          /\ LinkedFrom(doc, {t}) \subseteq below(t)
          /\ LinkedFrom(doc, below(t)) \subseteq below(t)
      BY <1>1, <1>2, BelowIsLeast DEF Closed, S
    <3>3. ASSUME NEW o \in DOMAIN doc[t].occs
          PROVE  LET u == doc[t].occs[o].link
                 IN /\ doc[u].path \in Path
                    /\ Loading(disk)[further][doc[u].path] = {doc[u].shape}
      <4> DEFINE u == doc[t].occs[o].link
      <4>1. u \in LinkedFrom(doc, {t})
        <5>1. u # None
          BY <3>1 DEF Mirrored
        <5> QED BY <5>1, LinkedFromIs
      <4>2. u \in T /\ Mirrored(u)
        <5>1. LinkedFrom(doc, {t}) \subseteq LinkedFrom(doc, T)
          BY LinkedFromIs
        <5> QED BY <1>2, <4>1, <5>1
      <4>3. u \notin R[k - 1]
        <5>1. t \in S
          BY <1>2
        <5> HIDE DEF u
        <5> QED BY <1>5, <2>3, <4>1, <5>1
      <4> HIDE DEF u
      <4>4. Loads(u)
        <5> HIDE DEF Loads
        <5> QED BY <2>2, <4>2, <4>3
      <4>5. {u} \cup below(u) \subseteq below(t)
        <5>1. u \in below(t) /\ u \in S
          BY <1>2, <3>2, <4>1, <4>2
        <5>2. LinkedFrom(doc, {u}) \subseteq LinkedFrom(doc, below(t))
          BY <5>1, LinkedFromIs
        <5>3. Closed(doc, u, below(t))
          BY <3>2, <5>2 DEF Closed
        <5>4. below(u) \subseteq below(t)
          BY <1>1, <3>2, <5>1, <5>3, BelowIsLeast DEF S
        <5> QED BY <5>1, <5>4
      <4>6. further \cap PathsOf({u} \cup below(u)) = {}
        <5> SUFFICES ASSUME NEW w \in {u} \cup below(u), doc[w].path \in further
                     PROVE  FALSE
          BY DEF PathsOf
        <5>1. w \in below(t) /\ w \in S /\ t \in S
          BY <1>2, <3>2, <4>5
        <5>2. doc[w].path \notin v
          BY <2>3, <5>1 DEF PathsOf
        <5>3. w = t
          BY <1>6, <3>1, <5>1, <5>2
        <5> QED BY <1>2, <5>1, <5>3
      <4>7. doc[u].path \in Path /\ further \in SUBSET Path
        BY <3>1, <4>2 DEF Mirrored
      <4> HIDE DEF further
      <4> QED BY <4>4, <4>6, <4>7 DEF u
    <3> QED BY <1>1, <3>1, <3>3, LoadStep
  <2> QED BY <2>1, <2>3
<1>9. n \in I
  <2>1. 0..n \subseteq I
    <3> HIDE DEF I
    <3> QED BY <1>1, <1>7, <1>8, InductionTo
  <2> HIDE DEF I
  <2> QED BY <1>1, <2>1
<1>10. \A t \in T : t \notin R[n] => Loads(t)
  BY <1>9
<1>11. \A t \in T : t \notin R[n]
  BY <1>4
<1> HIDE DEF Loads
<1>12. \A t \in T : Loads(t)
  BY <1>10, <1>11
<1> QED BY <1>12 DEF Loads

(* No command leaves a shape in the file of an assembly.                   *)
PlainFiles(files) ==
  \A p \in Path :
    files[p] # None /\ files[p].kind = "assembly" => files[p].shape = {}

(* What a command that is not undone leaves of documents and files.        *)
SavedInv ==
  /\ ~rolled /\ FilesOK(doc, Opened, disk) /\ PlainFiles(disk)
  /\ FollowsIn(doc, tabs)

AllLinked(docs, T) ==
  \A t \in T : \A o \in DOMAIN docs[t].occs : docs[t].occs[o].link # None

LEMMA LinkedShows ==
  ASSUME NEW A, NEW order \in Seq(A), NEW docs, NEW T,
         AcyclicIn(docs, order, T), AllLinked(docs, T)
  PROVE  ShowsIn(docs, order, T)
<1> SUFFICES ASSUME NEW t \in T, NEW o \in DOMAIN docs[t].occs
             PROVE  Of(docs, order, t, o) \in T
  BY DEF ShowsIn
<1>1. docs[t].occs[o].link # None
  BY DEF AllLinked
<1>2. Of(docs, order, t, o) = docs[t].occs[o].link
  BY <1>1, SourceIs DEF Of
<1> QED BY <1>1, <1>2, LinkedFromIs DEF AcyclicIn

(* What all is made of that s shows.                                       *)
Within(s) == {s} \cup Below(doc, tabs, s)

LEMMA AllOpenIn ==
  ASSUME LinksInv, NEW s \in Opened, AllOpen(s)
  PROVE  /\ AcyclicIn(doc, tabs, Within(s)) /\ AllLinked(doc, Within(s))
         /\ Within(s) \subseteq Opened
<1>1. tabs \in Seq(Session) /\ LinksIn(doc, Opened) /\ Opened = Range(tabs)
  BY DocsLink DEF LinksInv, Opened
<1>2. /\ Below(doc, tabs, s) \subseteq Opened
      /\ LinkedFrom(doc, {s}) \subseteq Below(doc, tabs, s)
      /\ LinkedFrom(doc, Below(doc, tabs, s)) \subseteq Below(doc, tabs, s)
  BY <1>1, BelowIsLeast DEF Closed
<1>3. LinkedFrom(doc, Within(s)) \subseteq Within(s)
  <2>1. ASSUME NEW x \in LinkedFrom(doc, Within(s))
        PROVE  \/ x \in LinkedFrom(doc, {s})
               \/ x \in LinkedFrom(doc, Below(doc, tabs, s))
    BY LinkedFromIs DEF Within
  <2> QED BY <1>2, <2>1 DEF Within
<1> QED BY <1>1, <1>2, <1>3 DEF AllOpen, AcyclicIn, AllLinked, Within

(* The files of what a document without unsaved changes shows are as shown.*)
LEMMA CleanMirrors ==
  ASSUME LinksInv, SavedInv, NEW s \in Opened, doc[s].path # None,
         ~doc[s].dirty, InPlace(s)
  PROVE  \A t \in Within(s) : Mirrored(t)
<1>1. /\ AcyclicIn(doc, tabs, Within(s)) /\ AllLinked(doc, Within(s))
      /\ Within(s) \subseteq Opened
  BY AllOpenIn DEF InPlace
<1>2. \A t \in Within(s) : Stale(doc, tabs, t) = {}
  <2>1. ShowsIn(doc, tabs, Within(s))
    BY <1>1, LinkedShows DEF LinksInv
  <2> QED BY <1>1, <2>1 DEF SavedInv, FollowsIn
<1>3. PICK B : FilesFit(doc, Opened, disk, B)
  BY DEF SavedInv, FilesOK
<1>4. /\ tabs \in Seq(Session) /\ DocsOK(doc, Opened) /\ Opened = Range(tabs)
      /\ LinksIn(doc, Opened) /\ disk \in Disk
  BY DocsLink DEF LinksInv, Opened
<1>5. ASSUME NEW t \in Within(s), NEW o \in DOMAIN doc[t].occs
      PROVE  LET occ == doc[t].occs[o]
             IN /\ occ.link # None /\ occ.link \in Within(s) /\ occ.same
                /\ occ.path = doc[occ.link].path
                /\ occ.shape = doc[occ.link].shape
  <2> DEFINE occ == doc[t].occs[o]
             u == occ.link
  <2>1. u # None
    BY <1>1 DEF AllLinked
  <2>2. u \in LinkedFrom(doc, {t}) /\ u \in LinkedFrom(doc, Within(s))
    BY <2>1, LinkedFromIs
  <2>3. u \in Within(s)
    BY <1>1, <2>2 DEF AcyclicIn
  <2>4. u # t
    <3>1. LinkedFrom(doc, {t}) \subseteq Below(doc, tabs, t)
      BY <1>1, <1>4, BelowIsLeast DEF Closed
    <3>2. t \notin Below(doc, tabs, t)
      BY <1>1 DEF AcyclicIn
    <3> QED BY <2>2, <3>1, <3>2
  <2>5. Of(doc, tabs, t, o) = u
    BY <1>4, <2>1, SourceIs DEF Of
  <2>6. doc[u].shape # {}
    BY <2>3 DEF InPlace, AllOpen, Within
  <2>7. occ.same
    BY <1>2, <2>1, <2>4, <2>5, <2>6, StaleIs
  <2>8. DocFits(doc[t], doc, Opened, t)
    BY <1>1, <1>4 DEF DocsOK
  <2>9. occ.shape = doc[u].shape
    BY <2>4, <2>7, <2>8 DEF DocFits
  <2>10. occ.path = doc[u].path
    BY <1>1, <2>1 DEF SavedInv, FilesOK, ByPath, NamesSource
  <2> QED BY <2>1, <2>3, <2>7, <2>9, <2>10
<1>6. \A t \in Within(s) : t \notin B
  <2> DEFINE X == Within(s) \ B
  <2>1. s \in X
    BY <1>3 DEF FilesFit, Within
  <2>2. \A x \in LinkedFrom(doc, X) : x \in X
    <3> SUFFICES ASSUME NEW x \in LinkedFrom(doc, X) PROVE x \in X
      OBVIOUS
    <3>1. PICK t \in X : \E o \in DOMAIN doc[t].occs :
                           doc[t].occs[o].link = x
      BY LinkedFromIs
    <3>2. PICK o \in DOMAIN doc[t].occs : doc[t].occs[o].link = x
      BY <3>1
    <3>3. x \in Within(s) /\ doc[t].occs[o].same
      BY <1>5, <3>2
    <3>4. t \in Opened \ B
      BY <1>1
    <3>5. x \notin B
      BY <1>3, <3>2, <3>3, <3>4 DEF FilesFit
    <3> QED BY <3>3, <3>5
  <2>3. X \in SUBSET Opened
    BY <1>1
  <2>4. LinkedFrom(doc, {s}) \subseteq LinkedFrom(doc, X)
    BY <2>1, LinkedFromIs
  <2> HIDE DEF X
  <2>5. Below(doc, tabs, s) \subseteq X
    BY <1>4, <2>2, <2>3, <2>4, BelowIsLeast DEF Closed
  <2> QED BY <2>1, <2>5 DEF X, Within
<1> SUFFICES ASSUME NEW t \in Within(s) PROVE Mirrored(t)
  OBVIOUS
<1> DEFINE d == doc[t]
           file == disk[d.path]
<1>7. t \in Opened /\ d \in Document /\ DocFits(d, doc, Opened, t)
  BY <1>1, <1>4 DEF DocsOK
<1>8. d.path # None
  <2>1. CASE t = s
    BY <2>1
  <2>2. CASE t # s
    <3> DEFINE X == {x \in Within(s) : doc[x].path # None}
    <3>1. \A x \in LinkedFrom(doc, Within(s)) : x \in X
      <4> SUFFICES ASSUME NEW x \in LinkedFrom(doc, Within(s)) PROVE x \in X
        OBVIOUS
      <4>1. PICK y \in Within(s) : \E o \in DOMAIN doc[y].occs :
                                     doc[y].occs[o].link = x
        BY LinkedFromIs
      <4>2. PICK o \in DOMAIN doc[y].occs : doc[y].occs[o].link = x
        BY <4>1
      <4>3. x \in Within(s) /\ doc[y].occs[o].path = doc[x].path
        BY <1>5, <4>2
      <4>4. doc[y].occs[o].path # None
        <5>1. doc[y] \in Document
          BY <1>1, <1>4 DEF DocsOK
        <5>2. doc[y].occs[o] \in Occurrence
          BY <5>1, DocumentParts
        <5> QED BY <5>2, OccParts, LinksAssumption
      <4> QED BY <4>3, <4>4
    <3>2. LinkedFrom(doc, {s}) \subseteq LinkedFrom(doc, Within(s))
      BY LinkedFromIs DEF Within
    <3>3. X \in SUBSET Opened /\ X \subseteq Within(s)
      BY <1>1
    <3>4. \A x \in X : doc[x].path # None
      OBVIOUS
    <3> HIDE DEF X
    <3>5. LinkedFrom(doc, X) \subseteq LinkedFrom(doc, Within(s))
      BY <3>3, LinkedFromIs
    <3>6. Below(doc, tabs, s) \subseteq X
      BY <1>4, <3>1, <3>2, <3>3, <3>5, BelowIsLeast DEF Closed
    <3> QED BY <2>2, <3>4, <3>6 DEF Within
  <2> QED BY <2>1, <2>2
<1>9. d.path \in Path /\ file # None
  BY <1>7, <1>8, DocumentParts DEF SavedInv, FilesOK, OwnPaths
<1>10. FileFits(d, file)
  BY <1>3, <1>6, <1>7, <1>8 DEF FilesFit
<1>11. file \in Written
  BY <1>4, <1>9 DEF Disk
<1>12. \A o \in DOMAIN d.occs : file.occs[o].path = d.occs[o].path
  <2>1. CASE t = s
    BY <1>10, <2>1 DEF FileFits
  <2>2. CASE t # s
    <3>1. ~Refiled(t)
      BY <2>2 DEF InPlace, Within
    <3> HIDE DEF d, file
    <3>2. SUFFICES ASSUME NEW o, DOMAIN d.occs = {o}
                   PROVE  file.occs[o].path = d.occs[o].path
      BY <1>10 DEF FileFits
    <3>3. DOMAIN file.occs = {o}
      BY <1>10, <3>2 DEF FileFits
    <3> QED BY <3>1, <3>2, <3>3 DEF Refiled, d, file
  <2> QED BY <2>1, <2>2
<1>13. d.shape # {}
  BY DEF InPlace, AllOpen, Within
<1>14. /\ file.kind = "part" => DOMAIN d.occs = {}
       /\ file.kind # "part" => file.shape = {}
       /\ DOMAIN file.occs = DOMAIN d.occs
  BY <1>7, <1>10 DEF FileFits, DocFits
<1>15. d.shape = Compose(d.occs) \cup file.shape
  <2>1. CASE d.kind = "part"
    <3>1. Compose(d.occs) = {} /\ file.shape = d.shape
      BY <1>7, <1>10, <2>1 DEF FileFits, DocFits, Compose
    <3> QED BY <3>1
  <2>2. CASE d.kind # "part"
    <3>1. d.kind = "assembly"
      BY <1>7, <2>2, DocumentParts
    <3>2. d.shape = Compose(d.occs) /\ file.shape = {}
      BY <1>7, <1>10, <3>1 DEF FileFits, DocFits
    <3> QED BY <3>2
  <2> QED BY <2>1, <2>2
<1>16. \A o \in DOMAIN d.occs :
         /\ d.occs[o].link # None
         /\ file.occs[o].path = doc[d.occs[o].link].path
         /\ d.occs[o].shape = doc[d.occs[o].link].shape
  BY <1>5, <1>12
<1> QED BY <1>9, <1>13, <1>14, <1>15, <1>16 DEF Mirrored

LEMMA CleanReadsBack ==
  ASSUME LinksInv, SavedInv, NEW s \in Opened, doc[s].path # None,
         ~doc[s].dirty, InPlace(s)
  PROVE  ReadsBack(s)
<1> DEFINE T == Within(s)
           d == doc[s]
           p == d.path
           file == disk[p]
           from(o) == Reads(disk, {p}, file.occs[o])
<1>1. /\ AcyclicIn(doc, tabs, T) /\ AllLinked(doc, T) /\ T \subseteq Opened
      /\ \A t \in T : Mirrored(t)
  BY AllOpenIn, CleanMirrors DEF InPlace
<1>2. Mirrored(s) /\ s \in T
  BY <1>1 DEF Within
<1>3. /\ tabs \in Seq(Session) /\ disk \in Disk /\ Opened = Range(tabs)
      /\ LinksIn(doc, Opened)
  BY DocsLink DEF LinksInv, Opened
<1>4. /\ p \in Path /\ file # None /\ p # None
      /\ DOMAIN file.occs = DOMAIN d.occs
      /\ d.shape = Compose(d.occs) \cup file.shape
      /\ file.kind = "part" => DOMAIN d.occs = {}
      /\ file.kind # "part" => file.shape = {}
  BY <1>2 DEF Mirrored
<1>5. ASSUME NEW o \in DOMAIN d.occs PROVE from(o) = {d.occs[o].shape}
  <2> DEFINE u == d.occs[o].link
             below(t) == Below(doc, tabs, t)
             v == {p}
  <2>1. u # None /\ file.occs[o].path = doc[u].path
        /\ d.occs[o].shape = doc[u].shape
    BY <1>2 DEF Mirrored
  <2>2. u \in LinkedFrom(doc, {s})
    BY <2>1, LinkedFromIs
  <2>3. /\ below(s) \in SUBSET Opened
        /\ LinkedFrom(doc, {s}) \subseteq below(s)
        /\ LinkedFrom(doc, below(s)) \subseteq below(s)
    BY <1>3, BelowIsLeast DEF Closed
  <2>4. u \in below(s) /\ u \in T /\ u \in Opened
    BY <2>2, <2>3 DEF Within
  <2>5. below(u) \subseteq below(s)
    <3>1. LinkedFrom(doc, {u}) \subseteq LinkedFrom(doc, below(s))
      BY <2>4, LinkedFromIs
    <3> HIDE DEF u, below
    <3>2. Closed(doc, u, below(s))
      BY <2>3, <3>1 DEF Closed
    <3> USE DEF below
    <3>3. \A X \in SUBSET Range(tabs) :
            Closed(doc, u, X) => Below(doc, tabs, u) \subseteq X
      BY <1>3, <2>4, BelowIsLeast
    <3> QED BY <1>3, <2>3, <3>2, <3>3
  <2>6. v \cap PathsOf({u} \cup below(u)) = {}
    <3> SUFFICES ASSUME NEW w \in {u} \cup below(u), doc[w].path = p
                 PROVE  FALSE
      BY DEF PathsOf
    <3>1. w \in below(s) /\ w \in Opened
      BY <2>3, <2>4, <2>5
    <3>2. w = s
      BY <1>4, <3>1 DEF SavedInv, FilesOK, OwnPaths
    <3>3. s \notin below(s)
      BY <1>1, <1>2 DEF AcyclicIn
    <3> QED BY <3>1, <3>2, <3>3
  <2>7. doc[u].path \in Path
    BY <1>1, <2>4 DEF Mirrored
  <2>8. v \in SUBSET Path
    BY <1>4
  <2> HIDE DEF u, v, T, p
  <2>9. Loading(disk)[v][doc[u].path] = {doc[u].shape}
    <3>1. FilesOK(doc, Opened, disk)
      BY DEF SavedInv
    <3> QED BY <1>1, <2>4, <2>6, <2>8, <3>1, LoadsBack
  <2>10. Found(disk, v, file.occs[o].path) = {doc[u].shape}
    BY <2>1, <2>7, <2>9 DEF Found, u
  <2> HIDE DEF file, d
  <2>11. from(o) = {doc[u].shape}
    BY <2>10, FoundOneIs DEF Reads, v
  <2> QED BY <2>1, <2>11 DEF u
<1>6. CanLoad(p)
  <2>1. \A o \in DOMAIN file.occs : from(o) # {}
    BY <1>4, <1>5
  <2> HIDE DEF from
  <2> QED BY <1>4, <2>1 DEF CanLoad, CanRead, from
<1>7. FromFile(p).shape = d.shape
  <2> DEFINE r == [kind |-> file.kind, path |-> p, dirty |-> FALSE,
                   shape |-> file.shape, occs |-> file.occs]
  <2>1. FromFile(p) = Read(disk, {p}, r)
    BY DEF FromFile
  <2>2. r.kind = file.kind /\ r.shape = file.shape /\ r.occs = file.occs
    OBVIOUS
  <2>3. r \in Document
    <3>1. file \in Written
      BY <1>3, <1>4 DEF Disk
    <3> HIDE DEF file, p
    <3> QED BY <1>4, <3>1, WrittenParts DEF Document, p
  <2> HIDE DEF r
  <2>4. CASE file.kind = "part"
    <3>1. Read(disk, {p}, r) = r
      BY <2>2, <2>4 DEF Read
    <3>2. Compose(d.occs) = {}
      BY <1>4, <2>4 DEF Compose
    <3> QED BY <1>4, <2>1, <2>2, <3>1, <3>2
  <2>5. CASE file.kind # "part"
    <3> DEFINE new(o) == [r.occs[o] EXCEPT !.shape =
                            UNION Reads(disk, {p}, r.occs[o])]
               occs == [o \in DOMAIN r.occs |-> new(o)]
    <3>1. Read(disk, {p}, r) = Rebuilt(r, occs)
      BY <2>2, <2>5 DEF Read
    <3>2. \A o \in DOMAIN d.occs : r.occs[o] \in Occurrence
      BY <1>4, <2>2, <2>3, DocumentParts
    <3>3. ASSUME NEW o \in DOMAIN d.occs PROVE new(o).shape = d.occs[o].shape
      <4> DEFINE shape == UNION Reads(disk, {p}, r.occs[o])
      <4>1. shape = d.occs[o].shape
        BY <1>5, <2>2
      <4> HIDE DEF shape
      <4>2. [r.occs[o] EXCEPT !.shape = shape].shape = shape
        BY <3>2 DEF Occurrence
      <4> QED BY <4>1, <4>2 DEF shape
    <3> HIDE DEF new
    <3>4. DOMAIN occs = DOMAIN d.occs
            /\ \A o \in DOMAIN d.occs : occs[o].shape = d.occs[o].shape
      BY <1>4, <2>2, <3>3
    <3> HIDE DEF occs
    <3>5. Compose(occs) = Compose(d.occs)
      BY <3>4, ComposeSame
    <3>6. Rebuilt(r, occs).shape = Compose(occs)
      <4> DEFINE all == Compose(occs)
      <4>1. Rebuilt(r, occs) = [r EXCEPT !.occs = occs, !.shape = all]
        BY DEF Rebuilt
      <4> HIDE DEF all
      <4>2. Rebuilt(r, occs).shape = all
        BY <2>3, <4>1 DEF Document
      <4> QED BY <4>2 DEF all
    <3> HIDE DEF file
    <3> QED BY <1>4, <2>1, <2>5, <3>1, <3>5, <3>6
  <2> QED BY <2>4, <2>5
<1> QED BY <1>6, <1>7 DEF ReadsBack

LEMMA SavedInvClean == LinksInv /\ SavedInv => CleanIsSaved
  BY CleanReadsBack DEF CleanIsSaved

----------------------------------------------------------------------------
(* What a command leaves of the documents that fitted their files.         *)

(* Document new is d but for links that were dropped and objects that are  *)
(* not the ones the tabs show any more; what moved is alone in it.         *)
KeptButMoved(d, new, X) ==
  /\ new.kind = d.kind /\ new.path = d.path /\ (d.dirty => new.dirty)
  /\ (d.kind = "part" => new.shape = d.shape)
  /\ DOMAIN new.occs = DOMAIN d.occs
  /\ \A o \in DOMAIN d.occs :
       new.occs[o].same =>
         /\ d.occs[o].same /\ new.occs[o].link = d.occs[o].link
         /\ new.occs[o].link \notin X
  /\ \/ \A o \in DOMAIN d.occs : new.occs[o].path = d.occs[o].path
     \/ new.dirty /\ \E o : DOMAIN d.occs = {o}

LEMMA KeptFileFits ==
  ASSUME NEW d, NEW new, NEW X, KeptButMoved(d, new, X), NEW f, FileFits(d, f)
  PROVE  FileFits(new, f)
<1>1. f.kind = new.kind /\ DOMAIN f.occs = DOMAIN new.occs
  BY DEF KeptButMoved, FileFits
<1>2. f.shape = IF new.kind = "part" THEN new.shape ELSE {}
  BY DEF KeptButMoved, FileFits
<1>3. \/ \A o \in DOMAIN new.occs : f.occs[o].path = new.occs[o].path
      \/ new.dirty /\ \E o : DOMAIN new.occs = {o}
  BY DEF KeptButMoved, FileFits
<1> QED BY <1>1, <1>2, <1>3 DEF FileFits

(* The tabs of X have new objects; the others are as they were.            *)
KeptButFor(X, ds, S, files, new, S2, files2) ==
  /\ S2 \subseteq S /\ X \subseteq S2 /\ \A s \in X : new[s].dirty
  /\ \A s \in S2 \ X :
       /\ KeptButMoved(ds[s], new[s], X)
       /\ ds[s].path # None => files2[ds[s].path] = files[ds[s].path]

LEMMA FitsAfter ==
  ASSUME NEW S, NEW ds, NEW files, NEW B, FilesFit(ds, S, files, B),
         NEW S2, NEW new, NEW files2, NEW X,
         KeptButFor(X, ds, S, files, new, S2, files2)
  PROVE  FilesFit(new, S2, files2, (B \cap S2) \cup X)
<1>0. /\ S2 \subseteq S /\ X \subseteq S2 /\ \A s \in X : new[s].dirty
      /\ \A s \in S2 \ X :
           /\ KeptButMoved(ds[s], new[s], X)
           /\ ds[s].path # None => files2[ds[s].path] = files[ds[s].path]
  BY DEF KeptButFor
<1> DEFINE B2 == (B \cap S2) \cup X
<1>1. B2 \subseteq S2
  BY <1>0
<1>2. \A s \in B2 : new[s].dirty
  BY <1>0 DEF FilesFit, KeptButMoved
<1>3. ASSUME NEW s \in S2 \ B2
      PROVE  /\ new[s].path # None => FileFits(new[s], files2[new[s].path])
             /\ \A o \in DOMAIN new[s].occs :
                  new[s].occs[o].link \in B2 => ~new[s].occs[o].same
  <2>1. s \in S2 \ X /\ s \in S \ B
    BY <1>0
  <2>2. KeptButMoved(ds[s], new[s], X) /\ new[s].path = ds[s].path
    BY <1>0, <2>1 DEF KeptButMoved
  <2>3. new[s].path # None => FileFits(new[s], files2[new[s].path])
    <3> SUFFICES ASSUME new[s].path # None
                 PROVE  FileFits(new[s], files2[new[s].path])
      OBVIOUS
    <3>1. FileFits(ds[s], files2[new[s].path])
      BY <1>0, <2>1, <2>2 DEF FilesFit
    <3> QED BY <2>2, <3>1, KeptFileFits
  <2>4. ASSUME NEW o \in DOMAIN new[s].occs, new[s].occs[o].link \in B2,
               new[s].occs[o].same
        PROVE  FALSE
    <3>1. /\ o \in DOMAIN ds[s].occs /\ ds[s].occs[o].same
          /\ new[s].occs[o].link = ds[s].occs[o].link
          /\ new[s].occs[o].link \notin X
      BY <2>2, <2>4 DEF KeptButMoved
    <3> QED BY <2>1, <2>4, <3>1 DEF FilesFit
  <2> QED BY <2>3, <2>4
<1> HIDE DEF B2
<1> QED BY <1>1, <1>2, <1>3 DEF FilesFit, B2

LEMMA StepFits ==
  ASSUME NEW S, NEW ds, NEW files, FilesOK(ds, S, files),
         NEW S2, NEW new, NEW files2, NEW X,
         KeptButFor(X, ds, S, files, new, S2, files2),
         \A s \in S2 :
           /\ new[s].path = ds[s].path
           /\ ds[s].path # None => files2[ds[s].path] = files[ds[s].path],
         ByPath(new, S2)
  PROVE  FilesOK(new, S2, files2)
<1>1. S2 \subseteq S
  BY DEF KeptButFor
<1>2. OwnPaths(new, S2, files2)
  BY <1>1 DEF OwnPaths, FilesOK
<1>3. PICK B : FilesFit(ds, S, files, B)
  BY DEF FilesOK
<1>4. FilesFit(new, S2, files2, (B \cap S2) \cup X)
  BY Zenon, <1>3, FitsAfter
<1> QED BY <1>2, <1>4 DEF FilesOK

(* A command that follows.                                                 *)
LEMMA CommitSaved ==
  ASSUME LinksInv', NEW docs, DocsOK(docs, Opened'), Commit(docs),
         FilesOK(docs, Opened', disk'), PlainFiles(disk')
  PROVE  SavedInv'
<1>1. /\ tabs' \in Seq(Session) /\ Opened' = Range(tabs')
      /\ doc' = Sync(docs, tabs') /\ rolled' = FALSE
  BY DEF LinksInv, Opened, Commit
<1>2. FilesOK(doc', Opened', disk')
  <2>1. FilesOK(Sync(docs, tabs'), Range(tabs'), disk')
    BY <1>1, SyncFits
  <2> QED BY <1>1, <2>1
<1>3. FollowsIn(doc', tabs')
  BY <1>1, SyncFollowsIn
<1> QED BY <1>1, <1>2, <1>3 DEF SavedInv

(* A command that saves and does not follow.                               *)
LEMMA IdleSaved ==
  ASSUME LinksInv, SavedInv, tabs' = tabs, rolled' = rolled,
         \A s \in Opened : /\ doc'[s].path = doc[s].path
                           /\ doc'[s].shape = doc[s].shape
                           /\ doc'[s].occs = doc[s].occs,
         FilesOK(doc', Opened, disk'), PlainFiles(disk')
  PROVE  SavedInv'
<1>1. /\ tabs \in Seq(Session) /\ LinksIn(doc, Range(tabs))
      /\ Opened = Range(tabs) /\ Opened' = Opened
  BY DocsLink DEF LinksInv, Opened
<1>2. FollowsIn(doc, tabs) /\ ~rolled
  BY DEF SavedInv
<1>3. FollowsIn(doc', tabs)
  BY <1>1, <1>2, FollowsInSame
<1> QED BY <1>1, <1>2, <1>3 DEF SavedInv

(* The facts about the documents that each command needs.                  *)
LEMMA DocsAre ==
  ASSUME LinksInv, SavedInv
  PROVE  /\ Opened \in SUBSET Session /\ None \notin Opened
         /\ doc \in [Opened -> Document] /\ DocsOK(doc, Opened)
         /\ disk \in Disk /\ FilesOK(doc, Opened, disk) /\ PlainFiles(disk)
         /\ OwnPaths(doc, Opened, disk)
         /\ \A s \in Opened :
              /\ doc[s] \in Document /\ DocFits(doc[s], doc, Opened, s)
              /\ doc[s] \in KeptDocument /\ doc[s].path \in Path \cup {None}
              /\ \A o \in DOMAIN doc[s].occs :
                   /\ doc[s].occs[o] \in Occurrence
                   /\ doc[s].occs[o].link \in Opened \cup {None}
                   /\ NamesSource(doc[s].occs[o], doc)
<1>1. /\ Opened \in SUBSET Session /\ DocsOK(doc, Opened)
      /\ disk \in Disk
  BY OpenedIs DEF LinksInv, Opened
<1>2. /\ FilesOK(doc, Opened, disk) /\ PlainFiles(disk)
      /\ OwnPaths(doc, Opened, disk) /\ ByPath(doc, Opened)
  BY DEF SavedInv, FilesOK
<1>3. None \notin Opened /\ doc \in [Opened -> Document]
  BY <1>1, LinksAssumption DEF DocsOK
<1>4. ASSUME NEW s \in Opened
      PROVE  /\ doc[s] \in Document /\ DocFits(doc[s], doc, Opened, s)
             /\ doc[s] \in KeptDocument /\ doc[s].path \in Path \cup {None}
             /\ \A o \in DOMAIN doc[s].occs :
                  /\ doc[s].occs[o] \in Occurrence
                  /\ doc[s].occs[o].link \in Opened \cup {None}
                  /\ NamesSource(doc[s].occs[o], doc)
  <2>1. /\ doc[s] \in Document /\ DocFits(doc[s], doc, Opened, s)
        /\ doc[s] \in KeptDocument
    BY <1>1, DocKept
  <2> QED BY <1>2, <2>1, DocumentParts DEF DocFits, ByPath
<1> QED BY <1>1, <1>2, <1>3, <1>4

----------------------------------------------------------------------------
(* Editing, and what the files hold.                                       *)

(* Document x has unsaved changes.                                         *)
Marked(docs, x) == [docs EXCEPT ![x].dirty = TRUE]

LEMMA MarkedIs ==
  ASSUME NEW S, NEW docs, DocsOK(docs, S), NEW x \in S
  PROVE  LET new == Marked(docs, x)
         IN  /\ DocsOK(new, S) /\ new[x].dirty
             /\ \A s \in S :
                  /\ new[s].kind = docs[s].kind /\ new[s].path = docs[s].path
                  /\ new[s].shape = docs[s].shape
                  /\ new[s].occs = docs[s].occs
                  /\ docs[s].dirty => new[s].dirty
<1>1. docs \in [S -> Document]
  BY DEF DocsOK
<1> DEFINE d == [docs[x] EXCEPT !.dirty = TRUE]
<1>2. /\ d.kind = docs[x].kind /\ d.path = docs[x].path /\ d.dirty
      /\ d.shape = docs[x].shape /\ d.occs = docs[x].occs
  BY <1>1 DEF Document
<1>3. Marked(docs, x) = [docs EXCEPT ![x] = d]
  BY <1>1 DEF Marked
<1> HIDE DEF d
<1>4. DocsOK(Marked(docs, x), S)
  BY DirtyIs DEF Marked
<1> QED BY <1>1, <1>2, <1>3, <1>4

LEMMA EditingSaved ==
  ASSUME LinksInv, SavedInv, NEW d, Editing(d)
  PROVE  SavedInv'
<1> DEFINE docs == Put(doc, active, d)
           new == Marked(docs, active)
<1>1. /\ active \in Opened /\ disk' = disk /\ d \in Document
      /\ DocFits(d, doc, Opened, active) /\ d.path = doc[active].path
      /\ \A o \in DOMAIN d.occs : NamesSource(d.occs[o], doc)
      /\ Tracked(docs)
  BY DEF LinksInv, SavedInv, FilesOK, Editing
<1>2. LinksInv'
  BY EditingStays
<1>3. /\ DocsOK(doc, Opened) /\ FilesOK(doc, Opened, disk)
      /\ doc \in [Opened -> Document] /\ None \notin Opened
      /\ PlainFiles(disk)
      /\ \A s \in Opened : \A o \in DOMAIN doc[s].occs :
           /\ doc[s].occs[o].link \in Opened \cup {None}
           /\ NamesSource(doc[s].occs[o], doc)
  BY Zenon, DocsAre
<1>4. DocsOK(docs, Opened) /\ ShownBy(doc, docs, Opened, active, d)
  BY <1>1, <1>3, PutOK, PutIs
<1> HIDE DEF docs
<1>5. /\ DocsOK(new, Opened) /\ new[active].dirty
      /\ \A s \in Opened :
           /\ new[s].kind = docs[s].kind /\ new[s].path = docs[s].path
           /\ new[s].shape = docs[s].shape /\ new[s].occs = docs[s].occs
           /\ docs[s].dirty => new[s].dirty
  BY <1>1, <1>4, MarkedIs
<1> HIDE DEF new
<1>6. /\ docs[active] = d
      /\ \A s \in Opened \ {active} :
           /\ docs[s].kind = doc[s].kind /\ docs[s].path = doc[s].path
           /\ docs[s].dirty = doc[s].dirty /\ docs[s].shape = doc[s].shape
           /\ docs[s].occs = Parted(doc[s].occs, {active})
  BY Zenon, <1>4 DEF ShownBy
<1>7. ASSUME NEW s \in Opened \ {active}
      PROVE  /\ DOMAIN new[s].occs = DOMAIN doc[s].occs
             /\ \A o \in DOMAIN doc[s].occs :
                  /\ new[s].occs[o].link = doc[s].occs[o].link
                  /\ new[s].occs[o].path = doc[s].occs[o].path
                  /\ new[s].occs[o].same <=>
                       doc[s].occs[o].same /\ doc[s].occs[o].link # active
  <2>1. doc[s].occs \in Occurrences
    BY <1>3, DocumentParts
  <2>2. new[s].occs = Parted(doc[s].occs, {active})
    BY <1>5, <1>6
  <2> QED BY <2>1, <2>2, PartedIs
<1>8. \A s \in Opened : new[s].path = doc[s].path
  BY <1>1, <1>5, <1>6
<1>9. ByPath(new, Opened)
  <2> SUFFICES ASSUME NEW s \in Opened, NEW o \in DOMAIN new[s].occs
               PROVE  NamesSource(new[s].occs[o], new)
    BY DEF ByPath
  <2>1. CASE s = active
    <3>1. new[s].occs[o] = d.occs[o] /\ o \in DOMAIN d.occs
      BY <1>5, <1>6, <2>1
    <3>2. d.occs[o].link \in Opened \cup {None}
      BY <1>1, <3>1 DEF DocFits
    <3> QED BY <1>1, <1>8, <3>1, <3>2 DEF NamesSource
  <2>2. CASE s # active
    <3>1. o \in DOMAIN doc[s].occs
      BY <1>7, <2>2
    <3> QED BY <1>3, <1>7, <1>8, <2>2, <3>1 DEF NamesSource
  <2> QED BY <2>1, <2>2
<1>10. KeptButFor({active}, doc, Opened, disk, new, Opened, disk)
  <2>1. ASSUME NEW s \in Opened \ {active}
        PROVE  KeptButMoved(doc[s], new[s], {active})
    BY <1>5, <1>6, <1>7 DEF KeptButMoved
  <2> QED BY <1>1, <1>5, <2>1 DEF KeptButFor
<1>11. FilesOK(new, Opened, disk)
  BY <1>3, <1>8, <1>9, <1>10, StepFits
<1>12. Commit(new) /\ Opened' = Opened
  BY <1>1 DEF Tracked, Marked, new, Opened
<1> QED BY <1>1, <1>2, <1>3, <1>5, <1>11, <1>12, CommitSaved

LEMMA ReshowingSaved ==
  ASSUME LinksInv, SavedInv, NEW d, Reshowing(d)
  PROVE  SavedInv'
<1> DEFINE docs == [doc EXCEPT ![active] = d]
           new == Marked(docs, active)
<1>1. /\ active \in Opened /\ disk' = disk /\ d \in Document
      /\ d.kind = doc[active].kind /\ d.kind # "part"
      /\ d.path = doc[active].path /\ DocsOK(docs, Opened)
      /\ Tracked(docs)
  BY DEF LinksInv, Reshowing
<1>2. LinksInv'
  BY ReshowingStays
<1>3. /\ FilesOK(doc, Opened, disk) /\ PlainFiles(disk)
      /\ doc \in [Opened -> Document] /\ None \notin Opened
      /\ \A s \in Opened : \A o \in DOMAIN doc[s].occs :
           /\ doc[s].occs[o].link \in Opened \cup {None}
           /\ NamesSource(doc[s].occs[o], doc)
  BY Zenon, DocsAre
<1>4. PICK o : /\ DOMAIN d.occs = {o} /\ DOMAIN doc[active].occs = {o}
               /\ doc[active].occs[o].same
               /\ d.occs[o].link = doc[active].occs[o].link
               /\ NamesSource(d.occs[o], doc)
  BY DEF Reshowing
<1>5. docs[active] = d /\ \A s \in Opened \ {active} : docs[s] = doc[s]
  BY <1>1, <1>3
<1> HIDE DEF docs
<1>6. /\ DocsOK(new, Opened) /\ new[active].dirty
      /\ \A s \in Opened :
           /\ new[s].kind = docs[s].kind /\ new[s].path = docs[s].path
           /\ new[s].shape = docs[s].shape /\ new[s].occs = docs[s].occs
           /\ docs[s].dirty => new[s].dirty
  BY <1>1, MarkedIs
<1> HIDE DEF new
<1>7. \A s \in Opened : new[s].path = doc[s].path
  BY <1>1, <1>5, <1>6
<1>8. ByPath(new, Opened)
  <2> SUFFICES ASSUME NEW s \in Opened, NEW n \in DOMAIN new[s].occs
               PROVE  NamesSource(new[s].occs[n], new)
    BY DEF ByPath
  <2>1. CASE s = active
    <3>1. new[s].occs[n] = d.occs[o]
      BY <1>4, <1>5, <1>6, <2>1
    <3>2. d.occs[o].link \in Opened \cup {None}
      BY <1>1, <1>3, <1>4
    <3> QED BY <1>4, <1>7, <3>1, <3>2 DEF NamesSource
  <2>2. CASE s # active
    BY <1>3, <1>5, <1>6, <1>7, <2>2 DEF NamesSource
  <2> QED BY <2>1, <2>2
<1>9. KeptButFor({}, doc, Opened, disk, new, Opened, disk)
  <2>1. KeptButMoved(doc[active], new[active], {})
    BY <1>1, <1>4, <1>5, <1>6 DEF KeptButMoved
  <2>2. ASSUME NEW s \in Opened \ {active}
        PROVE  KeptButMoved(doc[s], new[s], {})
    BY <1>5, <1>6 DEF KeptButMoved
  <2> QED BY <2>1, <2>2 DEF KeptButFor
<1>10. FilesOK(new, Opened, disk)
  BY <1>3, <1>7, <1>8, <1>9, StepFits
<1>11. Commit(new) /\ Opened' = Opened
  BY <1>1 DEF Tracked, Marked, new, Opened
<1> QED BY <1>1, <1>2, <1>3, <1>6, <1>10, <1>11, CommitSaved

----------------------------------------------------------------------------
(* Opening, and what the files hold.                                       *)

(* A new tab shows no file that another shows, and what its file holds.    *)
LEMMA AddTabSaved ==
  ASSUME LinksInv, SavedInv, NEW s \in Session, NEW d, Loose(d), AddTab(s, d),
         d.path # None =>
           /\ \A t \in Opened : doc[t].path # d.path
           /\ disk[d.path] # None /\ FileFits(d, disk[d.path])
  PROVE  SavedInv'
<1> DEFINE new == WithTab(s, d)
           S == Opened \cup {s}
<1>1. /\ Opened' = S /\ s \notin Opened /\ disk' = disk
      /\ Commit(new) /\ DocsOK(new, Opened') /\ new[s] = d
      /\ \A t \in Opened : new[t] = doc[t]
  BY AddTabIs
<1>2. LinksInv'
  BY AddTabStays
<1>3. /\ FilesOK(doc, Opened, disk) /\ PlainFiles(disk) /\ None \notin Opened
      /\ OwnPaths(doc, Opened, disk)
      /\ \A t \in Opened : \A o \in DOMAIN doc[t].occs :
           /\ doc[t].occs[o].link \in Opened \cup {None}
           /\ NamesSource(doc[t].occs[o], doc)
  BY Zenon, DocsAre
<1>4. \A o \in DOMAIN d.occs : d.occs[o].link = None
  BY DEF Loose, Apart
<1> HIDE DEF new
<1>5. OwnPaths(new, S, disk)
  <2>1. ASSUME NEW t \in S, NEW u \in S, new[t].path = new[u].path,
               new[t].path # None
        PROVE  t = u
    <3>1. CASE t = s \/ u = s
      BY <1>1, <2>1, <3>1
    <3>2. CASE t # s /\ u # s
      <4>1. /\ t \in Opened /\ u \in Opened /\ doc[t].path = doc[u].path
            /\ doc[t].path # None
        BY <1>1, <2>1, <3>2
      <4> QED BY <1>3, <4>1 DEF OwnPaths
    <3> QED BY <3>1, <3>2
  <2>2. ASSUME NEW t \in S, new[t].path # None PROVE disk[new[t].path] # None
    <3>1. CASE t = s
      BY <1>1, <2>2, <3>1
    <3>2. CASE t # s
      BY <1>1, <1>3, <2>2, <3>2 DEF OwnPaths
    <3> QED BY <3>1, <3>2
  <2> QED BY <2>1, <2>2 DEF OwnPaths
<1>6. ByPath(new, S)
  <2> SUFFICES ASSUME NEW t \in S, NEW o \in DOMAIN new[t].occs
               PROVE  NamesSource(new[t].occs[o], new)
    BY DEF ByPath
  <2>1. CASE t = s
    BY <1>1, <1>4, <2>1 DEF NamesSource
  <2>2. CASE t # s
    <3>1. t \in Opened /\ new[t] = doc[t]
      BY <1>1, <2>2
    <3>2. /\ doc[t].occs[o].link \in Opened \cup {None}
          /\ NamesSource(doc[t].occs[o], doc)
      BY <1>3, <3>1
    <3> QED BY <1>1, <3>1, <3>2 DEF NamesSource
  <2> QED BY <2>1, <2>2
<1>7. PICK B : FilesFit(doc, Opened, disk, B)
  BY <1>3 DEF FilesOK
<1>8. FilesFit(new, S, disk, B)
  <2>1. B \subseteq S /\ \A t \in B : new[t].dirty
    BY <1>1, <1>7 DEF FilesFit
  <2>2. ASSUME NEW t \in S \ B
        PROVE  /\ new[t].path # None => FileFits(new[t], disk[new[t].path])
               /\ \A o \in DOMAIN new[t].occs :
                    new[t].occs[o].link \in B => ~new[t].occs[o].same
    <3>1. CASE t = s
      <4>1. None \notin B
        BY <1>3, <1>7 DEF FilesFit
      <4> QED BY <1>1, <1>4, <3>1, <4>1
    <3>2. CASE t # s
      <4>1. t \in Opened \ B /\ new[t] = doc[t]
        BY <1>1, <2>2, <3>2
      <4> QED BY <1>7, <4>1 DEF FilesFit
    <3> QED BY <3>1, <3>2
  <2> QED BY <2>1, <2>2 DEF FilesFit
<1>9. FilesOK(new, Opened', disk')
  BY <1>1, <1>5, <1>6, <1>8 DEF FilesOK
<1> QED BY <1>1, <1>2, <1>3, <1>9, CommitSaved

LEMMA NewDocumentSaved ==
  ASSUME LinksInv, SavedInv, NEW s \in Session,
         NEW kind \in {"part", "assembly"}, NewDocument(s, kind)
  PROVE  SavedInv'
<1> DEFINE d == [kind |-> kind, path |-> None, dirty |-> FALSE, shape |-> {},
                 occs |-> <<>>]
<1>1. <<>> \in Occurrences /\ DOMAIN <<>> = {}
  <2>1. DOMAIN <<>> = {}
    OBVIOUS
  <2>2. <<>> \in [{} -> Occurrence]
    BY <2>1
  <2> QED BY <2>1, <2>2 DEF Occurrences
<1>2. /\ d \in Document /\ d.kind = kind /\ d.occs = <<>> /\ d.shape = {}
      /\ d.path = None
  BY <1>1 DEF Document, Shape
<1>3. AddTab(s, d)
  BY DEF NewDocument
<1> HIDE DEF d
<1>4. Loose(d)
  BY <1>1, <1>2 DEF Loose, Apart, Compose
<1> QED BY <1>2, <1>3, <1>4, AddTabSaved

(* What is read from a file has the components and the paths of the file.  *)
LEMMA FromFileFits ==
  ASSUME disk \in Disk, PlainFiles(disk), NEW p \in Path, CanLoad(p)
  PROVE  FileFits(FromFile(p), disk[p])
<1> DEFINE file == disk[p]
           r == [kind |-> file.kind, path |-> p, dirty |-> FALSE,
                 shape |-> file.shape, occs |-> file.occs]
<1>1. file \in Written /\ file # None
  BY DEF CanLoad, Disk
<1>2. /\ file.kind \in {"part", "assembly"} /\ file.shape \in Shape
      /\ file.occs \in Occurrences
  BY <1>1, WrittenParts
<1>3. file.kind = "assembly" => file.shape = {}
  BY <1>1 DEF PlainFiles
<1>4. FromFile(p) = Read(disk, {p}, r)
  BY DEF FromFile
<1> HIDE DEF file
<1>5. /\ r \in Document /\ r.kind = file.kind /\ r.shape = file.shape
      /\ r.occs = file.occs
  BY <1>2 DEF Document
<1> HIDE DEF r
<1>6. CASE r.kind = "part"
  <2>1. FromFile(p) = r
    BY <1>4, <1>6 DEF Read
  <2> QED BY <1>5, <1>6, <2>1 DEF FileFits, file
<1>7. CASE r.kind # "part"
  <2> DEFINE new(o) == [r.occs[o] EXCEPT !.shape =
                          UNION Reads(disk, {p}, r.occs[o])]
             occs == [o \in DOMAIN r.occs |-> new(o)]
  <2>1. FromFile(p) = Rebuilt(r, occs)
    BY <1>4, <1>7 DEF Read
  <2>2. \A o \in DOMAIN r.occs : r.occs[o] \in Occurrence
    BY <1>5, DocumentParts
  <2>3. \A o \in DOMAIN r.occs : new(o).path = r.occs[o].path
    BY <2>2 DEF Occurrence
  <2> HIDE DEF new
  <2>4. DOMAIN occs = DOMAIN r.occs
          /\ \A o \in DOMAIN r.occs : occs[o].path = r.occs[o].path
    BY <2>3
  <2> HIDE DEF occs
  <2>5. Rebuilt(r, occs).kind = r.kind /\ Rebuilt(r, occs).occs = occs
    BY <1>5 DEF Rebuilt, Document
  <2> QED BY <1>2, <1>3, <1>5, <1>7, <2>1, <2>4, <2>5 DEF FileFits, file
<1> QED BY <1>6, <1>7

LEMMA LoadDocumentSaved ==
  ASSUME LinksInv, SavedInv, NEW s \in Session, NEW p \in Path,
         LoadDocument(s, p)
  PROVE  SavedInv'
<1>1. disk \in Disk /\ PlainFiles(disk)
  BY DocsAre
<1>2. /\ \A t \in Opened : doc[t].path # p
      /\ CanLoad(p) /\ AddTab(s, FromFile(p)) /\ disk[p] # None
  BY DEF LoadDocument, CanLoad
<1>3. Loose(FromFile(p)) /\ FromFile(p).path = p
  BY <1>1, <1>2, FromFileIs
<1>4. FileFits(FromFile(p), disk[p])
  BY <1>1, <1>2, FromFileFits
<1> DEFINE d == FromFile(p)
<1> HIDE DEF d
<1>5. Loose(d) /\ d.path = p /\ AddTab(s, d) /\ FileFits(d, disk[p])
  BY <1>2, <1>3, <1>4 DEF d
<1> QED BY <1>2, <1>5, AddTabSaved

LEMMA ActivateDocumentSaved ==
  ASSUME LinksInv, SavedInv, NEW s \in Session, ActivateDocument(s)
  PROVE  SavedInv'
<1>1. tabs' = tabs /\ Commit(doc) /\ disk' = disk /\ Opened' = Opened
  BY DEF ActivateDocument, Opened
<1>2. LinksInv'
  BY ActivateDocumentStays
<1>3. /\ DocsOK(doc, Opened) /\ FilesOK(doc, Opened, disk)
      /\ PlainFiles(disk)
  BY Zenon, DocsAre
<1> QED BY <1>1, <1>2, <1>3, CommitSaved

----------------------------------------------------------------------------
(* Saving, and what the files hold.                                        *)

(* Who is in Linked.                                                       *)
LEMMA LinkedIs ==
  ASSUME NEW S, NEW t
  PROVE  t \in Linked(S) <=>
           /\ t \in Opened /\ doc[t].dirty
           /\ \E s \in S : \E o \in DOMAIN doc[s].occs :
                doc[s].occs[o].link = t
  BY DEF Linked, Dirty

(* A file is what its document is, without links and without the shape of  *)
(* an assembly.                                                            *)
LEMMA FileOfFits ==
  ASSUME NEW d \in KeptDocument
  PROVE  /\ FileOf(d) \in Written /\ FileOf(d) # None
         /\ FileOf(d).kind = d.kind
         /\ FileOf(d).shape = IF d.kind = "part" THEN d.shape ELSE {}
         /\ DOMAIN FileOf(d).occs = DOMAIN d.occs
         /\ \A o \in DOMAIN d.occs : FileOf(d).occs[o].path = d.occs[o].path
<1>1. FileOf(d) \in Written
  BY FileOfIs
<1>2. FileOf(d) # None
  BY <1>1, NoFileAssumption DEF Written
<1>3. /\ FileOf(d).kind = d.kind /\ FileOf(d).occs = Unlinked(d.occs)
      /\ FileOf(d).shape = IF d.kind = "part" THEN d.shape ELSE {}
  BY DEF FileOf
<1>4. d.occs \in Occurrences /\ \A o \in DOMAIN d.occs : d.occs[o] \in Occurrence
  BY DocumentParts DEF KeptDocument
<1>5. DOMAIN Unlinked(d.occs) = DOMAIN d.occs
  BY <1>4, UnlinkedIs
<1>6. \A o \in DOMAIN d.occs : Unlinked(d.occs)[o].path = d.occs[o].path
  BY <1>4 DEF Unlinked, Occurrence
<1> QED BY <1>1, <1>2, <1>3, <1>5, <1>6

(* The documents of S are in their files, the other files are as they were.*)
SavedTo(S, files) ==
  /\ \A s \in S : doc[s].path # None /\ files[doc[s].path] = FileOf(doc[s])
  /\ \A p \in Path : (\A s \in S : doc[s].path # p) => files[p] = disk[p]

(* No two documents of S are saved to one file.                            *)
LEMMA DisksHold ==
  ASSUME LinksInv, SavedInv, NEW S \in SUBSET Opened,
         \A s \in S : doc[s].path # None, NEW files \in Disks(S)
  PROVE  SavedTo(S, files) /\ files \in Disk
<1> DEFINE paths == {doc[s].path : s \in S}
<1>1. PICK w \in [paths -> S] :
        /\ \A p \in DOMAIN w : doc[w[p]].path = p
        /\ files = [p \in Path |-> IF p \in DOMAIN w THEN FileOf(doc[w[p]])
                                   ELSE disk[p]]
  BY DEF Disks
<1>2. /\ OwnPaths(doc, Opened, disk)
      /\ \A s \in Opened : doc[s].path \in Path \cup {None}
  BY Zenon, DocsAre
<1>3. files \in Disk
  BY DisksAre
<1>4. DOMAIN w = paths
  OBVIOUS
<1>5. ASSUME NEW s \in S PROVE files[doc[s].path] = FileOf(doc[s])
  <2> DEFINE p == doc[s].path
  <2>1. p \in Path /\ p \in paths
    BY <1>2
  <2>2. w[p] \in S /\ doc[w[p]].path = p
    BY <1>1, <1>4, <2>1
  <2>3. w[p] = s
    BY <1>2, <2>2 DEF OwnPaths
  <2> HIDE DEF p, paths
  <2>4. files[p] = FileOf(doc[w[p]])
    BY <1>1, <1>4, <2>1
  <2> QED BY <2>3, <2>4 DEF p
<1>6. ASSUME NEW p \in Path, \A s \in S : doc[s].path # p
      PROVE  files[p] = disk[p]
  <2>1. p \notin paths
    BY <1>6
  <2> HIDE DEF paths
  <2> QED BY <1>1, <1>4, <2>1
<1> QED BY <1>3, <1>5, <1>6 DEF SavedTo

LEMMA SavedPlain ==
  ASSUME LinksInv, SavedInv, NEW S \in SUBSET Opened, NEW files,
         SavedTo(S, files)
  PROVE  PlainFiles(files)
<1>1. /\ PlainFiles(disk) /\ \A s \in Opened : doc[s] \in KeptDocument
  BY Zenon, DocsAre
<1> SUFFICES ASSUME NEW p \in Path, files[p] # None,
                    files[p].kind = "assembly"
             PROVE  files[p].shape = {}
  BY DEF PlainFiles
<1>2. CASE \E s \in S : doc[s].path = p
  <2>1. PICK s \in S : doc[s].path = p
    BY <1>2
  <2>2. files[p] = FileOf(doc[s]) /\ doc[s] \in KeptDocument
    BY <1>1, <2>1 DEF SavedTo
  <2> QED BY <2>2, FileOfFits
<1>3. CASE \A s \in S : doc[s].path # p
  BY <1>1, <1>3 DEF SavedTo, PlainFiles
<1> QED BY <1>2, <1>3

(* What is saved does not show what is not: the documents with new objects *)
(* that are left are not shown by those that were saved.                   *)
LEMMA SavingFits ==
  ASSUME LinksInv, SavedInv, NEW S \in SUBSET Opened, Linked(S) \subseteq S,
         NEW files, SavedTo(S, files), NEW B, FilesFit(doc, Opened, disk, B)
  PROVE  /\ FilesFit(Saved(S), Opened, files, B \ S)
         /\ OwnPaths(Saved(S), Opened, files) /\ ByPath(Saved(S), Opened)
         /\ DocsOK(Saved(S), Opened) /\ Saved(S) \in [Opened -> Document]
         /\ \A s \in Opened :
              /\ Saved(S)[s].kind = doc[s].kind
              /\ Saved(S)[s].path = doc[s].path
              /\ Saved(S)[s].shape = doc[s].shape
              /\ Saved(S)[s].occs = doc[s].occs
              /\ Saved(S)[s].dirty <=> doc[s].dirty /\ s \notin S
<1> DEFINE new == Saved(S)
<1>1. /\ doc \in [Opened -> Document] /\ None \notin Opened
      /\ OwnPaths(doc, Opened, disk) /\ Opened \in SUBSET Session
      /\ \A s \in Opened :
           /\ doc[s] \in KeptDocument /\ doc[s].path \in Path \cup {None}
           /\ \A o \in DOMAIN doc[s].occs :
                /\ doc[s].occs[o].link \in Opened \cup {None}
                /\ NamesSource(doc[s].occs[o], doc)
  BY Zenon, DocsAre
<1>2. /\ new \in [Opened -> Document] /\ DocsOK(new, Opened)
      /\ \A s \in Opened :
           /\ new[s].kind = doc[s].kind /\ new[s].path = doc[s].path
           /\ new[s].shape = doc[s].shape /\ new[s].occs = doc[s].occs
  BY SavedIs
<1>3. ASSUME NEW s \in Opened
      PROVE  new[s].dirty <=> doc[s].dirty /\ s \notin S
  <2> DEFINE b == doc[s].dirty /\ s \notin S
  <2>1. new[s] = [doc[s] EXCEPT !.dirty = b]
    BY <1>3 DEF Saved
  <2> HIDE DEF b, new
  <2>2. [doc[s] EXCEPT !.dirty = b].dirty = b
    BY <1>1 DEF Document
  <2> QED BY <2>1, <2>2 DEF b
<1> HIDE DEF new
<1>4. ASSUME NEW s \in Opened \ S, doc[s].path # None
      PROVE  files[doc[s].path] = disk[doc[s].path]
  <2>1. doc[s].path \in Path
    BY <1>1, <1>4
  <2>2. \A t \in S : doc[t].path # doc[s].path
    BY <1>1, <1>4 DEF OwnPaths
  <2> QED BY <2>1, <2>2 DEF SavedTo
<1>5. \A s \in S : /\ doc[s].path # None
                   /\ files[doc[s].path] = FileOf(doc[s])
  BY DEF SavedTo
<1>6. OwnPaths(new, Opened, files)
  <2>1. ASSUME NEW s \in Opened, doc[s].path # None
        PROVE  files[doc[s].path] # None
    <3>1. CASE s \in S
      <4>1. FileOf(doc[s]) # None
        BY <1>1, FileOfFits
      <4> QED BY <1>5, <3>1, <4>1
    <3>2. CASE s \notin S
      BY <1>1, <1>4, <2>1, <3>2 DEF OwnPaths
    <3> QED BY <3>1, <3>2
  <2> QED BY <1>1, <1>2, <2>1 DEF OwnPaths
<1>7. ByPath(new, Opened)
  BY <1>1, <1>2 DEF ByPath, NamesSource
<1>8. B \ S \subseteq Opened /\ \A s \in B \ S : new[s].dirty
  BY <1>3 DEF FilesFit
<1>9. ASSUME NEW s \in Opened \ (B \ S)
      PROVE  /\ new[s].path # None => FileFits(new[s], files[new[s].path])
             /\ \A o \in DOMAIN new[s].occs :
                  new[s].occs[o].link \in B \ S => ~new[s].occs[o].same
  <2>1. CASE s \in S
    <3> DEFINE f == files[doc[s].path]
    <3>1. /\ f.kind = doc[s].kind /\ DOMAIN f.occs = DOMAIN doc[s].occs
          /\ f.shape = IF doc[s].kind = "part" THEN doc[s].shape ELSE {}
          /\ \A o \in DOMAIN doc[s].occs : f.occs[o].path = doc[s].occs[o].path
      BY <1>1, <1>5, <2>1, FileOfFits
    <3> HIDE DEF f
    <3>2. FileFits(new[s], f)
      BY <1>2, <3>1 DEF FileFits
    <3>3. ASSUME NEW o \in DOMAIN doc[s].occs, doc[s].occs[o].link \in B \ S
          PROVE  FALSE
      <4>1. doc[s].occs[o].link \in Opened /\ doc[doc[s].occs[o].link].dirty
        BY <3>3 DEF FilesFit
      <4>2. doc[s].occs[o].link \in Linked(S)
        BY <2>1, <4>1, LinkedIs
      <4> QED BY <3>3, <4>2
    <3> QED BY <1>2, <3>2, <3>3 DEF f
  <2>2. CASE s \notin S
    <3>1. s \in Opened \ B
      BY <2>2
    <3>2. doc[s].path # None => FileFits(doc[s], files[doc[s].path])
      BY <1>4, <2>2, <3>1 DEF FilesFit
    <3>3. new[s].path # None => FileFits(new[s], files[new[s].path])
      BY <1>2, <1>3, <2>2, <3>2 DEF FileFits
    <3>4. \A o \in DOMAIN doc[s].occs :
            doc[s].occs[o].link \in B => ~doc[s].occs[o].same
      BY <3>1 DEF FilesFit
    <3> QED BY <1>2, <3>3, <3>4
  <2> QED BY <2>1, <2>2
<1>10. FilesFit(new, Opened, files, B \ S)
  BY <1>8, <1>9 DEF FilesFit
<1> QED BY <1>2, <1>3, <1>6, <1>7, <1>10 DEF new

LEMMA SavedFits ==
  ASSUME LinksInv, SavedInv, NEW S \in SUBSET Opened, Linked(S) \subseteq S,
         NEW files, SavedTo(S, files)
  PROVE  /\ FilesOK(Saved(S), Opened, files) /\ PlainFiles(files)
         /\ DocsOK(Saved(S), Opened)
         /\ \A s \in Opened :
              /\ Saved(S)[s].path = doc[s].path
              /\ Saved(S)[s].shape = doc[s].shape
              /\ Saved(S)[s].occs = doc[s].occs
<1>1. PICK B : FilesFit(doc, Opened, disk, B)
  BY DEF SavedInv, FilesOK
<1>2. /\ FilesFit(Saved(S), Opened, files, B \ S)
      /\ OwnPaths(Saved(S), Opened, files) /\ ByPath(Saved(S), Opened)
      /\ DocsOK(Saved(S), Opened)
      /\ \A s \in Opened :
           /\ Saved(S)[s].path = doc[s].path
           /\ Saved(S)[s].shape = doc[s].shape
           /\ Saved(S)[s].occs = doc[s].occs
  BY <1>1, SavingFits
<1>3. PlainFiles(files)
  BY SavedPlain
<1>4. FilesOK(Saved(S), Opened, files)
  BY <1>2 DEF FilesOK
<1> QED BY <1>2, <1>3, <1>4

(* Saving stops after the documents of S.                                  *)
LEMMA SavesOnlySaved ==
  ASSUME LinksInv, SavedInv, NEW S \in SUBSET Opened, SavesOnly(S),
         UNCHANGED <<tabs, active, undo, redo, closed, rolled>>
  PROVE  SavedInv'
<1>1. /\ doc' = Saved(S) /\ disk' \in Disks(S)
      /\ \A s \in S : doc[s].path # None /\ Dependencies(s) \subseteq S
  BY DEF SavesOnly, SavedBefore, Savable
<1>2. SavedTo(S, disk')
  BY <1>1, DisksHold
<1>3. Linked(S) \subseteq S
  <2> SUFFICES ASSUME NEW t \in Linked(S) PROVE t \in S
    OBVIOUS
  <2>1. PICK s \in S : \E o \in DOMAIN doc[s].occs : doc[s].occs[o].link = t
    BY LinkedIs
  <2>2. t \in Opened /\ doc[t].dirty
    BY LinkedIs
  <2>3. t \in Linked({s})
    BY <2>1, <2>2, LinkedIs
  <2>4. t \in Dependencies(s)
    BY <2>3, DependenciesAre
  <2> QED BY <1>1, <2>4
<1>4. /\ FilesOK(doc', Opened, disk') /\ PlainFiles(disk')
      /\ \A s \in Opened : /\ doc'[s].path = doc[s].path
                           /\ doc'[s].shape = doc[s].shape
                           /\ doc'[s].occs = doc[s].occs
  BY <1>1, <1>2, <1>3, SavedFits
<1> QED BY <1>4, IdleSaved

LEMMA SavingStopsSaved ==
  ASSUME LinksInv, SavedInv, SaveStops \/ SaveAllStops
  PROVE  SavedInv'
<1>1. Dependencies(active) \in SUBSET Opened /\ Dirty \in SUBSET Opened
  BY DependenciesAre DEF Dirty
<1>2. UNCHANGED <<tabs, active, undo, redo, closed, rolled>>
  BY DEF SaveStops, SaveAllStops
<1>3. PICK S \in SUBSET Opened : SavesOnly(S)
  BY <1>1 DEF SaveStops, SaveAllStops
<1> QED BY <1>2, <1>3, SavesOnlySaved

LEMMA SaveAllSaved ==
  ASSUME LinksInv, SavedInv, SaveAll \/ ExecuteSaveAll
  PROVE  SavedInv'
<1>1. /\ Dirty \in SUBSET Opened /\ Linked(Dirty) \subseteq Dirty
      /\ \A s \in Dirty : doc[s].path # None
      /\ disk' \in Disks(Dirty) /\ tabs' = tabs /\ Opened' = Opened
  BY LinkedIs DEF Dirty, Savable, SaveAll, ExecuteSaveAll, Opened
<1>2. SavedTo(Dirty, disk')
  BY <1>1, DisksHold
<1>3. /\ FilesOK(Saved(Dirty), Opened, disk') /\ PlainFiles(disk')
      /\ DocsOK(Saved(Dirty), Opened)
  BY <1>1, <1>2, SavedFits
<1>4. LinksInv'
  BY SaveAllStays
<1>5. CASE SaveAll
  <2>1. Commit(Saved(Dirty))
    BY <1>5 DEF SaveAll
  <2> QED BY <1>1, <1>3, <1>4, <2>1, CommitSaved
<1>6. CASE ExecuteSaveAll
  <2> DEFINE docs == Sync(Saved(Dirty), tabs)
             new == Marked(docs, active)
  <2>1. active \in Opened /\ Commit(new)
    BY <1>6 DEF ExecuteSaveAll, LinksInv, Marked
  <2>2. tabs \in Seq(Session) /\ Opened = Range(tabs)
    BY DEF LinksInv, Opened
  <2>3. DocsOK(docs, Opened) /\ FilesOK(docs, Opened, disk')
    BY <1>3, <2>2, FollowedIs, SyncFits
  <2> HIDE DEF docs
  <2>4. /\ DocsOK(new, Opened) /\ new[active].dirty
        /\ \A s \in Opened :
             /\ new[s].kind = docs[s].kind /\ new[s].path = docs[s].path
             /\ new[s].shape = docs[s].shape /\ new[s].occs = docs[s].occs
             /\ docs[s].dirty => new[s].dirty
    BY <2>1, <2>3, MarkedIs
  <2> HIDE DEF new
  <2>5. ByPath(new, Opened)
    <3>1. ByPath(docs, Opened) /\ LinksIn(docs, Opened)
      BY <2>3, DocsLink DEF FilesOK
    <3> QED BY <2>4, <3>1 DEF ByPath, NamesSource, LinksIn
  <2>6. KeptButFor({}, docs, Opened, disk', new, Opened, disk')
    BY <2>4 DEF KeptButFor, KeptButMoved
  <2>7. FilesOK(new, Opened, disk')
    BY <2>3, <2>4, <2>5, <2>6, StepFits
  <2> QED BY <1>1, <1>3, <1>4, <2>1, <2>4, <2>7, CommitSaved
<1> QED BY <1>5, <1>6

(* The documents when the active one and what it depends on were saved, the*)
(* active one at p.                                                        *)
SavedAs(p) ==
  [Saved(Dependencies(active) \cup {active}) EXCEPT ![active].path = p]

LEMMA SaveIs ==
  ASSUME LinksInv, NEW p \in Path, Save(p)
  PROVE  /\ active \in Opened /\ tabs' = tabs /\ Opened' = Opened
         /\ Dependencies(active) \in SUBSET (Opened \ {active})
         /\ Linked({active}) \subseteq Dependencies(active)
         /\ Linked(Dependencies(active)) \subseteq Dependencies(active)
         /\ \A s \in Dependencies(active) : doc[s].path # None
         /\ \E files \in Disks(Dependencies(active)) :
              disk' = [files EXCEPT ![p] = FileOf(doc[active])]
         /\ MaySaveTo(p)
         /\ \/ p = doc[active].path /\ Commit(SavedAs(p))
            \/ /\ p # doc[active].path
               /\ \E renewed \in Renewals(SavedAs(p), active, doc[active].path) :
                    Commit(Rebind(SavedAs(p), active, doc[active].path, p,
                                  renewed))
<1>1. active \in Opened /\ tabs' = tabs /\ Opened' = Opened
  BY DEF Save, LinksInv, Opened
<1>2. /\ Dependencies(active) \in SUBSET Opened
      /\ Linked({active}) \subseteq Dependencies(active)
      /\ Linked(Dependencies(active)) \subseteq Dependencies(active)
  BY DependenciesAre
<1>3. /\ active \notin Dependencies(active) /\ MaySaveTo(p)
      /\ \A s \in Dependencies(active) : doc[s].path # None
      /\ \E files \in Disks(Dependencies(active)) :
           disk' = [files EXCEPT ![p] = FileOf(doc[active])]
  BY DEF Save, Savable
<1>4. \/ p = doc[active].path /\ Commit(SavedAs(p))
      \/ /\ p # doc[active].path
         /\ \E renewed \in Renewals(SavedAs(p), active, doc[active].path) :
              Commit(Rebind(SavedAs(p), active, doc[active].path, p, renewed))
  BY Zenon DEF Save, SavedAs
<1> QED BY <1>1, <1>2, <1>3, <1>4

(* Where no document is saved over that of another tab.                    *)
LEMMA SaveApart ==
  ASSUME LinksInv, SavedInv, "open" \notin Overwriting, NEW p \in Path,
         MaySaveTo(p), active \in Opened, NEW s \in Opened \ {active}
  PROVE  doc[s].path # p
<1>1. OwnPaths(doc, Opened, disk)
  BY DEF SavedInv, FilesOK
<1>2. p # None
  BY LinksAssumption
<1>3. CASE p = doc[active].path
  BY <1>1, <1>2, <1>3 DEF OwnPaths
<1>4. CASE disk[p] = None
  BY <1>1, <1>2, <1>4 DEF OwnPaths
<1>5. CASE \A t \in Opened : doc[t].path # p
  BY <1>5
<1> QED BY <1>3, <1>4, <1>5 DEF MaySaveTo

LEMMA SavedAsIs ==
  ASSUME LinksInv, active \in Opened, NEW p \in Path
  PROVE  /\ DocsOK(SavedAs(p), Opened) /\ SavedAs(p)[active].path = p
         /\ \A s \in Opened :
              /\ SavedAs(p)[s].kind = doc[s].kind
              /\ SavedAs(p)[s].shape = doc[s].shape
              /\ SavedAs(p)[s].occs = doc[s].occs
              /\ s # active => SavedAs(p)[s].path = doc[s].path
              /\ SavedAs(p)[s].dirty <=>
                   doc[s].dirty /\ s \notin Dependencies(active) \cup {active}
<1> DEFINE X == Dependencies(active) \cup {active}
           ds == Saved(X)
           d == [ds[active] EXCEPT !.path = p]
           new == [ds EXCEPT ![active] = d]
<1>1. /\ ds \in [Opened -> Document] /\ DocsOK(ds, Opened)
      /\ \A s \in Opened : /\ ds[s].kind = doc[s].kind
                           /\ ds[s].path = doc[s].path
                           /\ ds[s].shape = doc[s].shape
                           /\ ds[s].occs = doc[s].occs
  BY SavedIs
<1>2. \A s \in Opened : ds[s].dirty <=> doc[s].dirty /\ s \notin X
  <2> SUFFICES ASSUME NEW s \in Opened
               PROVE  ds[s].dirty <=> doc[s].dirty /\ s \notin X
    OBVIOUS
  <2> DEFINE b == doc[s].dirty /\ s \notin X
  <2>1. ds[s] = [doc[s] EXCEPT !.dirty = b]
    BY DEF Saved
  <2>2. doc[s] \in Document
    BY DEF LinksInv, DocsOK
  <2> HIDE DEF b, ds
  <2>3. [doc[s] EXCEPT !.dirty = b].dirty = b
    BY <2>2 DEF Document
  <2> QED BY <2>1, <2>3 DEF b
<1> HIDE DEF ds
<1>3. SavedAs(p) = new
  BY <1>1 DEF SavedAs, ds
<1>4. /\ d \in Document /\ d.kind = ds[active].kind /\ d.path = p
      /\ d.shape = ds[active].shape /\ d.occs = ds[active].occs
      /\ d.dirty = ds[active].dirty
  <2>1. ds[active] \in Document
    BY <1>1
  <2> QED BY <2>1 DEF Document
<1> HIDE DEF d
<1>5. /\ new \in [Opened -> Document]
      /\ \A s \in Opened : new[s] = IF s = active THEN d ELSE ds[s]
  BY <1>1, <1>4
<1> HIDE DEF new
<1>6. \A s \in Opened :
        /\ new[s].kind = ds[s].kind /\ new[s].shape = ds[s].shape
        /\ new[s].occs = ds[s].occs
        /\ s # active => new[s].path = ds[s].path
        /\ new[s].dirty = ds[s].dirty
  BY <1>4, <1>5
<1>7. DocsOK(new, Opened)
  BY <1>1, <1>5, <1>6, DocsSame
<1>8. new[active].path = p
  BY <1>4, <1>5
<1> QED BY <1>1, <1>2, <1>3, <1>6, <1>7, <1>8 DEF X

(* What save_document leaves of documents and files before the documents   *)
(* follow, and before those that refer to the old file are told.           *)
LEMMA SaveFits ==
  ASSUME LinksInv, SavedInv, "open" \notin Overwriting, NEW p \in Path, Save(p)
  PROVE  /\ OwnPaths(SavedAs(p), Opened, disk') /\ PlainFiles(disk')
         /\ \E B : FilesFit(SavedAs(p), Opened, disk', B)
<1> DEFINE D == Dependencies(active)
           new == SavedAs(p)
           ds == Saved(D)
<1>1. /\ active \in Opened /\ D \in SUBSET Opened /\ active \notin D
      /\ Linked({active}) \subseteq D /\ Linked(D) \subseteq D
      /\ \A s \in D : doc[s].path # None
      /\ MaySaveTo(p)
  BY SaveIs
<1>2. PICK files \in Disks(D) : disk' = [files EXCEPT ![p] = FileOf(doc[active])]
  BY SaveIs
<1>3. SavedTo(D, files) /\ files \in Disk
  BY <1>1, DisksHold
<1>4. PICK B : FilesFit(doc, Opened, disk, B)
  BY DEF SavedInv, FilesOK
<1>5. /\ FilesFit(ds, Opened, files, B \ D) /\ OwnPaths(ds, Opened, files)
      /\ \A s \in Opened :
           /\ ds[s].kind = doc[s].kind /\ ds[s].path = doc[s].path
           /\ ds[s].shape = doc[s].shape /\ ds[s].occs = doc[s].occs
           /\ ds[s].dirty <=> doc[s].dirty /\ s \notin D
  <2> HIDE DEF D
  <2> QED BY Zenon, <1>1, <1>3, <1>4, SavingFits
<1>6. /\ new[active].path = p
      /\ \A s \in Opened :
           /\ new[s].kind = doc[s].kind
           /\ new[s].shape = doc[s].shape
           /\ new[s].occs = doc[s].occs
           /\ s # active => new[s].path = doc[s].path
           /\ new[s].dirty <=> doc[s].dirty /\ s \notin D \cup {active}
  BY <1>1, SavedAsIs
<1>7. PlainFiles(files) /\ doc[active] \in KeptDocument
  <2>1. doc[active] \in KeptDocument
    BY Zenon, <1>1, DocsAre
  <2>2. PlainFiles(files)
    BY <1>1, <1>3, SavedPlain
  <2> QED BY <2>1, <2>2
<1> HIDE DEF D, new, ds
<1>8. /\ FileOf(doc[active]) # None
      /\ FileOf(doc[active]).kind = doc[active].kind
      /\ FileOf(doc[active]).shape =
           IF doc[active].kind = "part" THEN doc[active].shape ELSE {}
      /\ DOMAIN FileOf(doc[active]).occs = DOMAIN doc[active].occs
      /\ \A o \in DOMAIN doc[active].occs :
           FileOf(doc[active]).occs[o].path = doc[active].occs[o].path
  BY <1>7, FileOfFits
<1>9. disk'[p] = FileOf(doc[active]) /\ \A q \in Path \ {p} : disk'[q] = files[q]
  BY <1>2, <1>3 DEF Disk
<1>10. \A s \in Opened \ {active} : doc[s].path # p
  BY <1>1, SaveApart
<1>11. \A s \in Opened : doc[s].path \in Path \cup {None}
  BY Zenon, DocsAre
<1>12. PlainFiles(disk')
  BY <1>7, <1>8, <1>9 DEF PlainFiles
<1>13. OwnPaths(new, Opened, disk')
  <2>1. ASSUME NEW s \in Opened, NEW t \in Opened,
               new[s].path = new[t].path, new[s].path # None
        PROVE  s = t
    <3>1. CASE s = active \/ t = active
      BY <1>6, <1>10, <2>1, <3>1
    <3>2. CASE s # active /\ t # active
      BY <1>5, <1>6, <2>1, <3>2 DEF OwnPaths
    <3> QED BY <3>1, <3>2
  <2>2. ASSUME NEW s \in Opened, new[s].path # None
        PROVE  disk'[new[s].path] # None
    <3>1. CASE s = active
      BY <1>6, <1>8, <1>9, <3>1
    <3>2. CASE s # active
      <4>1. /\ new[s].path = doc[s].path /\ doc[s].path \in Path
            /\ doc[s].path # p
        BY <1>6, <1>10, <1>11, <2>2, <3>2
      <4>2. ds[s].path # None => files[ds[s].path] # None
        BY <1>5 DEF OwnPaths
      <4>3. ds[s].path = doc[s].path
        BY <1>5
      <4>4. disk'[doc[s].path] = files[doc[s].path] /\ doc[s].path # None
        BY <1>9, <2>2, <4>1
      <4> QED BY <4>1, <4>2, <4>3, <4>4
    <3> QED BY <3>1, <3>2
  <2> QED BY <2>1, <2>2 DEF OwnPaths
<1>14. FilesFit(new, Opened, disk', (B \ D) \ {active})
  <2> DEFINE C == (B \ D) \ {active}
  <2>1. C \subseteq Opened /\ \A s \in C : new[s].dirty
    BY <1>4, <1>6 DEF FilesFit
  <2>2. ASSUME NEW s \in Opened \ C
        PROVE  /\ new[s].path # None => FileFits(new[s], disk'[new[s].path])
               /\ \A o \in DOMAIN new[s].occs :
                    new[s].occs[o].link \in C => ~new[s].occs[o].same
    <3>1. CASE s = active
      <4>1. FileFits(new[s], disk'[new[s].path])
        <5> DEFINE f == FileOf(doc[active])
        <5> HIDE DEF f
        <5>1. disk'[new[s].path] = f
          BY <1>6, <1>9, <3>1 DEF f
        <5>2. FileFits(doc[active], f)
          BY <1>8 DEF f, FileFits
        <5>3. /\ new[active].kind = doc[active].kind
              /\ new[active].shape = doc[active].shape
              /\ new[active].occs = doc[active].occs
          BY <1>1, <1>6
        <5>4. \A o \in DOMAIN doc[active].occs :
                f.occs[o].path = doc[active].occs[o].path
          BY <1>8 DEF f
        <5>5. FileFits(new[active], f)
          BY <5>2, <5>3, <5>4 DEF FileFits
        <5> QED BY <3>1, <5>1, <5>5
      <4>2. ASSUME NEW o \in DOMAIN doc[s].occs, doc[s].occs[o].link \in C
            PROVE  FALSE
        <5>1. doc[s].occs[o].link \in Opened /\ doc[doc[s].occs[o].link].dirty
          BY <1>4, <4>2 DEF FilesFit
        <5>2. doc[s].occs[o].link \in Linked({active})
          BY <3>1, <5>1, LinkedIs
        <5> QED BY <1>1, <4>2, <5>2
      <4> QED BY <1>6, <4>1, <4>2
    <3>2. CASE s # active
      <4>1. s \in Opened \ (B \ D)
        BY <3>2
      <4>2. /\ ds[s].path # None => FileFits(ds[s], files[ds[s].path])
            /\ \A o \in DOMAIN ds[s].occs :
                 ds[s].occs[o].link \in B \ D => ~ds[s].occs[o].same
        BY <1>5, <4>1 DEF FilesFit
      <4>3. /\ new[s].path = ds[s].path /\ new[s].occs = ds[s].occs
            /\ new[s].kind = ds[s].kind /\ new[s].shape = ds[s].shape
            /\ ds[s].dirty => new[s].dirty
        BY <1>5, <1>6, <3>2
      <4>4. ds[s].path # None => disk'[ds[s].path] = files[ds[s].path]
        BY <1>5, <1>9, <1>10, <1>11, <3>2
      <4>5. new[s].path # None => FileFits(new[s], disk'[new[s].path])
        BY <4>2, <4>3, <4>4 DEF FileFits
      <4> QED BY <4>2, <4>3, <4>5
    <3> QED BY <3>1, <3>2
  <2> QED BY <2>1, <2>2 DEF FilesFit
<1> QED BY <1>12, <1>13, <1>14 DEF new

(* Those that refer to the document that was saved under another name are  *)
(* told; whoever is told has unsaved changes.                              *)
LEMMA RenamedFits ==
  ASSUME LinksInv, SavedInv, NEW p \in Path, active \in Opened,
         NEW files, OwnPaths(SavedAs(p), Opened, files),
         \E B : FilesFit(SavedAs(p), Opened, files, B),
         NEW old, old = doc[active].path,
         NEW renewed \in Renewals(SavedAs(p), active, old), NEW all,
         Rebound(SavedAs(p), all, Opened, active, old, p, renewed)
  PROVE  FilesOK(all, Opened, files)
<1> DEFINE new == SavedAs(p)
           touched == Touched(new, active, old)
<1>1. /\ new[active].path = p
      /\ \A s \in Opened :
           /\ new[s].kind = doc[s].kind /\ new[s].occs = doc[s].occs
           /\ s # active => new[s].path = doc[s].path
  BY SavedAsIs
<1>2. /\ renewed \subseteq touched
      /\ \A s \in touched \ renewed :
           \E o \in DOMAIN new[s].occs : DOMAIN new[s].occs = {o}
  BY DEF Renewals
<1>3. Rebound(new, all, Opened, active, old, p, renewed)
  OBVIOUS
<1>4. touched \subseteq Opened
      /\ \A s \in Opened \ touched :
           \A o \in DOMAIN new[s].occs :
             ~(new[s].kind = "assembly" /\ Refers(new[s].occs[o], active, old))
  BY DEF Touched
<1>5. PICK B : FilesFit(new, Opened, files, B)
  OBVIOUS
<1> HIDE DEF new
<1>6. ASSUME NEW s \in Opened
      PROVE  /\ all[s].kind = new[s].kind /\ all[s].path = new[s].path
             /\ all[s].shape = new[s].shape
             /\ s \in touched => all[s].dirty
             /\ s \notin touched => all[s].dirty = new[s].dirty
             /\ DOMAIN all[s].occs = DOMAIN new[s].occs
             /\ \A o \in DOMAIN new[s].occs :
                  MovedTo(new[s].occs[o], all[s].occs[o],
                          s \in touched /\ Refers(new[s].occs[o], active, old),
                          active, p, renewed)
  BY <1>3 DEF Rebound
<1> HIDE DEF touched
<1>7. KeptButFor(renewed, new, Opened, files, all, Opened, files)
  <2>1. ASSUME NEW s \in Opened \ renewed
        PROVE  KeptButMoved(new[s], all[s], renewed)
    <3>1. ASSUME NEW o \in DOMAIN new[s].occs, all[s].occs[o].same
          PROVE  /\ new[s].occs[o].same
                 /\ all[s].occs[o].link = new[s].occs[o].link
                 /\ all[s].occs[o].link \notin renewed
      BY <1>6, <3>1 DEF MovedTo
    <3>2. CASE s \in touched
      <4>1. all[s].dirty /\ \E o : DOMAIN new[s].occs = {o}
        BY <1>2, <1>6, <3>2
      <4> QED BY <1>6, <3>1, <4>1 DEF KeptButMoved
    <3>3. CASE s \notin touched
      <4>1. \A o \in DOMAIN new[s].occs :
              all[s].occs[o].path = new[s].occs[o].path
        BY <1>6, <3>3 DEF MovedTo
      <4> QED BY <1>6, <3>1, <3>3, <4>1 DEF KeptButMoved
    <3> QED BY <3>2, <3>3
  <2>2. renewed \subseteq Opened /\ \A s \in renewed : all[s].dirty
    BY <1>2, <1>4, <1>6
  <2> QED BY <2>1, <2>2 DEF KeptButFor
<1>8. \E C : FilesFit(all, Opened, files, C)
  <2>1. FilesFit(all, Opened, files, (B \cap Opened) \cup renewed)
    BY <1>5, <1>7, FitsAfter
  <2> QED BY <2>1
<1>9. OwnPaths(all, Opened, files)
  BY <1>6 DEF OwnPaths, new
<1>10. ASSUME NEW s \in Opened, NEW o \in DOMAIN all[s].occs
       PROVE  NamesSource(all[s].occs[o], all)
  <2> DEFINE was == doc[s].occs[o]
             now == all[s].occs[o]
  <2>1. o \in DOMAIN doc[s].occs /\ new[s].occs[o] = was
    BY <1>1, <1>6
  <2>2. MovedTo(was, now, s \in touched /\ Refers(was, active, old), active, p,
                renewed)
    BY <1>1, <1>6, <2>1
  <2>3. /\ was.link \in Opened \cup {None} /\ NamesSource(was, doc)
        /\ doc[s] \in KeptDocument
    <3> HIDE DEF was
    <3>1. /\ doc[s].occs[o].link \in Opened \cup {None}
          /\ NamesSource(doc[s].occs[o], doc) /\ doc[s] \in KeptDocument
      BY Zenon, <2>1, DocsAre
    <3> QED BY <3>1 DEF was
  <2>4. CASE s \in touched /\ Refers(was, active, old)
    <3>1. now.link = active /\ now.path = p
      BY <2>2, <2>4 DEF MovedTo
    <3>2. all[active].path = p
      BY <1>1, <1>6
    <3> QED BY <3>1, <3>2 DEF NamesSource
  <2>5. CASE ~(s \in touched /\ Refers(was, active, old))
    <3>1. now.link = was.link /\ now.path = was.path
      BY <2>2, <2>5 DEF MovedTo
    <3>2. new[s].kind = "assembly"
      BY <1>1, <2>1, <2>3 DEF KeptDocument, Document
    <3>3. was.link # active
      BY <1>4, <1>6, <2>1, <2>5, <3>2 DEF Refers
    <3>4. was.link # None => all[was.link].path = doc[was.link].path
      BY <1>1, <1>6, <2>3, <3>3
    <3> HIDE DEF was, now
    <3> QED BY <2>3, <3>1, <3>4 DEF NamesSource, now
  <2> QED BY <2>4, <2>5
<1> QED BY <1>8, <1>9, <1>10 DEF FilesOK, ByPath

LEMMA SaveSaved ==
  ASSUME LinksInv, SavedInv, "open" \notin Overwriting, NEW p \in Path, Save(p)
  PROVE  SavedInv'
<1>1. active \in Opened /\ Opened' = Opened /\ LinksInv'
  BY SaveIs, SaveStays
<1>2. /\ OwnPaths(SavedAs(p), Opened, disk') /\ PlainFiles(disk')
      /\ \E B : FilesFit(SavedAs(p), Opened, disk', B)
  BY SaveFits
<1>3. DocsOK(SavedAs(p), Opened)
  BY <1>1, SavedAsIs
<1>4. CASE p = doc[active].path /\ Commit(SavedAs(p))
  <2>1. \A s \in Opened : /\ SavedAs(p)[s].path = doc[s].path
                          /\ SavedAs(p)[s].occs = doc[s].occs
    BY <1>1, <1>4, SavedAsIs
  <2>2. ByPath(SavedAs(p), Opened)
    <3>1. \A s \in Opened : \A o \in DOMAIN doc[s].occs :
            /\ doc[s].occs[o].link \in Opened \cup {None}
            /\ NamesSource(doc[s].occs[o], doc)
      BY Zenon, DocsAre
    <3> QED BY <2>1, <3>1 DEF ByPath, NamesSource
  <2>3. FilesOK(SavedAs(p), Opened, disk')
    BY <1>2, <2>2 DEF FilesOK
  <2> QED BY <1>1, <1>2, <1>3, <1>4, <2>3, CommitSaved
<1>5. CASE \E renewed \in Renewals(SavedAs(p), active, doc[active].path) :
             Commit(Rebind(SavedAs(p), active, doc[active].path, p, renewed))
  <2> DEFINE old == doc[active].path
  <2>1. PICK renewed \in Renewals(SavedAs(p), active, old) :
          Commit(Rebind(SavedAs(p), active, old, p, renewed))
    BY <1>5
  <2> DEFINE all == Rebind(SavedAs(p), active, old, p, renewed)
  <2>2. Rebound(SavedAs(p), all, Opened, active, old, p, renewed)
    <3>1. Opened \in SUBSET Session
      BY Zenon, DocsAre
    <3> QED BY Zenon, <1>1, <1>3, <3>1, RebindIs
  <2>3. Opened \in SUBSET Session
    BY Zenon, DocsAre
  <2> HIDE DEF all
  <2>4. DocsOK(all, Opened)
    BY <1>1, <1>3, <2>2, <2>3, RebindFits
  <2>5. FilesOK(all, Opened, disk')
    BY <1>1, <1>2, <2>1, <2>2, RenamedFits
  <2>6. Commit(all)
    BY <2>1 DEF all
  <2> QED BY <1>1, <1>2, <2>4, <2>5, <2>6, CommitSaved
<1> QED BY <1>4, <1>5, SaveIs

----------------------------------------------------------------------------
(* Closing, and what the files hold.                                       *)

(* The documents that are left when a tab is closed.                       *)
LeavesOf(docs, new) ==
  \A s \in Opened \ {active} :
    /\ new[s].kind = docs[s].kind /\ new[s].path = docs[s].path
    /\ new[s].dirty = docs[s].dirty /\ new[s].shape = docs[s].shape
    /\ DOMAIN new[s].occs = DOMAIN docs[s].occs
    /\ \A o \in DOMAIN docs[s].occs :
         /\ new[s].occs[o].path = docs[s].occs[o].path
         /\ new[s].occs[o].link # active
         /\ \/ new[s].occs[o].link = docs[s].occs[o].link
            \/ new[s].occs[o].link = None
         /\ new[s].occs[o].same => new[s].occs[o] = docs[s].occs[o]

LEMMA LeftByIs ==
  ASSUME None \notin Opened, active \in Opened, NEW docs, DocsOK(docs, Opened)
  PROVE  /\ DocsOK(LeftBy(docs), Opened \ {active})
         /\ LeavesOf(docs, LeftBy(docs))
<1> DEFINE f(s) == [o \in DOMAIN docs[s].occs |-> Dropped(docs[s].occs[o], active)]
           one(s) == [docs[s] EXCEPT !.occs = f(s)]
<1>1. LeftBy(docs) = [s \in Opened \ {active} |-> one(s)]
  BY Zenon DEF LeftBy
<1>2. DocsOK(LeftBy(docs), Opened \ {active})
  <2> DEFINE left == LeftBy(docs)
  <2>1. left = [s \in Opened \ {active} |->
                  [docs[s] EXCEPT !.occs =
                     [o \in DOMAIN docs[s].occs |->
                        Dropped(docs[s].occs[o], active)]]]
    BY DEF LeftBy
  <2> HIDE DEF left
  <2>2. DocsOK(left, Opened \ {active})
    BY <2>1, DroppedOK
  <2> QED BY <2>2 DEF left
<1>3. \A s \in Opened : docs[s] \in Document
  BY DEF DocsOK
<1>4. ASSUME NEW s \in Opened, NEW o \in DOMAIN docs[s].occs
      PROVE  /\ f(s)[o].path = docs[s].occs[o].path
             /\ f(s)[o].link # active
             /\ \/ f(s)[o].link = docs[s].occs[o].link
                \/ f(s)[o].link = None
             /\ f(s)[o].same => f(s)[o] = docs[s].occs[o]
  <2>1. docs[s].occs[o] \in Occurrence
    BY <1>3, DocumentParts
  <2>2. f(s)[o] = Dropped(docs[s].occs[o], active)
    OBVIOUS
  <2> HIDE DEF f
  <2> QED BY <2>1, <2>2, DroppedIs
<1>5. \A s : DOMAIN f(s) = DOMAIN docs[s].occs
  OBVIOUS
<1> HIDE DEF f
<1>6. ASSUME NEW s \in Opened
      PROVE  /\ one(s).kind = docs[s].kind /\ one(s).path = docs[s].path
             /\ one(s).dirty = docs[s].dirty /\ one(s).shape = docs[s].shape
             /\ one(s).occs = f(s)
  BY <1>3 DEF Document
<1> HIDE DEF one
<1>7. \A s \in Opened \ {active} : LeftBy(docs)[s] = one(s)
  BY <1>1
<1>8. LeavesOf(docs, LeftBy(docs))
  <2> DEFINE new == LeftBy(docs)
  <2> SUFFICES ASSUME NEW s \in Opened \ {active}
               PROVE  /\ new[s].kind = docs[s].kind
                      /\ new[s].path = docs[s].path
                      /\ new[s].dirty = docs[s].dirty
                      /\ new[s].shape = docs[s].shape
                      /\ DOMAIN new[s].occs = DOMAIN docs[s].occs
                      /\ \A o \in DOMAIN docs[s].occs :
                           /\ new[s].occs[o].path = docs[s].occs[o].path
                           /\ new[s].occs[o].link # active
                           /\ \/ new[s].occs[o].link = docs[s].occs[o].link
                              \/ new[s].occs[o].link = None
                           /\ new[s].occs[o].same =>
                                new[s].occs[o] = docs[s].occs[o]
    BY DEF LeavesOf
  <2>1. new[s] = one(s) /\ new[s].occs = f(s)
    BY <1>6, <1>7
  <2> HIDE DEF new
  <2> QED BY <1>4, <1>5, <1>6, <2>1
<1> QED BY <1>2, <1>8

(* A tab is closed when the documents are docs; those of X have new        *)
(* objects.                                                                *)
Closing(docs, X) ==
  /\ active \in Opened /\ DocsOK(docs, Opened) /\ CloseTab(docs)
  /\ disk' \in Disk /\ PlainFiles(disk')
  /\ X \subseteq Opened \ {active} /\ \A s \in X : docs[s].dirty
  /\ \A s \in Opened \ {active} :
       /\ docs[s].path = doc[s].path
       /\ doc[s].path # None => disk'[doc[s].path] = disk[doc[s].path]
       /\ \A o \in DOMAIN docs[s].occs : NamesSource(docs[s].occs[o], doc)
       /\ s \notin X => KeptButMoved(doc[s], docs[s], X)

LEMMA ClosingSaved ==
  ASSUME LinksInv, SavedInv, NEW docs, NEW X, Closing(docs, X)
  PROVE  SavedInv'
<1> DEFINE S == Opened \ {active}
           new == LeftBy(docs)
<1>1. /\ active \in Opened /\ DocsOK(docs, Opened) /\ CloseTab(docs)
      /\ disk' \in Disk /\ PlainFiles(disk')
      /\ X \subseteq S /\ \A s \in X : docs[s].dirty
      /\ \A s \in S :
           /\ docs[s].path = doc[s].path
           /\ doc[s].path # None => disk'[doc[s].path] = disk[doc[s].path]
           /\ \A o \in DOMAIN docs[s].occs : NamesSource(docs[s].occs[o], doc)
           /\ s \notin X => KeptButMoved(doc[s], docs[s], X)
  BY DEF Closing
<1>2. None \notin Opened /\ FilesOK(doc, Opened, disk)
  BY Zenon, DocsAre
<1>3. LinksInv' /\ Opened' = S
  BY <1>1, <1>2, CloseTabIs, CloseTabStays
<1>4. DocsOK(new, S) /\ LeavesOf(docs, new)
  BY <1>1, <1>2, LeftByIs
<1>5. Commit(new)
  BY Zenon, <1>1 DEF CloseTab, Dropped, LeftBy
<1> HIDE DEF new
<1>6. ASSUME NEW s \in S
      PROVE  /\ new[s].kind = docs[s].kind /\ new[s].path = docs[s].path
             /\ new[s].dirty = docs[s].dirty /\ new[s].shape = docs[s].shape
             /\ DOMAIN new[s].occs = DOMAIN docs[s].occs
             /\ \A o \in DOMAIN docs[s].occs :
                  /\ new[s].occs[o].path = docs[s].occs[o].path
                  /\ new[s].occs[o].link # active
                  /\ \/ new[s].occs[o].link = docs[s].occs[o].link
                     \/ new[s].occs[o].link = None
                  /\ new[s].occs[o].same => new[s].occs[o] = docs[s].occs[o]
  BY <1>4 DEF LeavesOf
<1>7. ASSUME NEW s \in S \ X
      PROVE  KeptButMoved(doc[s], new[s], X)
  <2>1. KeptButMoved(doc[s], docs[s], X)
    BY <1>1
  <2>2. /\ new[s].kind = docs[s].kind /\ new[s].path = docs[s].path
        /\ new[s].dirty = docs[s].dirty /\ new[s].shape = docs[s].shape
        /\ DOMAIN new[s].occs = DOMAIN docs[s].occs
    BY <1>6
  <2>3. \A o \in DOMAIN docs[s].occs :
          /\ new[s].occs[o].path = docs[s].occs[o].path
          /\ new[s].occs[o].same => new[s].occs[o] = docs[s].occs[o]
    BY <1>6
  <2> QED BY <2>1, <2>2, <2>3 DEF KeptButMoved
<1>8. KeptButFor(X, doc, Opened, disk, new, S, disk')
  BY <1>1, <1>6, <1>7 DEF KeptButFor
<1>9. ByPath(new, S)
  <2> SUFFICES ASSUME NEW s \in S, NEW o \in DOMAIN new[s].occs,
                      new[s].occs[o].link # None
               PROVE  new[s].occs[o].path = new[new[s].occs[o].link].path
    BY DEF ByPath, NamesSource
  <2> DEFINE l == new[s].occs[o].link
  <2>1. /\ new[s].occs[o].path = docs[s].occs[o].path
        /\ l = docs[s].occs[o].link /\ l # active
        /\ o \in DOMAIN docs[s].occs
    BY <1>6
  <2>2. l \in S
    BY <1>4 DEF DocsOK, DocFits
  <2>3. docs[s].occs[o].path = doc[l].path
    BY <1>1, <2>1 DEF NamesSource
  <2>4. new[l].path = doc[l].path
    BY <1>1, <1>6, <2>2
  <2> QED BY <2>1, <2>3, <2>4
<1>10. \A s \in S :
         /\ new[s].path = doc[s].path
         /\ doc[s].path # None => disk'[doc[s].path] = disk[doc[s].path]
  BY <1>1, <1>6
<1> HIDE DEF S
<1>11. FilesOK(new, S, disk')
  BY <1>2, <1>8, <1>9, <1>10, StepFits
<1> QED BY <1>1, <1>3, <1>4, <1>5, <1>11, CommitSaved

(* Nothing changes but that the tab goes away, and its file.               *)
LEMMA PlainClosingSaved ==
  ASSUME LinksInv, SavedInv, CloseSaving \/ CloseUnchanged \/ DeleteFile
  PROVE  SavedInv'
<1> DEFINE p == doc[active].path
<1>1. /\ active \in Opened /\ CloseTab(doc)
  BY DEF CloseSaving, CloseUnchanged, DeleteFile, LinksInv
<1>2. /\ DocsOK(doc, Opened) /\ disk \in Disk /\ PlainFiles(disk)
      /\ OwnPaths(doc, Opened, disk)
      /\ \A s \in Opened :
           /\ doc[s] \in KeptDocument /\ doc[s].path \in Path \cup {None}
           /\ \A o \in DOMAIN doc[s].occs : NamesSource(doc[s].occs[o], doc)
  BY Zenon, DocsAre
<1>3. \/ UNCHANGED disk
      \/ p # None /\ disk' = [disk EXCEPT ![p] = FileOf(doc[active])]
      \/ p # None /\ disk' = [disk EXCEPT ![p] = None]
  BY DEF CloseSaving, CloseUnchanged, DeleteFile
<1>4. p \in Path \cup {None}
  BY <1>1, <1>2
<1> HIDE DEF p
<1>5. /\ FileOf(doc[active]) \in Written
      /\ FileOf(doc[active]).kind = "assembly" => FileOf(doc[active]).shape = {}
  BY <1>1, <1>2, FileOfFits
<1>6. disk' \in Disk
  BY <1>2, <1>3, <1>5 DEF Disk
<1>7. \A q \in Path : q # p => disk'[q] = disk[q]
  BY <1>2, <1>3 DEF Disk
<1>8. PlainFiles(disk')
  <2>1. disk'[p] = disk[p] \/ disk'[p] = FileOf(doc[active]) \/ disk'[p] = None
    BY <1>2, <1>3, <1>4 DEF Disk
  <2> QED BY <1>2, <1>5, <1>7, <2>1 DEF PlainFiles
<1>9. ASSUME NEW s \in Opened \ {active}, doc[s].path # None
      PROVE  disk'[doc[s].path] = disk[doc[s].path]
  <2>1. doc[s].path # p /\ doc[s].path \in Path
    BY <1>1, <1>2, <1>9 DEF OwnPaths, p
  <2> QED BY <1>7, <2>1
<1>10. \A s : KeptButMoved(doc[s], doc[s], {})
  BY DEF KeptButMoved
<1>11. Closing(doc, {})
  BY <1>1, <1>2, <1>6, <1>8, <1>9, <1>10 DEF Closing
<1> QED BY <1>11, ClosingSaved

(* An assembly that goes back to the file of the active document has       *)
(* unsaved changes, and the links it keeps.                                *)
LEMMA BackIs ==
  ASSUME LinksInv, NEW s \in Opened
  PROVE  /\ Back(s).path = doc[s].path
         /\ Back(s) # doc[s] => Back(s).dirty
         /\ DOMAIN Back(s).occs = DOMAIN doc[s].occs
         /\ \A o \in DOMAIN doc[s].occs :
              /\ Back(s).occs[o].path = doc[s].occs[o].path
              /\ \/ Back(s).occs[o].link = doc[s].occs[o].link
                 \/ Back(s).occs[o].link = None
<1> DEFINE d == doc[s]
           back == {o \in DOMAIN d.occs : Refers(d.occs[o], active, doc[active].path)}
           shape == FromFile(doc[active].path).shape
           at(o) == [d.occs[o] EXCEPT !.link = None, !.same = FALSE,
                                      !.shape = shape]
           f == [o \in DOMAIN d.occs |->
                   IF o \in back THEN at(o) ELSE d.occs[o]]
           r == [d EXCEPT !.occs = f, !.shape = Compose(f)]
<1>1. \/ Back(s) = d
      \/ Back(s) = [Rebuilt(d, f) EXCEPT !.dirty = TRUE]
  BY Zenon DEF Back, BackToDisk
<1>2. d \in Document /\ \A o \in DOMAIN d.occs : d.occs[o] \in Occurrence
  <2>1. d \in Document
    BY DEF LinksInv, DocsOK
  <2> QED BY <2>1, DocumentParts
<1>3. Rebuilt(d, f) = r
  BY Zenon DEF Rebuilt
<1> HIDE DEF back, shape, d
<1>4. \A o \in DOMAIN d.occs : at(o).path = d.occs[o].path /\ at(o).link = None
  BY <1>2 DEF Occurrence
<1> HIDE DEF at
<1>5. /\ DOMAIN f = DOMAIN d.occs
      /\ \A o \in DOMAIN d.occs :
           /\ f[o].path = d.occs[o].path
           /\ f[o].link = d.occs[o].link \/ f[o].link = None
  BY <1>4
<1> HIDE DEF f
<1>6. /\ [r EXCEPT !.dirty = TRUE].path = d.path
      /\ [r EXCEPT !.dirty = TRUE].dirty
      /\ [r EXCEPT !.dirty = TRUE].occs = f
  BY <1>2 DEF Document
<1> HIDE DEF r
<1>7. CASE Back(s) = d
  BY <1>7 DEF d
<1>8. CASE Back(s) = [r EXCEPT !.dirty = TRUE]
  BY <1>5, <1>6, <1>8 DEF d
<1> QED BY <1>1, <1>3, <1>7, <1>8

(* The assemblies that showed the discarded work have new objects.         *)
LEMMA CloseDiscardingSaved ==
  ASSUME LinksInv, SavedInv, CloseDiscarding
  PROVE  SavedInv'
<1> DEFINE touched == {s \in Opened : Back(s) # doc[s]}
           X == touched \ {active}
           new == Discarded
<1>1. /\ active # None /\ disk' = disk /\ CloseTab(new) /\ DocsOK(new, Opened)
      /\ \A s \in Opened : Back(s) \in Document
  BY DiscardedIs
<1>2. /\ disk \in Disk /\ PlainFiles(disk) /\ active \in Opened
      /\ \A s \in Opened :
           \A o \in DOMAIN doc[s].occs : NamesSource(doc[s].occs[o], doc)
  <2>1. active \in Opened
    BY <1>1 DEF LinksInv
  <2> QED BY Zenon, <2>1, DocsAre
<1>3. ASSUME NEW s \in Opened
      PROVE  /\ new[s].kind = Back(s).kind /\ new[s].path = Back(s).path
             /\ new[s].dirty = Back(s).dirty /\ new[s].shape = Back(s).shape
             /\ DOMAIN new[s].occs = DOMAIN Back(s).occs
             /\ \A o \in DOMAIN Back(s).occs :
                  /\ new[s].occs[o].path = Back(s).occs[o].path
                  /\ new[s].occs[o].link = Back(s).occs[o].link
                  /\ new[s].occs[o].same <=>
                       Back(s).occs[o].same /\ Back(s).occs[o].link \notin touched
  <2> DEFINE d == Back(s)
             n == [d EXCEPT !.occs = Parted(@, touched)]
  <2>1. new[s] = n
    BY DEF Discarded
  <2>2. d \in Document
    BY <1>1
  <2> HIDE DEF d, touched, new
  <2>3. /\ n.kind = d.kind /\ n.path = d.path
        /\ n.dirty = d.dirty /\ n.shape = d.shape /\ n.occs = Parted(d.occs, touched)
    BY <2>2, PartedFits
  <2>4. d.occs \in Occurrences
    BY <2>2, DocumentParts
  <2> HIDE DEF n
  <2> QED BY <2>1, <2>3, <2>4, PartedIs DEF d
<1> HIDE DEF new
<1>4. ASSUME NEW s \in Opened
      PROVE  /\ new[s].path = doc[s].path /\ (s \in touched => new[s].dirty)
             /\ \A o \in DOMAIN new[s].occs : NamesSource(new[s].occs[o], doc)
  <2>1. /\ Back(s).path = doc[s].path
        /\ Back(s) # doc[s] => Back(s).dirty
        /\ DOMAIN Back(s).occs = DOMAIN doc[s].occs
        /\ \A o \in DOMAIN doc[s].occs :
             /\ Back(s).occs[o].path = doc[s].occs[o].path
             /\ \/ Back(s).occs[o].link = doc[s].occs[o].link
                \/ Back(s).occs[o].link = None
    BY BackIs
  <2>2. \A o \in DOMAIN new[s].occs : NamesSource(new[s].occs[o], doc)
    BY <1>2, <1>3, <2>1 DEF NamesSource
  <2> QED BY <1>3, <2>1, <2>2
<1>5. ASSUME NEW s \in Opened, s \notin touched
      PROVE  KeptButMoved(doc[s], new[s], X)
  <2>1. Back(s) = doc[s]
    BY <1>5
  <2> QED BY <1>3, <2>1 DEF KeptButMoved
<1>6. X \subseteq Opened \ {active} /\ (\A s \in X : s \in touched)
  OBVIOUS
<1>7. \A s \in Opened \ {active} : s \notin X => s \notin touched
  OBVIOUS
<1> HIDE DEF touched, X
<1>8. Closing(new, X)
  BY <1>1, <1>2, <1>4, <1>5, <1>6, <1>7 DEF Closing
<1> QED BY <1>8, ClosingSaved

----------------------------------------------------------------------------
(* The specification, and what the files hold.                             *)

LEMMA InitSaved == ASSUME Init PROVE SavedInv
<1>1. /\ Opened = {} /\ doc = <<>> /\ disk = [p \in Path |-> None] /\ ~rolled
      /\ tabs = <<>>
  BY DEF Init, Opened, Range
<1>2. FilesFit(doc, Opened, disk, {})
  BY <1>1 DEF FilesFit
<1>3. FilesOK(doc, Opened, disk)
  BY <1>1, <1>2 DEF FilesOK, OwnPaths, ByPath
<1>4. PlainFiles(disk)
  BY <1>1 DEF PlainFiles
<1>5. FollowsIn(doc, tabs)
  <2>1. Range(tabs) = {}
    BY <1>1 DEF Opened
  <2>2. \A T : AcyclicIn(doc, tabs, T) => T = {}
    BY <2>1 DEF AcyclicIn
  <2> QED BY <2>2 DEF FollowsIn
<1> QED BY <1>1, <1>3, <1>4, <1>5 DEF SavedInv

LEMMA PlainNextSaved ==
  ASSUME "open" \notin Overwriting, LinksInv, SavedInv, PlainNext
  PROVE  SavedInv'
<1>1. ASSUME NEW s \in Session, NEW kind \in {"part", "assembly"},
             NewDocument(s, kind)
      PROVE  SavedInv'
  BY <1>1, NewDocumentSaved
<1>2. ASSUME NEW s \in Session, NEW p \in Path, LoadDocument(s, p)
      PROVE  SavedInv'
  BY <1>2, LoadDocumentSaved
<1>3. ASSUME NEW s \in Session, ActivateDocument(s) PROVE SavedInv'
  BY <1>3, ActivateDocumentSaved
<1>4. ASSUME NEW v \in Version, EditPart(v) PROVE SavedInv'
  BY <1>4, EditPartIs, EditingSaved
<1>5. ASSUME NEW o \in Name, NEW p \in Path, Place(o, p) PROVE SavedInv'
  BY <1>5, PlaceIs, EditingSaved, ReshowingSaved
<1>6. ASSUME NEW o \in Name, NEW p \in Path, Replace(o, p) PROVE SavedInv'
  BY <1>6, ReplaceIs, EditingSaved
<1>7. ASSUME NEW o \in Name, DeleteOccurrence(o) PROVE SavedInv'
  BY <1>7, DeleteOccurrenceIs, EditingSaved
<1>8. ASSUME NEW p \in Path, Save(p) PROVE SavedInv'
  BY <1>8, SaveSaved
<1>9. CASE SaveStops \/ SaveAllStops
  BY <1>9, SavingStopsSaved
<1>10. CASE SaveAll \/ ExecuteSaveAll
  BY <1>10, SaveAllSaved
<1>11. CASE CloseSaving \/ CloseUnchanged \/ DeleteFile
  BY <1>11, PlainClosingSaved
<1>12. CASE CloseDiscarding
  BY <1>12, CloseDiscardingSaved
<1> QED BY <1>1, <1>2, <1>3, <1>4, <1>5, <1>6, <1>7, <1>8, <1>9, <1>10,
           <1>11, <1>12 DEF PlainNext

LEMMA UnchangedSaved == ASSUME SavedInv, UNCHANGED vars PROVE SavedInv'
<1>1. tabs' = tabs /\ doc' = doc /\ disk' = disk /\ rolled' = rolled
  BY DEF vars
<1>2. Opened' = Opened
  BY <1>1 DEF Opened
<1> QED BY <1>1, <1>2 DEF SavedInv

(* LinksInv and SavedInv hold while no document is saved over that of      *)
(* another tab, nothing is undone and no command raises but in a save.     *)
LEMMA PlainInv ==
  ASSUME "open" \notin Overwriting
  PROVE  PlainSpec => [](LinksInv /\ SavedInv)
<1>1. Init => LinksInv /\ SavedInv
  BY InitLinks, InitSaved
<1>2. LinksInv /\ SavedInv /\ [PlainNext]_vars => (LinksInv /\ SavedInv)'
  <2>1. PlainNext => Next
    BY DEF Next
  <2> QED BY <2>1, NextLinks, UnchangedLinks, PlainNextSaved, UnchangedSaved
<1> QED BY <1>1, <1>2, PTL DEF PlainSpec

(* A document without unsaved changes reads back from its file as it is    *)
(* shown: load clears the flag (document.py:2202), save_document clears it *)
(* after what the document depends on (engine.py:244-254), and every other *)
(* command that changes what it shows sets it. It holds as long as no      *)
(* document is saved over the file of another tab, no command raises but   *)
(* in a save, and nothing is undone.                                       *)
THEOREM CleanIsAlwaysSaved ==
  ASSUME "open" \notin Overwriting
  PROVE  PlainSpec => []CleanIsSaved
  BY PlainInv, SavedInvClean, PTL

----------------------------------------------------------------------------
(* What was saved stays clean.                                             *)

(* Nothing is stale in the tabs of T, and they show nothing else.          *)
Quiet(docs, order, T) ==
  ShowsIn(docs, order, T) /\ \A t \in T : Stale(docs, order, t) = {}

Settling(docs, new, order, T) ==
  Quiet(new, order, T) /\ \A t \in T : new[t].dirty = docs[t].dirty

LEMMA OfSame ==
  ASSUME NEW order, NEW docs, NEW docs2,
         \A s \in Range(order) : docs2[s].path = docs[s].path, NEW y, NEW o,
         docs2[y].occs[o].path = docs[y].occs[o].path,
         docs2[y].occs[o].link = docs[y].occs[o].link
  PROVE  Of(docs2, order, y, o) = Of(docs, order, y, o)
<1> DEFINE new == docs2[y].occs[o]
           old == docs[y].occs[o]
<1> HIDE DEF new, old
<1>1. new.path = old.path /\ new.link = old.link
  BY DEF new, old
<1>2. Source(docs2, order, new) = Source(docs, order, old)
  <2>1. \A i \in DOMAIN order : order[i] \in Range(order)
    BY DEF Range
  <2>2. Showing(docs2, order, new.path) = Showing(docs, order, old.path)
    BY <1>1, <2>1 DEF Showing
  <2> QED BY <1>1, <2>2 DEF Source
<1> QED BY <1>2 DEF Of, new, old

(* What is quiet stays as it is.                                           *)
LEMMA SyncOneQuiet ==
  ASSUME NEW S \in SUBSET Session, NEW order \in Seq(S), Range(order) = S,
         NEW ds, DocsOK(ds, S), NEW x \in S, NEW T \in SUBSET S,
         Quiet(ds, order, T)
  PROVE  Settling(ds, SyncOne(ds, order, x), order, T)
<1> DEFINE new == SyncOne(ds, order, x)
<1>1. FollowedBy(ds, new, order, S, x)
  BY SyncOneFollows
<1>2. CASE Stale(ds, order, x) = {}
  <2>1. new = ds
    BY <1>1, <1>2 DEF FollowedBy
  <2> QED BY <2>1 DEF Settling
<1>3. CASE Stale(ds, order, x) # {}
  <2>1. x \notin T /\ x # None
    BY <1>3, LinksAssumption DEF Quiet
  <2>2. PICK d \in Document : new = Put(ds, x, d)
    BY <1>3, SyncOneIs
  <2>3. ds \in [S -> Document]
    BY DEF DocsOK
  <2>4. ShownBy(ds, new, S, x, d)
    <3>1. ShownBy(ds, Put(ds, x, d), S, x, d)
      BY <2>3, PutIs
    <3> QED BY <2>2, <3>1
  <2> HIDE DEF new
  <2>5. \A s \in Range(order) : new[s].path = ds[s].path
    BY <1>1, <2>3 DEF FollowedBy, KeepsLinks
  <2>6. ASSUME NEW t \in T, NEW o \in DOMAIN new[t].occs
        PROVE  Of(new, order, t, o) = Of(ds, order, t, o) /\ o \in DOMAIN ds[t].occs
    <3>1. new[t].occs = Parted(ds[t].occs, {x}) /\ ds[t].occs \in Occurrences
      BY <2>1, <2>3, <2>4, DocumentParts DEF ShownBy
    <3>2. /\ o \in DOMAIN ds[t].occs
          /\ new[t].occs[o].path = ds[t].occs[o].path
          /\ new[t].occs[o].link = ds[t].occs[o].link
      BY <3>1, PartedIs
    <3>3. Of(new, order, t, o) = Of(ds, order, t, o)
      <4>1. /\ new[t].occs[o].path = ds[t].occs[o].path
            /\ new[t].occs[o].link = ds[t].occs[o].link
        BY <3>2
      <4> QED BY <2>5, <4>1, OfSame
    <3> QED BY <3>2, <3>3
  <2>7. ShowsIn(new, order, T)
    BY <2>6 DEF Quiet, ShowsIn
  <2>8. ASSUME NEW t \in T, NEW o \in Stale(new, order, t) PROVE FALSE
    <3>1. t \in S \ {x}
      BY <2>1
    <3>2. o \in Stale(ds, order, t) \/ Of(ds, order, t, o) = x
      BY <1>1, <3>1 DEF FollowedBy
    <3>3. Of(ds, order, t, o) \in T \cup {None}
      BY <2>6, StaleIs DEF Quiet, ShowsIn
    <3> QED BY <2>1, <3>2, <3>3 DEF Quiet
  <2>9. \A t \in T : new[t].dirty = ds[t].dirty
    BY <2>1, <2>4 DEF ShownBy
  <2> QED BY <2>7, <2>8, <2>9 DEF Settling, Quiet, new
<1> QED BY <1>2, <1>3

LEMMA PassQuiet ==
  ASSUME NEW S \in SUBSET Session, NEW order \in Seq(S), Range(order) = S,
         NEW docs, DocsOK(docs, S), NEW T \in SUBSET S, Quiet(docs, order, T)
  PROVE  Settling(docs, Pass(docs, order), order, T)
<1> DEFINE n == Len(order)
<1>1. PICK a : PassSteps(docs, order, S, a)
  BY PassRuns
<1>2. /\ n \in Nat /\ a[0] = docs /\ Pass(docs, order) = a[n]
      /\ \A i \in 0..n : DocsOK(a[i], S)
      /\ \A i \in 1..n : a[i] = SyncOne(a[i - 1], order, order[i])
      /\ \A i \in 1..n : order[i] \in S
  BY <1>1 DEF PassSteps
<1> HIDE DEF n
<1> DEFINE I == {i \in 0..n : Settling(docs, a[i], order, T)}
<1>3. 0 \in I
  BY <1>2 DEF Settling
<1>4. ASSUME NEW i \in 1..n, i - 1 \in I PROVE i \in I
  <2>1. i \in 0..n /\ DocsOK(a[i - 1], S) /\ Settling(docs, a[i - 1], order, T)
    BY <1>2, <1>4
  <2>2. Quiet(a[i - 1], order, T)
    BY <2>1 DEF Settling
  <2>3. Settling(a[i - 1], SyncOne(a[i - 1], order, order[i]), order, T)
    BY <1>2, <2>1, <2>2, SyncOneQuiet
  <2>4. Settling(a[i - 1], a[i], order, T)
    BY <1>2, <2>3
  <2>5. Settling(docs, a[i], order, T)
    BY <2>1, <2>4 DEF Settling
  <2> QED BY <2>1, <2>5
<1>5. 0..n \subseteq I
  <2> HIDE DEF I
  <2> QED BY <1>2, <1>3, <1>4, InductionTo
<1> QED BY <1>2, <1>5

LEMMA SyncQuiet ==
  ASSUME NEW order \in Seq(Session), NEW docs, DocsOK(docs, Range(order)),
         NEW T \in SUBSET Range(order), Quiet(docs, order, T)
  PROVE  Settling(docs, Sync(docs, order), order, T)
<1> DEFINE n == Len(order) + 1
           S == Range(order)
<1>1. S \in SUBSET Session /\ order \in Seq(S) /\ Range(order) = S
  BY OpenedIs
<1>2. DocsOK(docs, S) /\ T \in SUBSET S
  OBVIOUS
<1> HIDE DEF S
<1>3. PICK b : Syncing(docs, order, S, b)
  BY <1>1, <1>2, SyncRuns
<1>4. /\ n \in Nat /\ b[0] = docs /\ Sync(docs, order) = b[n]
      /\ \A i \in 0..n : DocsOK(b[i], S)
      /\ \A i \in 1..n : b[i] = Pass(b[i - 1], order)
  BY <1>3 DEF Syncing
<1> HIDE DEF n
<1> DEFINE I == {i \in 0..n : Settling(docs, b[i], order, T)}
<1>5. 0 \in I
  BY <1>4 DEF Settling
<1>6. ASSUME NEW i \in 1..n, i - 1 \in I PROVE i \in I
  <2>1. i \in 0..n /\ DocsOK(b[i - 1], S) /\ Settling(docs, b[i - 1], order, T)
    BY <1>4, <1>6
  <2>2. Quiet(b[i - 1], order, T)
    BY <2>1 DEF Settling
  <2>3. Settling(b[i - 1], Pass(b[i - 1], order), order, T)
    BY <1>1, <1>2, <2>1, <2>2, PassQuiet
  <2>4. Settling(b[i - 1], b[i], order, T)
    BY <1>4, <2>3
  <2>5. Settling(docs, b[i], order, T)
    BY <2>1, <2>4 DEF Settling
  <2> QED BY <2>1, <2>5
<1>7. 0..n \subseteq I
  <2> HIDE DEF I
  <2> QED BY <1>4, <1>5, <1>6, InductionTo
<1> QED BY <1>4, <1>7

(* An occurrence without a link shows the only tab that has its path.      *)
LEMMA OnlySource ==
  ASSUME NEW A, NEW order \in Seq(A), NEW docs, NEW occ, occ.link = None,
         NEW u \in Range(order), docs[u].path = occ.path,
         \A s \in Range(order) : docs[s].path = occ.path => s = u
  PROVE  Source(docs, order, occ) = u
<1> DEFINE showing == Showing(docs, order, occ.path)
<1>1. showing # {}
  <2>1. PICK i \in DOMAIN order : order[i] = u
    BY DEF Range
  <2>2. i \in showing
    BY <2>1 DEF Showing
  <2> QED BY <2>2
<1>2. /\ order[Max(showing)] \in Range(order)
      /\ docs[order[Max(showing)]].path = occ.path
  BY <1>1, ShowingIs
<1>3. order[Max(showing)] = u
  BY <1>2
<1>4. Source(docs, order, occ) = order[Max(showing)]
  <2> HIDE DEF showing
  <2>1. Source(docs, order, occ) = IF occ.link # None THEN occ.link
          ELSE IF showing = {} THEN None ELSE order[Max(showing)]
    BY Zenon DEF Source, showing
  <2> QED BY <1>1, <2>1
<1> QED BY <1>3, <1>4

(* With fewer links less is below.                                         *)
LEMMA FewerBelow ==
  ASSUME NEW A, NEW order \in Seq(A), NEW docs, LinksIn(docs, Range(order)),
         NEW new, LinksIn(new, Range(order)), NEW T, AcyclicIn(new, order, T),
         \A t \in T : LinkedFrom(docs, {t}) \subseteq LinkedFrom(new, {t})
  PROVE  AcyclicIn(docs, order, T)
<1>1. /\ T \subseteq Range(order) /\ LinkedFrom(new, T) \subseteq T
      /\ \A t \in T : t \notin Below(new, order, t)
  BY DEF AcyclicIn
<1>2. ASSUME NEW X \in SUBSET T PROVE LinkedFrom(docs, X) \subseteq LinkedFrom(new, X)
  <2> SUFFICES ASSUME NEW y \in LinkedFrom(docs, X)
               PROVE  y \in LinkedFrom(new, X)
    OBVIOUS
  <2>1. PICK t \in X : y # None /\ \E o \in DOMAIN docs[t].occs :
                                     docs[t].occs[o].link = y
    BY LinkedFromIs
  <2>2. y \in LinkedFrom(docs, {t})
    BY <2>1, LinkedFromIs
  <2>3. y \in LinkedFrom(new, {t})
    BY <2>2
  <2> QED BY <2>3, LinkedFromIs
<1>3. ASSUME NEW t \in T PROVE t \notin Below(docs, order, t)
  <2> DEFINE X == Below(new, order, t) \cap T
  <2>1. /\ Below(new, order, t) \subseteq Range(order)
        /\ LinkedFrom(new, {t}) \subseteq Below(new, order, t)
        /\ LinkedFrom(new, Below(new, order, t)) \subseteq Below(new, order, t)
    BY <1>1, BelowIsLeast DEF Closed
  <2>2. LinkedFrom(new, {t}) \subseteq T
    BY <1>1, LinkedFromIs
  <2>3. LinkedFrom(new, X) \subseteq Below(new, order, t)
        /\ LinkedFrom(new, X) \subseteq T
    BY <1>1, <2>1, LinkedFromIs
  <2>4. X \in SUBSET T /\ {t} \in SUBSET T
    OBVIOUS
  <2>5. LinkedFrom(docs, {t}) \subseteq X /\ LinkedFrom(docs, X) \subseteq X
    BY <1>2, <2>1, <2>2, <2>3, <2>4
  <2>6. X \in SUBSET Range(order)
    BY <2>1
  <2> HIDE DEF X
  <2>7. Below(docs, order, t) \subseteq X
    BY <1>1, <2>5, <2>6, BelowIsLeast DEF Closed
  <2> QED BY <1>1, <2>7 DEF X
<1> QED BY <1>1, <1>2, <1>3 DEF AcyclicIn

(* What is below the active document was not told of its new name: docs    *)
(* are the documents before they follow.                                   *)
SavedThen(docs, p, T) ==
  /\ DocsOK(docs, Opened) /\ doc' = Sync(docs, tabs)
  /\ \A s \in Opened :
       /\ docs[s].shape = doc[s].shape
       /\ s # active => docs[s].path = doc[s].path
  /\ ~docs[active].dirty /\ docs[active].path = p
  /\ \A t \in T :
       /\ DOMAIN docs[t].occs = DOMAIN doc[t].occs
       /\ \A o \in DOMAIN doc[t].occs :
            /\ docs[t].occs[o].path = doc[t].occs[o].path
            /\ docs[t].occs[o].link = doc[t].occs[o].link
            /\ docs[t].occs[o].same <=> doc[t].occs[o].same

LEMMA SaveThen ==
  ASSUME LinksInv, NEW p \in Path, Save(p), NEW T, T \subseteq Opened,
         LinkedFrom(doc', T) \subseteq T, active \notin LinkedFrom(doc', T),
         active \in T
  PROVE  \E docs : SavedThen(docs, p, T)
<1> DEFINE old == doc[active].path
           new == SavedAs(p)
<1>1. /\ active \in Opened /\ tabs' = tabs /\ tabs \in Seq(Session)
      /\ Opened = Range(tabs) /\ Opened \in SUBSET Session /\ None \notin Opened
  BY SaveIs, OpenedIs, LinksAssumption DEF LinksInv, Opened
<1>2. /\ DocsOK(new, Opened)
      /\ \A s \in Opened :
           /\ new[s].shape = doc[s].shape /\ new[s].kind = doc[s].kind
           /\ new[s].occs = doc[s].occs
           /\ s # active => new[s].path = doc[s].path
      /\ ~new[active].dirty /\ new[active].path = p
  BY <1>1, SavedAsIs
<1>3. CASE Commit(new)
  <2>1. doc' = Sync(new, tabs)
    BY <1>1, <1>3 DEF Commit
  <2> HIDE DEF new
  <2>2. SavedThen(new, p, T)
    BY <1>2, <2>1 DEF SavedThen
  <2> QED BY <2>2
<1>4. CASE \E renewed \in Renewals(new, active, old) :
             Commit(Rebind(new, active, old, p, renewed))
  <2>1. PICK renewed \in Renewals(new, active, old) :
          Commit(Rebind(new, active, old, p, renewed))
    BY <1>4
  <2> DEFINE all == Rebind(new, active, old, p, renewed)
             touched == Touched(new, active, old)
  <2> HIDE DEF new
  <2>2. Rebound(new, all, Opened, active, old, p, renewed)
    BY Zenon, <1>1, <1>2, RebindIs
  <2>3. doc' = Sync(all, tabs)
    BY <1>1, <2>1 DEF Commit
  <2> HIDE DEF all
  <2>4. DocsOK(all, Opened)
    BY <1>1, <1>2, <2>2, RebindFits
  <2>5. KeepsLinks(all, doc') /\ DOMAIN all = Opened
    BY <1>1, <2>3, <2>4, FollowedIs DEF DocsOK
  <2>6. renewed \subseteq touched
        /\ \A s \in touched : \E o \in DOMAIN new[s].occs :
             Refers(new[s].occs[o], active, old)
    BY DEF Renewals, Touched
  <2>7. ASSUME NEW t \in T, NEW o \in DOMAIN new[t].occs
        PROVE  /\ o \in DOMAIN all[t].occs
               /\ MovedTo(new[t].occs[o], all[t].occs[o],
                          t \in touched /\ Refers(new[t].occs[o], active, old),
                          active, p, renewed)
    BY <2>2 DEF Rebound
  <2>8. ASSUME NEW t \in T, NEW o \in DOMAIN new[t].occs,
               all[t].occs[o].link # None
        PROVE  all[t].occs[o].link \in LinkedFrom(doc', T)
    <3>1. /\ o \in DOMAIN doc'[t].occs
          /\ doc'[t].occs[o].link = all[t].occs[o].link
      BY <2>5, <2>7, <2>8 DEF KeepsLinks, KeepsOcc
    <3> QED BY <2>8, <3>1, LinkedFromIs
  <2>9. ASSUME NEW t \in T PROVE t \notin touched
    <3>1. SUFFICES ASSUME t \in touched PROVE FALSE
      OBVIOUS
    <3>2. PICK o \in DOMAIN new[t].occs : Refers(new[t].occs[o], active, old)
      BY <2>6, <3>1
    <3>3. all[t].occs[o].link = active
      BY <2>7, <3>1, <3>2 DEF MovedTo
    <3> QED BY <1>1, <2>8, <3>3
  <2>10. ASSUME NEW t \in T, NEW o \in DOMAIN new[t].occs
         PROVE  /\ all[t].occs[o].path = new[t].occs[o].path
                /\ all[t].occs[o].link = new[t].occs[o].link
                /\ all[t].occs[o].same <=> new[t].occs[o].same
    <3>1. MovedTo(new[t].occs[o], all[t].occs[o], FALSE, active, p, renewed)
      <4>1. (t \in touched /\ Refers(new[t].occs[o], active, old)) = FALSE
        BY <2>9
      <4> QED BY <2>7, <4>1
    <3>2. all[t].occs[o].link \notin renewed
      <4>1. CASE all[t].occs[o].link = None
        BY <1>1, <2>6, <4>1 DEF Touched
      <4>2. CASE all[t].occs[o].link # None
        BY <2>6, <2>8, <2>9, <4>2
      <4> QED BY <4>1, <4>2
    <3> QED BY <3>1, <3>2 DEF MovedTo
  <2>11. /\ \A s \in Opened : /\ all[s].shape = new[s].shape
                              /\ all[s].path = new[s].path
         /\ \A s \in T : /\ DOMAIN all[s].occs = DOMAIN new[s].occs
                         /\ all[s].dirty = new[s].dirty
    BY <2>2, <2>9 DEF Rebound
  <2>12. SavedThen(all, p, T)
    BY <1>1, <1>2, <2>3, <2>4, <2>10, <2>11 DEF SavedThen
  <2> QED BY <2>12
<1> QED BY <1>3, <1>4, SaveIs

(* Nothing the saved document shows moves when the others follow, so what  *)
(* was saved stays without unsaved changes.                                *)
LEMMA SaveStill ==
  ASSUME LinksInv, SavedInv, LinksInv', SavedInv', NEW p \in Path, Save(p),
         NEW T, AcyclicIn(doc', tabs, T), AllLinked(doc', T), active \in T,
         active \notin LinkedFrom(doc', T)
  PROVE  ~doc'[active].dirty /\ doc'[active].path = p
<1>1. /\ active \in Opened /\ tabs' = tabs /\ tabs \in Seq(Session)
      /\ Opened = Range(tabs) /\ Opened' = Opened
  BY SaveIs DEF LinksInv, Opened
<1>2. /\ DocsOK(doc, Opened) /\ LinksIn(doc, Opened)
      /\ DocsOK(doc', Opened) /\ LinksIn(doc', Opened)
  BY <1>1, DocsLink DEF LinksInv
<1>3. /\ OwnPaths(doc, Opened, disk) /\ FollowsIn(doc, tabs)
      /\ OwnPaths(doc', Opened, disk') /\ ByPath(doc', Opened)
  BY <1>1 DEF SavedInv, FilesOK
<1>4. /\ T \subseteq Opened /\ LinkedFrom(doc', T) \subseteq T
  BY <1>1 DEF AcyclicIn
<1>5. PICK docs : SavedThen(docs, p, T)
  BY <1>4, SaveThen
<1>6. /\ DocsOK(docs, Opened) /\ doc' = Sync(docs, tabs)
      /\ \A s \in Opened :
           /\ docs[s].shape = doc[s].shape
           /\ s # active => docs[s].path = doc[s].path
      /\ ~docs[active].dirty /\ docs[active].path = p
  BY <1>5 DEF SavedThen
<1>7. ASSUME NEW t \in T
      PROVE  /\ DOMAIN docs[t].occs = DOMAIN doc[t].occs
             /\ \A o \in DOMAIN doc[t].occs :
                  /\ docs[t].occs[o].path = doc[t].occs[o].path
                  /\ docs[t].occs[o].link = doc[t].occs[o].link
                  /\ docs[t].occs[o].same <=> doc[t].occs[o].same
  BY <1>5 DEF SavedThen
<1>8. KeepsLinks(docs, doc') /\ DOMAIN docs = Opened
  BY <1>1, <1>6, FollowedIs DEF DocsOK
<1>9. \A s \in Opened : doc'[s].path = docs[s].path
  BY <1>8 DEF KeepsLinks
(* An occurrence of T: its link, or the one it gets.                       *)
<1>10. ASSUME NEW t \in T, NEW o \in DOMAIN doc[t].occs
       PROVE  \E u \in T \ {active} :
                Of(doc, tabs, t, o) = u /\ Of(docs, tabs, t, o) = u
  <2> DEFINE now == doc'[t].occs[o]
             was == doc[t].occs[o]
             mid == docs[t].occs[o]
             u == now.link
  <2>1. /\ o \in DOMAIN doc'[t].occs
        /\ KeepsOcc(mid, now) /\ mid.path = was.path /\ mid.link = was.link
    BY <1>4, <1>7, <1>8 DEF KeepsLinks
  <2>2. u # None
    BY <2>1 DEF AllLinked
  <2>3. u \in LinkedFrom(doc', T)
    BY <2>1, <2>2, LinkedFromIs
  <2>4. u \in T \ {active} /\ u \in Opened
    BY <1>4, <2>3
  <2>5. CASE was.link # None
    <3>1. was.link = u /\ mid.link = u
      BY <2>1, <2>5 DEF KeepsOcc
    <3> HIDE DEF was, mid, u
    <3>2. Source(doc, tabs, was) = u /\ Source(docs, tabs, mid) = u
      BY <1>1, <2>2, <3>1, SourceIs
    <3> QED BY <2>4, <3>2 DEF Of, was, mid
  <2>6. CASE was.link = None
    <3>1. now.path = was.path
      BY <2>1 DEF KeepsOcc
    <3>2. now.path = doc'[u].path
      BY <1>3, <1>4, <2>1, <2>2 DEF ByPath, NamesSource
    <3>3. doc'[u].path = docs[u].path /\ docs[u].path = doc[u].path
      BY <1>6, <1>9, <2>4
    <3>4. was.path # None
      <4>1. doc[t] \in Document
        BY <1>2, <1>4 DEF DocsOK
      <4>2. was \in Occurrence
        BY <4>1, DocumentParts
      <4> QED BY <4>2, LinksAssumption DEF Occurrence
    <3>5. \A s \in Range(tabs) : doc[s].path = was.path => s = u
      BY <1>1, <1>3, <2>4, <3>1, <3>2, <3>3, <3>4 DEF OwnPaths
    <3>6. \A s \in Range(tabs) : docs[s].path = mid.path => s = u
      BY <1>1, <1>3, <1>9, <2>1, <2>4, <3>1, <3>2, <3>3, <3>4 DEF OwnPaths
    <3>7. /\ mid.link = None /\ doc[u].path = was.path
          /\ docs[u].path = mid.path /\ u \in Range(tabs)
      BY <1>1, <2>1, <2>4, <2>6, <3>1, <3>2, <3>3
    <3> HIDE DEF was, mid, u, now
    <3>8. Source(doc, tabs, was) = u
      BY <1>1, <2>6, <3>5, <3>7, OnlySource
    <3>9. Source(docs, tabs, mid) = u
      BY <1>1, <3>6, <3>7, OnlySource
    <3> QED BY <2>4, <3>8, <3>9 DEF Of, was, mid
  <2> QED BY <2>5, <2>6
<1>11. ASSUME NEW t \in T
       PROVE  LinkedFrom(doc, {t}) \subseteq LinkedFrom(doc', {t})
  <2> SUFFICES ASSUME NEW u \in LinkedFrom(doc, {t})
               PROVE  u \in LinkedFrom(doc', {t})
    OBVIOUS
  <2>1. PICK o \in DOMAIN doc[t].occs : u # None /\ doc[t].occs[o].link = u
    BY LinkedFromIs
  <2>2. docs[t].occs[o].link = u /\ o \in DOMAIN docs[t].occs
    BY <1>7, <2>1
  <2>3. o \in DOMAIN doc'[t].occs /\ doc'[t].occs[o].link = u
    BY <1>4, <1>8, <2>1, <2>2 DEF KeepsLinks, KeepsOcc
  <2> QED BY <2>1, <2>3, LinkedFromIs
<1>12. AcyclicIn(doc, tabs, T)
  BY <1>1, <1>2, <1>11, FewerBelow
<1>13. ShowsIn(doc, tabs, T)
  BY <1>10 DEF ShowsIn
<1>14. \A t \in T : Stale(doc, tabs, t) = {}
  BY <1>3, <1>12, <1>13 DEF FollowsIn
<1>15. ShowsIn(docs, tabs, T)
  BY <1>7, <1>10 DEF ShowsIn
<1>16. ASSUME NEW t \in T, NEW o \in Stale(docs, tabs, t) PROVE FALSE
  <2>1. o \in DOMAIN docs[t].occs
    BY StaleIs
  <2>2. o \in DOMAIN doc[t].occs
    BY <1>7, <2>1
  <2>3. PICK u \in T \ {active} :
          Of(doc, tabs, t, o) = u /\ Of(docs, tabs, t, o) = u
    BY <1>10, <2>2
  <2>4. /\ u # None /\ u # t /\ docs[u].shape # {}
        /\ \/ docs[t].occs[o].link # u
           \/ ~docs[t].occs[o].same
    BY <2>3, StaleIs
  <2>5. docs[u].shape = doc[u].shape
    BY <1>4, <1>6
  <2>6. /\ docs[t].occs[o].link = doc[t].occs[o].link
        /\ docs[t].occs[o].same <=> doc[t].occs[o].same
    BY <1>7, <2>2
  <2>7. o \in Stale(doc, tabs, t)
    BY <2>2, <2>3, <2>4, <2>5, <2>6, StaleIs
  <2> QED BY <1>14, <2>7
<1>17. Quiet(docs, tabs, T)
  BY <1>15, <1>16 DEF Quiet
<1>18. Settling(docs, doc', tabs, T)
  BY <1>1, <1>4, <1>6, <1>17, SyncQuiet
<1> QED BY <1>1, <1>6, <1>9, <1>18 DEF Settling

LEMMA AllOpenLinked ==
  LinksInv => \A s \in Opened : AllOpen(s) =>
                /\ AcyclicIn(doc, tabs, Within(s)) /\ AllLinked(doc, Within(s))
                /\ s \notin LinkedFrom(doc, Within(s))
<1> SUFFICES ASSUME LinksInv, NEW s \in Opened, AllOpen(s)
             PROVE  /\ AcyclicIn(doc, tabs, Within(s))
                    /\ AllLinked(doc, Within(s))
                    /\ s \notin LinkedFrom(doc, Within(s))
  OBVIOUS
<1>1. /\ AcyclicIn(doc, tabs, Within(s)) /\ AllLinked(doc, Within(s))
  BY AllOpenIn
<1>2. tabs \in Seq(Session) /\ LinksIn(doc, Opened) /\ Opened = Range(tabs)
  BY DocsLink DEF LinksInv, Opened
<1>3. /\ LinkedFrom(doc, {s}) \subseteq Below(doc, tabs, s)
      /\ LinkedFrom(doc, Below(doc, tabs, s)) \subseteq Below(doc, tabs, s)
  BY <1>2, BelowIsLeast DEF Closed
<1>4. LinkedFrom(doc, Within(s)) \subseteq Below(doc, tabs, s)
  <2>1. ASSUME NEW x \in LinkedFrom(doc, Within(s))
        PROVE  \/ x \in LinkedFrom(doc, {s})
               \/ x \in LinkedFrom(doc, Below(doc, tabs, s))
    BY LinkedFromIs DEF Within
  <2> QED BY <1>3, <2>1
<1>5. s \notin Below(doc, tabs, s)
  BY <1>1 DEF AcyclicIn, Within
<1> QED BY <1>1, <1>4, <1>5

LEMMA SaveIsClean ==
  ASSUME LinksInv, SavedInv, LinksInv', SavedInv', NEW p \in Path, Save(p),
         AllOpen(active)'
  PROVE  ~doc'[active].dirty /\ doc'[active].path = p
<1>1. /\ active \in Opened /\ tabs' = tabs /\ Opened' = Opened
      /\ active' = active
  BY SaveIs DEF Save
<1>2. (\A s \in Opened : AllOpen(s) =>
        /\ AcyclicIn(doc, tabs, Within(s)) /\ AllLinked(doc, Within(s))
        /\ s \notin LinkedFrom(doc, Within(s)))'
  BY AllOpenLinked, PTL
<1> DEFINE T == {active} \cup Below(doc', tabs, active)
<1>3. Within(active)' = T
  BY <1>1 DEF Within
<1>4. /\ AcyclicIn(doc', tabs, T) /\ AllLinked(doc', T)
      /\ active \notin LinkedFrom(doc', T)
  BY <1>1, <1>2, <1>3
<1> HIDE DEF T
<1>5. active \in T
  BY DEF T
<1> QED BY <1>4, <1>5, SaveStill

LEMMA SaveCommitsOne ==
  ASSUME LinksInv, SavedInv, LinksInv', SavedInv', NEW p \in Path, Save(p),
         InPlace(active)'
  PROVE  ReadsBack(active)' /\ ~doc'[active].dirty
<1>1. active \in Opened /\ Opened' = Opened /\ active' = active
  BY SaveIs DEF Save
<1>2. ~doc'[active].dirty /\ doc'[active].path = p
  BY SaveIsClean DEF InPlace
<1>3. CleanIsSaved'
  BY SavedInvClean, PTL
<1>4. doc'[active].path # None
  BY <1>2, LinksAssumption
<1>5. ReadsBack(active)'
  BY <1>1, <1>2, <1>3, <1>4 DEF CleanIsSaved, SavedInv
<1> QED BY <1>2, <1>5

(* save_document commits a document in place (engine.py:390-408): although *)
(* the open assemblies follow at once, nothing it shows moves, so it has   *)
(* no unsaved changes afterwards and its file reads back as it is shown.   *)
THEOREM SavesAlwaysCommit ==
  ASSUME "open" \notin Overwriting
  PROVE  PlainSpec => SaveCommits
<1>1. LinksInv /\ SavedInv /\ (LinksInv /\ SavedInv)' =>
        ((~rolled /\ \E p \in Path : Save(p)) =>
           (InPlace(active)' => ReadsBack(active)' /\ ~doc'[active].dirty))
  BY SaveCommitsOne
<1> QED BY <1>1, PlainInv, PTL DEF SaveCommits
=============================================================================
