------------------------ MODULE AssemblyPosesProofs ------------------------
(***************************************************************************)
(* Proofs about AssemblyPoses, for any numbers of components, relations    *)
(* and passes, and any reach.                                              *)
(***************************************************************************)
EXTENDS AssemblyPoses, Recursion, FiniteSetTheorems, SequenceTheorems, TLAPS

Occs == [Component -> OccurrenceSet \cup {Missing}]

(* A constraint has a value it asks for.                                   *)
Constraint == {r \in RelationSet : r.at # Missing}

LEMMA AppendSet ==
  ASSUME NEW S, NEW s \in Seq(S), NEW x \in S
  PROVE  ToSet(Append(s, x)) = ToSet(s) \cup {x}
<1> DEFINE t == Append(s, x)
           n == Len(s)
<1>1. n \in Nat /\ DOMAIN s = 1..n /\ DOMAIN t = 1..(n + 1)
      /\ (\A i \in 1..n : t[i] = s[i]) /\ t[n + 1] = x
  OBVIOUS
<1>2. 1..(n + 1) = (1..n) \cup {n + 1}
  BY <1>1
<1> HIDE DEF t, n
<1> QED BY <1>1, <1>2 DEF ToSet, t

----------------------------------------------------------------------------
(* The score.                                                              *)

(* sum[n] is the sum of the first n errors.                                *)
Sums(errors, sum) ==
  sum = [n \in 0..Len(errors) |-> IF n = 0 THEN 0 ELSE sum[n - 1] + errors[n]]

LEMMA TotalIsSum ==
  ASSUME NEW errors \in Seq(Int)
  PROVE  \E sum \in [0..Len(errors) -> Int] :
           Sums(errors, sum) /\ Total(errors) = sum[Len(errors)]
<1> DEFINE m == Len(errors)
           V == Int
           zero == 0
           h == [n \in 1..m |-> [v \in V |-> v + errors[n]]]
<1>1. m \in Nat /\ \A n \in 1..m : errors[n] \in Int
  OBVIOUS
<1>2. h \in [1..m -> [V -> V]] /\ zero \in V
  BY <1>1
<1>3. PICK f \in [0..m -> V] : IteratesTo(f, zero, h, m)
  <2> HIDE DEF h, m, V, zero
  <2> QED BY <1>1, <1>2, RecursionOver
<1>4. \A n \in 1..m : h[n][f[n - 1]] = f[n - 1] + errors[n]
  <2> SUFFICES ASSUME NEW n \in 1..m PROVE h[n][f[n - 1]] = f[n - 1] + errors[n]
    OBVIOUS
  <2>1. n - 1 \in 0..m
    BY <1>1
  <2>2. f[n - 1] \in Int
    BY <1>3, <2>1
  <2> QED BY <2>2
<1>5. Sums(errors, f)
  <2>1. f = [n \in 0..m |-> IF n = 0 THEN 0 ELSE h[n][f[n - 1]]]
    BY <1>3 DEF IteratesTo
  <2>2. \A n \in 0..m : n # 0 => n \in 1..m
    BY <1>1
  <2> HIDE DEF h
  <2> QED BY <1>4, <2>1, <2>2 DEF Sums
<1> DEFINE those(sum) == Sums(errors, sum)
           it == CHOOSE sum : those(sum)
<1>6. those(it)
  <2> HIDE DEF those
  <2> QED BY <1>5 DEF those
<1>7. Total(errors) = it[m]
  BY Zenon DEF Total, Sums
<1> HIDE DEF it
<1>8. it \in [0..m -> Int]
  <2>1. it = [n \in 0..m |-> IF n = 0 THEN 0 ELSE it[n - 1] + errors[n]]
    BY <1>6 DEF Sums
  <2> DEFINE T == {n \in 0..m : it[n] \in Int}
  <2>2. 0 \in T
    BY <1>1, <2>1
  <2>3. ASSUME NEW n \in 1..m, n - 1 \in T PROVE n \in T
    <3>1. it[n] = it[n - 1] + errors[n]
      BY <1>1, <2>1
    <3> QED BY <1>1, <2>3, <3>1
  <2>4. 0..m \subseteq T
    <3> HIDE DEF T, m
    <3> QED BY <1>1, <2>2, <2>3, InductionTo
  <2>5. \A n \in 0..m : it[n] \in Int
    BY <2>4
  <2>6. it = [n \in 0..m |-> it[n]]
    <3> DEFINE g(n) == IF n = 0 THEN 0 ELSE it[n - 1] + errors[n]
    <3>1. it = [n \in 0..m |-> g(n)]
      BY <2>1
    <3> HIDE DEF g
    <3> QED BY <3>1
  <2> QED BY <2>5, <2>6
<1> QED BY <1>6, <1>7, <1>8

LEMMA LargestIsMax ==
  ASSUME NEW errors \in Seq(Nat)
  PROVE  /\ Largest(errors) \in Nat
         /\ \A i \in DOMAIN errors : errors[i] <= Largest(errors)
<1> DEFINE m == Len(errors)
           S(n) == {errors[i] : i \in 1..n} \cup {0}
           T == {n \in 0..m : \E x \in S(n) : \A y \in S(n) : x >= y}
<1>1. m \in Nat /\ DOMAIN errors = 1..m /\ \A i \in 1..m : errors[i] \in Nat
  OBVIOUS
<1>2. 0 \in T
  BY <1>1
<1>3. ASSUME NEW n \in 1..m, n - 1 \in T PROVE n \in T
  <2>1. PICK x \in S(n - 1) : \A y \in S(n - 1) : x >= y
    BY <1>3
  <2>2. S(n) = S(n - 1) \cup {errors[n]}
    BY <1>1
  <2>3. x \in Nat /\ S(n - 1) \subseteq Nat /\ errors[n] \in Nat
    BY <1>1
  <2>4. CASE x >= errors[n]
    BY <1>1, <2>1, <2>2, <2>4
  <2>5. CASE x < errors[n]
    <3>1. errors[n] \in S(n) /\ \A y \in S(n) : errors[n] >= y
      <4> HIDE DEF S
      <4> QED BY <2>1, <2>2, <2>3, <2>5
    <3>2. n \in 0..m
      BY <1>1
    <3> HIDE DEF S, m
    <3> QED BY <3>1, <3>2
  <2>6. x >= errors[n] \/ x < errors[n]
    BY <2>1, <2>3
  <2> QED BY <2>4, <2>5, <2>6
<1>4. m \in T
  <2>1. m \in 0..m
    BY <1>1
  <2> HIDE DEF T, m
  <2> QED BY <1>1, <1>2, <1>3, <2>1, InductionTo
<1>5. ToSet(errors) \cup {0} = S(m)
  BY <1>1 DEF ToSet
<1>6. PICK x \in S(m) : \A y \in S(m) : x >= y
  BY <1>4
<1>7. Largest(errors) \in S(m) /\ \A y \in S(m) : Largest(errors) >= y
  <2> HIDE DEF S
  <2> QED BY <1>5, <1>6 DEF Largest, Max
<1>8. \A i \in 1..m : errors[i] \in S(m)
  OBVIOUS
<1>9. S(m) \subseteq Nat
  BY <1>1
<1> HIDE DEF S
<1> QED BY <1>1, <1>7, <1>8, <1>9

(* An error is a distance.                                                 *)
LEMMA ErrorIsNat ==
  ASSUME NEW occs \in Occs, NEW r \in RelationSet, Evaluates(occs, r)
  PROVE  ErrorOf(occs, r) \in Nat
<1>1. PosOf(occs, r.a) \in Int /\ PosOf(occs, r.b) \in Int
  BY PosesAssumption
     DEF Evaluates, HasEnd, PosOf, Occs, OccurrenceSet, RelationSet, Component
<1>2. PICK x \in Int : x = PosOf(occs, r.b) - PosOf(occs, r.a)
  BY <1>1
<1>3. r.lo \in Int /\ r.hi \in Int /\ r.at \in Int \cup {Missing}
  BY PosesAssumption DEF RelationSet, Spot
<1>4. Clamped(x, r.lo, r.hi) \in Int
  BY <1>3 DEF Clamped
<1>5. Distance(x, Clamped(x, r.lo, r.hi)) \in Nat
  BY <1>4 DEF Distance
<1>6. r.at # Missing => Distance(x, r.at) \in Nat
  BY <1>3 DEF Distance
<1>7. ErrorAt(r, x) \in Nat
  BY <1>5, <1>6 DEF ErrorAt
<1> QED BY <1>2, <1>7 DEF ErrorOf
Scored(errors) == Largest(errors) \in Int /\ Total(errors) \in Int

LEMMA ErrorsAreScored ==
  ASSUME NEW occs \in Occs, NEW rels \in Seq(RelationSet),
         AllEvaluate(occs, rels)
  PROVE  Errors(occs, rels) \in Seq(Nat) /\ Scored(Errors(occs, rels))
<1> DEFINE e == Errors(occs, rels)
           at(i) == IF i \in Active(rels) THEN ErrorOf(occs, rels[i]) ELSE 0
<1>1. Len(rels) \in Nat /\ DOMAIN rels = 1..Len(rels)
      /\ \A i \in 1..Len(rels) : rels[i] \in RelationSet
  OBVIOUS
<1>2. \A i \in 1..Len(rels) : at(i) \in Nat
  BY <1>1, ErrorIsNat DEF AllEvaluate
<1>3. e = [i \in 1..Len(rels) |-> at(i)]
  BY <1>1 DEF Errors
<1>4. e \in Seq(Nat)
  <2> HIDE DEF at, e
  <2> QED BY <1>1, <1>2, <1>3
<1>5. e \in Seq(Int)
  <2> HIDE DEF e
  <2> QED BY <1>4
<1>6. Largest(e) \in Nat
  <2> HIDE DEF e
  <2> QED BY <1>4, LargestIsMax
<1>7. Total(e) \in Int
  <2> HIDE DEF e
  <2>1. PICK sum \in [0..Len(e) -> Int] : Total(e) = sum[Len(e)]
    BY <1>5, TotalIsSum
  <2> QED BY <1>5, <2>1
<1> HIDE DEF e
<1>8. Scored(e)
  BY <1>6, <1>7 DEF Scored
<1> QED BY <1>4, <1>8 DEF e

LEMMA SmallerTransitive ==
  ASSUME NEW e, NEW f, NEW g, Scored(e), Scored(f), Scored(g),
         Smaller(e, f), Smaller(f, g)
  PROVE  Smaller(e, g)
  BY DEF Scored, Smaller

(* Poses that are better than better ones are better.                      *)
LEMMA BetterTransitive ==
  ASSUME NEW rels \in Seq(RelationSet),
         NEW a \in Occs, NEW b \in Occs, NEW c \in Occs,
         Better(a, b, rels), Better(b, c, rels)
  PROVE  Better(a, c, rels)
<1>1. AllEvaluate(a, rels) /\ AllEvaluate(b, rels)
  BY DEF Better
<1>2. ASSUME AllEvaluate(c, rels)
      PROVE  Smaller(Errors(a, rels), Errors(c, rels))
  <2>1. Scored(Errors(a, rels)) /\ Scored(Errors(b, rels))
        /\ Scored(Errors(c, rels))
    BY <1>1, <1>2, ErrorsAreScored
  <2>2. Smaller(Errors(a, rels), Errors(b, rels))
        /\ Smaller(Errors(b, rels), Errors(c, rels))
    BY <1>1, <1>2 DEF Better
  <2> QED BY <2>1, <2>2, SmallerTransitive
<1> QED BY <1>1, <1>2 DEF Better

----------------------------------------------------------------------------
(* What a solver leaves alone: which components there are, what is known   *)
(* of them, and the position of those that are grounded.                   *)

Alike(old, new) ==
  /\ new # Missing
  /\ new.grounded = old.grounded /\ new.off = old.off /\ new.named = old.named
  /\ old.grounded => new.pos = old.pos

Frame(old, new) ==
  /\ new \in Occs
  /\ \A o \in Component : IF old[o] = Missing THEN new[o] = Missing
                          ELSE Alike(old[o], new[o])

LEMMA FrameReflexive == ASSUME NEW a \in Occs PROVE Frame(a, a)
  BY DEF Frame, Alike

LEMMA FrameTransitive ==
  ASSUME NEW a \in Occs, NEW b, NEW c, Frame(a, b), Frame(b, c)
  PROVE  Frame(a, c)
<1> SUFFICES ASSUME NEW o \in Component
             PROVE  IF a[o] = Missing THEN c[o] = Missing
                    ELSE Alike(a[o], c[o])
  BY DEF Frame
<1>1. IF a[o] = Missing THEN b[o] = Missing ELSE Alike(a[o], b[o])
  BY DEF Frame
<1>2. IF b[o] = Missing THEN c[o] = Missing ELSE Alike(b[o], c[o])
  BY DEF Frame
<1> QED BY <1>1, <1>2 DEF Alike

(* Whether a relation can be evaluated does not depend on positions.       *)
LEMMA FrameEvaluates ==
  ASSUME NEW a \in Occs, NEW b, Frame(a, b), NEW r \in RelationSet
  PROVE  Evaluates(a, r) <=> Evaluates(b, r)
<1>1. \A o \in 0..MaxComponents : HasEnd(a, o) <=> HasEnd(b, o)
  <2> SUFFICES ASSUME NEW o \in 0..MaxComponents, o # 0
               PROVE  HasEnd(a, o) <=> HasEnd(b, o)
    BY DEF HasEnd
  <2>1. o \in Component
    BY PosesAssumption DEF Component
  <2>2. IF a[o] = Missing THEN b[o] = Missing ELSE Alike(a[o], b[o])
    BY <2>1 DEF Frame
  <2> QED BY <2>2 DEF HasEnd, Alike
<1>2. r.a \in 0..MaxComponents /\ r.b \in 0..MaxComponents
  BY PosesAssumption DEF RelationSet, Component
<1> QED BY <1>1, <1>2 DEF Evaluates

LEMMA FrameAllEvaluate ==
  ASSUME NEW a \in Occs, NEW b, Frame(a, b), NEW rels \in Seq(RelationSet)
  PROVE  AllEvaluate(a, rels) <=> AllEvaluate(b, rels)
<1>1. \A i \in DOMAIN rels : rels[i] \in RelationSet
  OBVIOUS
<1>2. \A i \in DOMAIN rels : Evaluates(a, rels[i]) <=> Evaluates(b, rels[i])
  BY <1>1, FrameEvaluates
<1> QED BY <1>2 DEF AllEvaluate, Active

(* One component that is not grounded has moved.                           *)
LEMMA FrameMove ==
  ASSUME NEW a \in Occs, NEW o \in Component, a[o] # Missing, ~a[o].grounded,
         NEW x \in Int
  PROVE  Frame(a, [a EXCEPT ![o].pos = x])
<1> DEFINE here == [a[o] EXCEPT !.pos = x]
           b == [a EXCEPT ![o] = here]
<1>1. a[o] \in OccurrenceSet
  BY DEF Occs
<1>2. here \in OccurrenceSet /\ here.grounded = a[o].grounded
      /\ here.off = a[o].off /\ here.named = a[o].named
  BY <1>1 DEF OccurrenceSet
<1>3. here # Missing
  BY <1>2, PosesAssumption
<1>4. Alike(a[o], here)
  BY <1>2, <1>3 DEF Alike
<1>5. b \in Occs
  <2> HIDE DEF here
  <2> QED BY <1>2 DEF Occs
<1>6. Frame(a, b)
  <2> HIDE DEF here
  <2>1. \A p \in Component : b[p] = IF p = o THEN here ELSE a[p]
    BY DEF Occs
  <2>2. \A p \in Component : a[p] # Missing => Alike(a[p], a[p])
    BY DEF Alike
  <2> HIDE DEF b
  <2> QED BY <1>4, <1>5, <2>1, <2>2 DEF Frame
<1> QED BY <1>6

----------------------------------------------------------------------------
(* The solver of constraints.                                              *)

LEMMA SolveConstraintFrame ==
  ASSUME NEW occs \in Occs, NEW r \in Constraint
  PROVE  Frame(occs, SolveConstraint(occs, r))
<1>1. r \in RelationSet /\ r.at \in Int /\ r.b \in Component
      /\ r.a \in 0..MaxComponents
  BY DEF Constraint, RelationSet
<1>2. CASE r.off \/ ~Evaluates(occs, r) \/ Movable(occs, r) = 0
  BY <1>2, FrameReflexive DEF SolveConstraint
<1>3. CASE ~r.off /\ Evaluates(occs, r) /\ Movable(occs, r) # 0
  <2>1. r.b # 0 /\ (r.a # 0 => r.a \in Component)
    BY <1>1, PosesAssumption DEF Component
  <2>2. occs[r.b] # Missing /\ (r.a # 0 => occs[r.a] # Missing)
    BY <1>3, <2>1 DEF Evaluates, HasEnd
  <2>3. PosOf(occs, r.a) \in Int /\ PosOf(occs, r.b) \in Int
    BY <1>1, <2>1, <2>2 DEF PosOf, Occs, OccurrenceSet
  <2>4. CASE Movable(occs, r) = r.b
    <3>1. ~occs[r.b].grounded
      BY <1>3, <2>1, <2>4 DEF Movable
    <3>2. PICK x \in Int : x = PosOf(occs, r.a) + r.at
      BY <1>1, <2>3
    <3>3. SolveConstraint(occs, r) = [occs EXCEPT ![r.b].pos = x]
      BY <1>3, <2>4, <3>2 DEF SolveConstraint
    <3> QED BY <1>1, <2>2, <3>1, <3>3, FrameMove
  <2>5. CASE Movable(occs, r) # r.b
    <3>1. r.a # 0 /\ ~occs[r.a].grounded
      BY <1>3, <2>5 DEF Movable
    <3>2. PICK x \in Int :
            x = IF r.opposed THEN occs[r.b].pos + r.at ELSE occs[r.b].pos - r.at
      BY <1>1, <2>1, <2>3 DEF PosOf
    <3>3. SolveConstraint(occs, r) = [occs EXCEPT ![r.a].pos = x]
      BY <1>3, <2>5, <3>2 DEF SolveConstraint
    <3> QED BY <2>1, <2>2, <3>1, <3>3, FrameMove
  <2> QED BY <2>4, <2>5
<1> QED BY <1>2, <1>3
Turns(occs, rels, after) ==
  after = [n \in 0..Len(rels) |->
             IF n = 0 THEN occs ELSE SolveConstraint(after[n - 1], rels[n])]

LEMMA SolveInTurnFrame ==
  ASSUME NEW occs \in Occs, NEW rels \in Seq(Constraint)
  PROVE  Frame(occs, SolveInTurn(occs, rels))
<1> DEFINE m == Len(rels)
           h == [n \in 1..m |-> [v \in Occs |-> SolveConstraint(v, rels[n])]]
<1>1. m \in Nat /\ \A n \in 1..m : rels[n] \in Constraint
  OBVIOUS
<1>2. \A n \in 1..m, v \in Occs : SolveConstraint(v, rels[n]) \in Occs
  BY <1>1, SolveConstraintFrame DEF Frame
<1>3. h \in [1..m -> [Occs -> Occs]]
  <2>1. \A n \in 1..m :
          [v \in Occs |-> SolveConstraint(v, rels[n])] \in [Occs -> Occs]
    BY <1>2
  <2> QED BY <2>1
<1>4. PICK f \in [0..m -> Occs] : IteratesTo(f, occs, h, m)
  <2> HIDE DEF h, m
  <2> QED BY <1>1, <1>3, RecursionOver
<1>5. Turns(occs, rels, f)
  <2>1. f = [n \in 0..m |-> IF n = 0 THEN occs ELSE h[n][f[n - 1]]]
    BY <1>4 DEF IteratesTo
  <2>2. \A n \in 0..m : n # 0 => n \in 1..m /\ f[n - 1] \in Occs
    BY <1>1, <1>4
  <2>3. \A n \in 1..m, v \in Occs : h[n][v] = SolveConstraint(v, rels[n])
    OBVIOUS
  <2> HIDE DEF h
  <2> QED BY <2>1, <2>2, <2>3 DEF Turns
<1> DEFINE those(after) == Turns(occs, rels, after)
           it == CHOOSE after : those(after)
<1>6. those(it)
  <2> HIDE DEF those
  <2> QED BY <1>5 DEF those
<1>7. SolveInTurn(occs, rels) = it[m]
  BY Zenon DEF SolveInTurn, Turns
<1> HIDE DEF it
<1> DEFINE T == {n \in 0..m : Frame(occs, it[n])}
<1>8. it = [n \in 0..m |->
              IF n = 0 THEN occs ELSE SolveConstraint(it[n - 1], rels[n])]
  BY <1>6 DEF Turns
<1>9. 0 \in T
  BY <1>1, <1>8, FrameReflexive
<1>10. ASSUME NEW n \in 1..m, n - 1 \in T PROVE n \in T
  <2>1. Frame(occs, it[n - 1]) /\ it[n - 1] \in Occs
    BY <1>10 DEF Frame
  <2>2. it[n] = SolveConstraint(it[n - 1], rels[n])
    BY <1>1, <1>8
  <2>3. Frame(it[n - 1], it[n])
    BY <1>1, <2>1, <2>2, SolveConstraintFrame
  <2>4. Frame(occs, it[n])
    BY <2>1, <2>3, FrameTransitive
  <2> QED BY <1>1, <2>4
<1>11. m \in T
  <2>1. m \in 0..m
    BY <1>1
  <2> HIDE DEF T, m
  <2> QED BY <1>1, <1>9, <1>10, <2>1, InductionTo
<1> QED BY <1>7, <1>11

(* new is from the solver: it left alone what it has to, and is not worse. *)
NoWorse(old, new, rels) ==
  Frame(old, new) /\ (new = old \/ Better(new, old, rels))

LEMMA NoWorseTransitive ==
  ASSUME NEW rels \in Seq(RelationSet), NEW a \in Occs, NEW b, NEW c,
         NoWorse(a, b, rels), NoWorse(b, c, rels)
  PROVE  NoWorse(a, c, rels)
<1>1. b \in Occs /\ c \in Occs
  BY DEF NoWorse, Frame
<1>2. Frame(a, c)
  BY FrameTransitive DEF NoWorse
<1>3. c = a \/ Better(c, a, rels)
  BY <1>1, BetterTransitive DEF NoWorse
<1> QED BY <1>2, <1>3 DEF NoWorse

PassSet == [occs : Occs, best : Occs, stagnant : Nat, still : BOOLEAN]

(* A pass on the way from the poses a.                                     *)
PassFits(a, rels, s) ==
  s \in PassSet /\ Frame(a, s.occs) /\ NoWorse(a, s.best, rels)

LEMMA PassKeeps ==
  ASSUME NEW rels \in Seq(Constraint), NEW s \in PassSet
  PROVE  /\ SolverPass(s, rels) \in PassSet
         /\ \A a \in Occs : PassFits(a, rels, s) =>
                              PassFits(a, rels, SolverPass(s, rels))
<1> DEFINE after == SolveInTurn(s.occs, rels)
           t == Judge(s, after, rels)
           better == Better(after, s.best, rels)
<1>0. rels \in Seq(RelationSet)
  BY DEF Constraint
<1>1. s.occs \in Occs /\ s.best \in Occs /\ s.stagnant \in Nat
  BY DEF PassSet
<1>2. Frame(s.occs, after) /\ after \in Occs
  BY <1>1, SolveInTurnFrame DEF Frame
<1>3. /\ t.occs = after
      /\ t.best = IF better THEN after ELSE s.best
      /\ t.stagnant = IF better THEN 0 ELSE s.stagnant + 1
      /\ t.still = (after = s.occs)
      /\ t = [occs |-> t.occs, best |-> t.best, stagnant |-> t.stagnant,
              still |-> t.still]
  <2> HIDE DEF after
  <2> QED BY DEF Judge
<1> HIDE DEF after, t
<1>4. t \in PassSet
  <2>1. t.best \in Occs
    BY <1>1, <1>2, <1>3
  <2>2. t.stagnant \in Nat
    <3> HIDE DEF better
    <3> QED BY <1>1, <1>3
  <2>3. t.still \in BOOLEAN
    BY <1>3
  <2> QED BY <1>2, <1>3, <2>1, <2>2, <2>3 DEF PassSet
<1>5. ASSUME NEW a \in Occs, PassFits(a, rels, s) PROVE PassFits(a, rels, t)
  <2>1. Frame(a, after)
    BY <1>1, <1>2, <1>5, FrameTransitive DEF PassFits
  <2>2. CASE better
    <3>1. after = a \/ Better(after, a, rels)
      BY <1>0, <1>1, <1>2, <1>5, <2>2, BetterTransitive DEF PassFits, NoWorse
    <3> QED BY <1>3, <1>4, <2>1, <2>2, <3>1 DEF PassFits, NoWorse
  <2>3. CASE ~better
    BY <1>3, <1>4, <1>5, <2>1, <2>3 DEF PassFits
  <2> QED BY <2>2, <2>3
<1>6. SolverPass(s, rels) = s \/ SolverPass(s, rels) = t
  BY DEF SolverPass, t, after
<1> QED BY <1>4, <1>5, <1>6

Begun(occs) ==
  [occs |-> occs, best |-> occs, stagnant |-> 0, still |-> FALSE]

Passing(occs, rels, after) ==
  after = [n \in 0..MaxPasses |->
             IF n = 0
             THEN [occs |-> occs, best |-> occs, stagnant |-> 0,
                   still |-> FALSE]
             ELSE SolverPass(after[n - 1], rels)]

LEMMA PassesFit ==
  ASSUME NEW occs \in Occs, NEW rels \in Seq(Constraint)
  PROVE  PassFits(occs, rels, PassesFrom(occs, rels))
<1> DEFINE m == MaxPasses
           c == Begun(occs)
           h == [n \in 1..m |-> [v \in PassSet |-> SolverPass(v, rels)]]
<1>1. m \in Nat
  BY PosesAssumption
<1>2. c \in PassSet /\ PassFits(occs, rels, c)
  <2>1. c \in PassSet
    BY DEF PassSet, Begun
  <2>2. c.occs = occs /\ c.best = occs
    BY DEF Begun
  <2> HIDE DEF c
  <2> QED BY <2>1, <2>2, FrameReflexive DEF PassFits, NoWorse
<1>3. h \in [1..m -> [PassSet -> PassSet]]
  <2>1. [v \in PassSet |-> SolverPass(v, rels)] \in [PassSet -> PassSet]
    BY PassKeeps
  <2> QED BY <2>1
<1>4. PICK f \in [0..m -> PassSet] : IteratesTo(f, c, h, m)
  <2> HIDE DEF h, m, c
  <2> QED BY <1>1, <1>2, <1>3, RecursionOver
<1>5. Passing(occs, rels, f)
  <2>1. f = [n \in 0..m |-> IF n = 0 THEN c ELSE h[n][f[n - 1]]]
    BY <1>4 DEF IteratesTo
  <2>2. \A n \in 0..m : n # 0 => n \in 1..m /\ f[n - 1] \in PassSet
    BY <1>1, <1>4
  <2>3. \A n \in 1..m, v \in PassSet : h[n][v] = SolverPass(v, rels)
    OBVIOUS
  <2> HIDE DEF h, c
  <2>4. f = [n \in 0..m |-> IF n = 0 THEN c ELSE SolverPass(f[n - 1], rels)]
    BY <2>1, <2>2, <2>3
  <2> QED BY <2>4 DEF Passing, c, Begun
<1> DEFINE those(after) == Passing(occs, rels, after)
           it == CHOOSE after : those(after)
<1>6. those(it)
  <2> HIDE DEF those
  <2> QED BY <1>5 DEF those
<1>7. PassesFrom(occs, rels) = it[m]
  BY Zenon DEF PassesFrom, Passing
<1> HIDE DEF it
<1> DEFINE T == {n \in 0..m : PassFits(occs, rels, it[n])}
<1>8. it = [n \in 0..m |-> IF n = 0 THEN c ELSE SolverPass(it[n - 1], rels)]
  BY <1>6 DEF Passing, Begun
<1> HIDE DEF c
<1>9. 0 \in T
  BY <1>1, <1>2, <1>8
<1>10. ASSUME NEW n \in 1..m, n - 1 \in T PROVE n \in T
  <2>1. PassFits(occs, rels, it[n - 1]) /\ it[n - 1] \in PassSet
    BY <1>10 DEF PassFits
  <2>2. it[n] = SolverPass(it[n - 1], rels)
    BY <1>1, <1>8
  <2>3. PassFits(occs, rels, it[n])
    BY <2>1, <2>2, PassKeeps
  <2> QED BY <1>1, <2>3
<1>11. m \in T
  <2>1. m \in 0..m
    BY <1>1
  <2> HIDE DEF T, m
  <2> QED BY <1>1, <1>9, <1>10, <2>1, InductionTo
<1> QED BY <1>7, <1>11

LEMMA BestPosesNoWorse ==
  ASSUME NEW occs \in Occs, NEW rels \in Seq(Constraint)
  PROVE  NoWorse(occs, BestPoses(occs, rels), rels)
  BY PassesFit, FrameReflexive DEF BestPoses, PassFits, NoWorse

(* Poses that a solver tries move only what is free.                       *)
LEMMA MovedFrame ==
  ASSUME NEW occs \in Occs, NEW free \in SUBSET Free(occs),
         NEW new \in Moved(occs, free)
  PROVE  Frame(occs, new)
<1>1. PICK to \in [free -> Spot] :
        new = [o \in Component |->
                 IF o \in free THEN [occs[o] EXCEPT !.pos = to[o]] ELSE occs[o]]
  BY DEF Moved
<1>2. ASSUME NEW o \in Component
      PROVE  /\ new[o] \in OccurrenceSet \cup {Missing}
             /\ IF occs[o] = Missing THEN new[o] = Missing
                ELSE Alike(occs[o], new[o])
  <2>1. occs[o] \in OccurrenceSet \cup {Missing}
    BY DEF Occs
  <2>2. CASE o \notin free
    BY <1>1, <2>1, <2>2 DEF Alike
  <2>3. CASE o \in free
    <3>1. occs[o] \in OccurrenceSet /\ ~occs[o].grounded
      BY <2>1, <2>3 DEF Free
    <3>2. to[o] \in Int
      BY <1>1, <2>3, PosesAssumption DEF Spot
    <3>3. new[o] = [occs[o] EXCEPT !.pos = to[o]]
      BY <1>1, <2>3
    <3>4. new[o] \in OccurrenceSet /\ new[o].grounded = occs[o].grounded
          /\ new[o].off = occs[o].off /\ new[o].named = occs[o].named
      BY <3>1, <3>2, <3>3 DEF OccurrenceSet
    <3>5. new[o] # Missing /\ occs[o] # Missing
      BY <3>1, <3>4, PosesAssumption
    <3> QED BY <3>1, <3>4, <3>5 DEF Alike
  <2> QED BY <2>2, <2>3
<1>3. new \in Occs
  <2>1. DOMAIN new = Component /\ new = [o \in Component |-> new[o]]
    BY <1>1
  <2> QED BY <1>2, <2>1 DEF Occs
<1> QED BY <1>2, <1>3 DEF Frame

LEMMA FallbackNoWorse ==
  ASSUME NEW occs \in Occs, NEW rels \in Seq(RelationSet),
         NEW new \in Fallback(occs, rels)
  PROVE  NoWorse(occs, new, rels)
<1>1. CASE new = occs
  BY <1>1, FrameReflexive DEF NoWorse
<1>2. CASE new # occs
  <2>1. new \in Moved(occs, Free(occs)) /\ Better(new, occs, rels)
    BY <1>2 DEF Fallback
  <2>2. Frame(occs, new)
    BY <2>1, MovedFrame
  <2> QED BY <2>1, <2>2 DEF NoWorse
<1> QED BY <1>1, <1>2
----------------------------------------------------------------------------
(* Relations that differ in their health ask for the same.                 *)

SameRelation(r, s) ==
  /\ s.name = r.name /\ s.a = r.a /\ s.b = r.b /\ s.at = r.at
  /\ s.lo = r.lo /\ s.hi = r.hi /\ s.off = r.off

SameRelations(rels, rels2) ==
  /\ rels \in Seq(RelationSet) /\ rels2 \in Seq(RelationSet)
  /\ Len(rels2) = Len(rels)
  /\ \A i \in 1..Len(rels) : SameRelation(rels[i], rels2[i])

LEMMA SameIsAsked ==
  ASSUME NEW r, NEW s, SameRelation(r, s), NEW occs
  PROVE  /\ Evaluates(occs, r) <=> Evaluates(occs, s)
         /\ ErrorOf(occs, r) = ErrorOf(occs, s)
         /\ Satisfied(occs, r) <=> Satisfied(occs, s)
<1>1. ErrorOf(occs, r) = ErrorOf(occs, s)
  BY DEF SameRelation, ErrorOf, ErrorAt
<1> QED BY <1>1 DEF SameRelation, Satisfied, Evaluates

LEMMA SameAreAsked ==
  ASSUME NEW rels, NEW rels2, SameRelations(rels, rels2)
  PROVE  /\ Active(rels) = Active(rels2)
         /\ \A occs : /\ AllEvaluate(occs, rels) <=> AllEvaluate(occs, rels2)
                      /\ Errors(occs, rels) = Errors(occs, rels2)
         /\ \A new, old : Better(new, old, rels) <=> Better(new, old, rels2)
         /\ \A occs, i : i \in Active(rels) =>
              (Satisfied(occs, rels[i]) <=> Satisfied(occs, rels2[i]))
<1>1. DOMAIN rels = 1..Len(rels) /\ DOMAIN rels2 = 1..Len(rels)
      /\ \A i \in 1..Len(rels) : SameRelation(rels[i], rels2[i])
  BY DEF SameRelations
<1>2. Active(rels) = Active(rels2)
  BY <1>1 DEF Active, SameRelation
<1>3. ASSUME NEW occs
      PROVE  /\ AllEvaluate(occs, rels) <=> AllEvaluate(occs, rels2)
             /\ Errors(occs, rels) = Errors(occs, rels2)
  <2>1. \A i \in 1..Len(rels) : /\ Evaluates(occs, rels[i])
                                     <=> Evaluates(occs, rels2[i])
                                /\ ErrorOf(occs, rels[i])
                                     = ErrorOf(occs, rels2[i])
    BY <1>1, SameIsAsked
  <2>2. Active(rels) \subseteq 1..Len(rels)
    BY <1>1 DEF Active
  <2>3. AllEvaluate(occs, rels) <=> AllEvaluate(occs, rels2)
    BY <1>2, <2>1, <2>2 DEF AllEvaluate
  <2> DEFINE at(i) == IF i \in Active(rels) THEN ErrorOf(occs, rels[i]) ELSE 0
             at2(i) ==
               IF i \in Active(rels2) THEN ErrorOf(occs, rels2[i]) ELSE 0
  <2>4. \A i \in 1..Len(rels) : at(i) = at2(i)
    BY <1>2, <2>1
  <2>5. Errors(occs, rels) = [i \in 1..Len(rels) |-> at(i)]
    BY <1>1 DEF Errors
  <2>6. Errors(occs, rels2) = [i \in 1..Len(rels) |-> at2(i)]
    BY <1>1 DEF Errors
  <2>7. Errors(occs, rels) = Errors(occs, rels2)
    <3> HIDE DEF at, at2
    <3> QED BY <2>4, <2>5, <2>6
  <2> QED BY <2>3, <2>7
<1>4. \A new, old : Better(new, old, rels) <=> Better(new, old, rels2)
  BY <1>3 DEF Better
<1>5. \A occs, i : i \in Active(rels) =>
        (Satisfied(occs, rels[i]) <=> Satisfied(occs, rels2[i]))
  BY <1>1, SameIsAsked DEF Active
<1> QED BY <1>2, <1>3, <1>4, <1>5

LEMMA SameJoined ==
  ASSUME NEW c, NEW c2, NEW j, NEW j2,
         SameRelations(c, c2), SameRelations(j, j2)
  PROVE  SameRelations(c \o j, c2 \o j2)
<1>0. /\ c \in Seq(RelationSet) /\ c2 \in Seq(RelationSet)
      /\ j \in Seq(RelationSet) /\ j2 \in Seq(RelationSet)
      /\ Len(c2) = Len(c) /\ Len(j2) = Len(j)
  BY DEF SameRelations
<1>1. c \o j \in Seq(RelationSet) /\ c2 \o j2 \in Seq(RelationSet)
  BY <1>0
<1>2. Len(c \o j) = Len(c) + Len(j) /\ Len(c2 \o j2) = Len(c) + Len(j)
  BY <1>0
<1>3. Len(c) \in Nat /\ Len(j) \in Nat
  BY <1>0
<1>4. ASSUME NEW i \in 1..(Len(c) + Len(j))
      PROVE  SameRelation((c \o j)[i], (c2 \o j2)[i])
  <2>1. CASE i <= Len(c)
    <3>1. (c \o j)[i] = c[i] /\ (c2 \o j2)[i] = c2[i]
      BY <1>0, <2>1
    <3>2. i \in 1..Len(c)
      BY <1>3, <2>1
    <3> QED BY <3>1, <3>2 DEF SameRelations
  <2>2. CASE i > Len(c)
    <3>1. (c \o j)[i] = j[i - Len(c)] /\ (c2 \o j2)[i] = j2[i - Len(c)]
      BY <1>0, <2>2
    <3>2. i - Len(c) \in 1..Len(j)
      BY <1>3, <2>2
    <3> QED BY <3>1, <3>2 DEF SameRelations
  <2>3. i <= Len(c) \/ i > Len(c)
    BY <1>3
  <2> QED BY <2>1, <2>2, <2>3
<1> QED BY <1>1, <1>2, <1>4 DEF SameRelations

LEMMA JudgedOne ==
  ASSUME NEW r \in RelationSet, NEW healthy \in BOOLEAN
  PROVE  LET s == [r EXCEPT !.healthy = healthy]
         IN s \in RelationSet /\ SameRelation(r, s) /\ s.healthy = healthy
  BY DEF RelationSet, SameRelation

LEMMA JudgedSame ==
  ASSUME NEW occs, NEW rels \in Seq(RelationSet)
  PROVE  /\ SameRelations(rels, Judged(occs, rels))
         /\ \A i \in Active(rels) :
              Judged(occs, rels)[i].healthy <=> Satisfied(occs, rels[i])
<1> DEFINE at(i) == IF rels[i].off THEN rels[i]
                    ELSE [rels[i] EXCEPT !.healthy = Satisfied(occs, rels[i])]
           new == Judged(occs, rels)
<1>1. Len(rels) \in Nat /\ DOMAIN rels = 1..Len(rels)
      /\ \A i \in 1..Len(rels) : rels[i] \in RelationSet
  OBVIOUS
<1>2. \A r : Satisfied(occs, r) \in BOOLEAN
  BY Zenon DEF Satisfied
<1>3. ASSUME NEW i \in 1..Len(rels)
      PROVE  /\ at(i) \in RelationSet /\ SameRelation(rels[i], at(i))
             /\ ~rels[i].off => at(i).healthy = Satisfied(occs, rels[i])
  <2>1. CASE rels[i].off
    BY <1>1, <2>1 DEF SameRelation
  <2>2. CASE ~rels[i].off
    <3> DEFINE v == Satisfied(occs, rels[i])
    <3>1. at(i) = [rels[i] EXCEPT !.healthy = v] /\ v \in BOOLEAN
      BY <1>2, <2>2
    <3> HIDE DEF v, at
    <3>2. at(i) \in RelationSet /\ SameRelation(rels[i], at(i))
          /\ at(i).healthy = v
      BY <1>1, <3>1, JudgedOne
    <3> QED BY <3>2 DEF v
  <2> QED BY <2>1, <2>2
<1>4. new = [i \in 1..Len(rels) |-> at(i)]
  BY <1>1, Zenon DEF Judged
<1> HIDE DEF at, new
<1>5. new \in Seq(RelationSet) /\ Len(new) = Len(rels)
      /\ \A i \in 1..Len(rels) : new[i] = at(i)
  BY <1>1, <1>3, <1>4
<1>6. SameRelations(rels, new)
  BY <1>1, <1>3, <1>5 DEF SameRelations
<1>7. \A i \in Active(rels) : new[i].healthy <=> Satisfied(occs, rels[i])
  BY <1>1, <1>3, <1>5 DEF Active
<1> QED BY <1>6, <1>7 DEF new

LEMMA SameConstraints ==
  ASSUME NEW rels \in Seq(Constraint), NEW rels2, SameRelations(rels, rels2)
  PROVE  rels2 \in Seq(Constraint)
<1>1. Len(rels2) = Len(rels) /\ Len(rels) \in Nat
      /\ \A i \in 1..Len(rels) : SameRelation(rels[i], rels2[i])
  BY DEF SameRelations
<1>2. \A i \in 1..Len(rels2) : rels2[i] \in RelationSet
  BY DEF SameRelations
<1>3. \A i \in 1..Len(rels) : rels[i].at # Missing
  BY DEF Constraint
<1>4. \A i \in 1..Len(rels2) : rels2[i] \in Constraint
  BY <1>1, <1>2, <1>3 DEF Constraint, SameRelation
<1>5. rels2 \in Seq(RelationSet)
  BY DEF SameRelations
<1> QED BY <1>4, <1>5

(* Joints of which none is active do not count.                            *)
LEMMA QuietJoints ==
  ASSUME NEW c \in Seq(RelationSet), NEW j \in Seq(RelationSet), Active(j) = {}
  PROVE  /\ Active(c \o j) = Active(c)
         /\ \A i \in Active(c) : (c \o j)[i] = c[i]
<1>1. Len(c) \in Nat /\ Len(j) \in Nat /\ DOMAIN c = 1..Len(c)
      /\ DOMAIN j = 1..Len(j) /\ DOMAIN (c \o j) = 1..(Len(c) + Len(j))
  OBVIOUS
<1>2. \A i \in 1..Len(c) : (c \o j)[i] = c[i]
  OBVIOUS
<1>3. ASSUME NEW i \in 1..(Len(c) + Len(j)), i > Len(c)
      PROVE  (c \o j)[i].off
  <2>1. (c \o j)[i] = j[i - Len(c)] /\ i - Len(c) \in 1..Len(j)
    BY <1>1, <1>3
  <2> QED BY <1>1, <2>1 DEF Active
<1>4. \A i \in 1..(Len(c) + Len(j)) : i <= Len(c) <=> i \in 1..Len(c)
  BY <1>1
<1>5. \A i \in 1..Len(c) : i \in 1..(Len(c) + Len(j))
  BY <1>1
<1>6. \A i \in 1..(Len(c) + Len(j)) : i <= Len(c) \/ i > Len(c)
  BY <1>1
<1> QED BY <1>1, <1>2, <1>3, <1>4, <1>5, <1>6 DEF Active

LEMMA QuietErrors ==
  ASSUME NEW c \in Seq(RelationSet), NEW j \in Seq(RelationSet), Active(j) = {},
         NEW occs \in Occs, AllEvaluate(occs, c)
  PROVE  /\ AllEvaluate(occs, c \o j)
         /\ Largest(Errors(occs, c \o j)) = Largest(Errors(occs, c))
         /\ Total(Errors(occs, c \o j)) = Total(Errors(occs, c))
<1> DEFINE e == Errors(occs, c)
           f == Errors(occs, c \o j)
           m == Len(c)
           k == Len(c) + Len(j)
<1>1. m \in Nat /\ k \in Nat /\ m <= k
      /\ DOMAIN c = 1..m /\ DOMAIN (c \o j) = 1..k
      /\ c \o j \in Seq(RelationSet)
  OBVIOUS
<1>2. AllEvaluate(occs, c \o j)
  BY QuietJoints DEF AllEvaluate
<1>3. e \in Seq(Nat) /\ f \in Seq(Nat)
  BY <1>1, <1>2, ErrorsAreScored
<1>4. Len(e) = m /\ Len(f) = k
  <2>1. DOMAIN e = 1..m /\ DOMAIN f = 1..k
    BY <1>1 DEF Errors
  <2> HIDE DEF e, f, m, k
  <2> QED BY <1>1, <1>3, <2>1
<1>5. \A i \in 1..k : f[i] = IF i <= m THEN e[i] ELSE 0
  <2> SUFFICES ASSUME NEW i \in 1..k
               PROVE  f[i] = IF i <= m THEN e[i] ELSE 0
    OBVIOUS
  <2>1. f[i] = IF i \in Active(c) THEN ErrorOf(occs, (c \o j)[i]) ELSE 0
    BY <1>1, QuietJoints DEF Errors
  <2>2. CASE i <= m
    <3>1. i \in 1..m
      BY <1>1, <2>2
    <3>2. e[i] = IF i \in Active(c) THEN ErrorOf(occs, c[i]) ELSE 0
      BY <1>1, <3>1 DEF Errors
    <3> QED BY <2>1, <2>2, <3>2, QuietJoints
  <2>3. CASE ~(i <= m)
    <3>1. i \notin Active(c)
      BY <1>1, <2>3 DEF Active
    <3> QED BY <2>1, <2>3, <3>1
  <2> QED BY <2>2, <2>3
<1> HIDE DEF e, f, m, k
<1>6. ToSet(f) \cup {0} = ToSet(e) \cup {0}
  <2>1. DOMAIN e = 1..m /\ DOMAIN f = 1..k
    BY <1>3, <1>4
  <2>2. \A i \in 1..m : i \in 1..k /\ f[i] = e[i]
    BY <1>1, <1>5
  <2>3. \A i \in 1..k : (i \in 1..m /\ f[i] = e[i]) \/ f[i] = 0
    BY <1>1, <1>5
  <2> QED BY <2>1, <2>2, <2>3 DEF ToSet
<1>7. Largest(f) = Largest(e)
  BY <1>6 DEF Largest
<1>8. Total(f) = Total(e)
  <2>1. e \in Seq(Int) /\ f \in Seq(Int)
    BY <1>3
  <2>2. PICK s \in [0..m -> Int] : Sums(e, s) /\ Total(e) = s[m]
    BY <1>4, <2>1, TotalIsSum
  <2>3. PICK t \in [0..k -> Int] : Sums(f, t) /\ Total(f) = t[k]
    BY <1>4, <2>1, TotalIsSum
  <2>4. s[0] = 0 /\ t[0] = 0
    BY <1>1, <1>4, <2>2, <2>3 DEF Sums
  <2>5. \A n \in 1..m : s[n] = s[n - 1] + e[n]
    BY <1>1, <1>4, <2>2 DEF Sums
  <2>6. \A n \in 1..k : t[n] = t[n - 1] + f[n]
    BY <1>1, <1>4, <2>3 DEF Sums
  <2> DEFINE T == {n \in 0..k : t[n] = IF n <= m THEN s[n] ELSE s[m]}
  <2>7. 0 \in T
    BY <1>1, <2>4
  <2>8. ASSUME NEW n \in 1..k, n - 1 \in T PROVE n \in T
    <3>1. t[n] = t[n - 1] + f[n] /\ t[n - 1] \in Int /\ s[m] \in Int
      BY <1>1, <2>2, <2>3, <2>6
    <3>2. CASE n <= m
      <4>1. n \in 1..m /\ n - 1 <= m
        BY <1>1, <3>2
      <4>2. t[n - 1] = s[n - 1] /\ f[n] = e[n] /\ s[n] = s[n - 1] + e[n]
        BY <1>1, <1>5, <2>5, <2>8, <3>2, <4>1
      <4>3. t[n] = s[n]
        BY <3>1, <4>2
      <4> QED BY <1>1, <3>2, <4>3
    <3>3. CASE ~(n <= m)
      <4>1. f[n] = 0 /\ t[n - 1] = s[m]
        <5>1. n - 1 <= m => n - 1 = m
          BY <1>1, <3>3
        <5> QED BY <1>1, <1>5, <2>8, <3>3, <5>1
      <4>2. t[n] = s[m]
        BY <3>1, <4>1
      <4> QED BY <1>1, <3>3, <4>2
    <3> QED BY <3>2, <3>3
  <2>9. k \in T
    <3>1. k \in 0..k
      BY <1>1
    <3> HIDE DEF T
    <3> QED BY <1>1, <2>7, <2>8, <3>1, InductionTo
  <2>10. t[k] = s[m]
    <3>1. k <= m => k = m
      BY <1>1
    <3> QED BY <2>9, <3>1
  <2> QED BY <2>2, <2>3, <2>10
<1> QED BY <1>2, <1>7, <1>8 DEF e, f

LEMMA QuietBetter ==
  ASSUME NEW c \in Seq(RelationSet), NEW j \in Seq(RelationSet), Active(j) = {},
         NEW new \in Occs, NEW old \in Occs, Better(new, old, c)
  PROVE  Better(new, old, c \o j)
<1>1. AllEvaluate(new, c)
  BY DEF Better
<1>2. AllEvaluate(old, c \o j) => AllEvaluate(old, c)
  BY QuietJoints DEF AllEvaluate
<1>3. AllEvaluate(new, c \o j)
  BY <1>1, QuietErrors
<1>4. ASSUME AllEvaluate(old, c)
      PROVE  Smaller(Errors(new, c \o j), Errors(old, c \o j))
  <2>1. Smaller(Errors(new, c), Errors(old, c))
    BY <1>4 DEF Better
  <2> QED BY <1>1, <1>4, <2>1, QuietErrors DEF Smaller
<1> QED BY <1>2, <1>3, <1>4 DEF Better
----------------------------------------------------------------------------
(* What the solvers make of an assembly.                                   *)

AsmSet == [occs : Occs, order : Seq(Component), constraints : Seq(Constraint),
           joints : Seq(RelationSet)]

DocOK(d) ==
  d \in AsmSet /\ ToSet(d.order) = {o \in Component : d.occs[o] # Missing}

(* The conclusions of the two properties, of any assembly.                 *)
Truthful(d) ==
  (\/ Active(d.joints) = {}
   \/ Unsuppressed(d) # {} /\ AllEvaluate(d.occs, Relations(d)))
  => \A i \in Active(Relations(d)) :
       Relations(d)[i].healthy <=> Satisfied(d.occs, Relations(d)[i])

AllSatisfied(d) ==
  \A i \in Active(Relations(d)) : Satisfied(d.occs, Relations(d)[i])

Solution(d, r) ==
  /\ DocOK(r) /\ Frame(d.occs, r.occs) /\ Truthful(r)
  /\ \/ r.occs = d.occs
     \/ Better(r.occs, d.occs, Relations(r))
     \/ AllSatisfied(r)

LEMMA ConstraintsAreRelations ==
  /\ Constraint \subseteq RelationSet
  /\ \A s \in Seq(Constraint) : s \in Seq(RelationSet)
  BY DEF Constraint

(* Poses and relations are exchanged for others.                           *)
LEMMA DocRestated ==
  ASSUME NEW d, DocOK(d), NEW r \in AsmSet, r.order = d.order,
         Frame(d.occs, r.occs)
  PROVE  DocOK(r)
<1>1. \A o \in Component : r.occs[o] # Missing <=> d.occs[o] # Missing
  BY DEF Frame, Alike
<1> QED BY <1>1 DEF DocOK

LEMMA OneByOneSolves ==
  ASSUME NEW d, DocOK(d), Active(d.joints) = {}, NEW r \in OneByOne(d)
  PROVE  Solution(d, r)
<1> DEFINE c == d.constraints
           j == d.joints
<1>1. /\ d \in AsmSet /\ d.occs \in Occs /\ c \in Seq(Constraint)
      /\ c \in Seq(RelationSet) /\ j \in Seq(RelationSet)
  BY ConstraintsAreRelations DEF DocOK, AsmSet
<1>2. PICK occs \in Fallback(BestPoses(d.occs, c), c) :
        r = [d EXCEPT !.occs = occs, !.constraints = Judged(occs, @)]
  BY DEF OneByOne
<1>3. NoWorse(d.occs, BestPoses(d.occs, c), c)
  BY <1>1, BestPosesNoWorse
<1>4. NoWorse(d.occs, occs, c)
  <2> DEFINE b == BestPoses(d.occs, c)
  <2>1. b \in Occs
    BY <1>3 DEF NoWorse, Frame
  <2> HIDE DEF b
  <2>2. NoWorse(b, occs, c)
    BY <1>1, <1>2, <2>1, FallbackNoWorse DEF b
  <2> QED BY <1>1, <1>3, <2>2, NoWorseTransitive DEF b
<1>5. occs \in Occs /\ Frame(d.occs, occs)
  BY <1>4 DEF NoWorse, Frame
<1> DEFINE new == Judged(occs, c)
<1>6. /\ SameRelations(c, new)
      /\ \A i \in Active(c) : new[i].healthy <=> Satisfied(occs, c[i])
  BY <1>1, JudgedSame
<1> HIDE DEF new
<1>7. new \in Seq(Constraint) /\ new \in Seq(RelationSet)
  BY <1>1, <1>6, SameConstraints, ConstraintsAreRelations
<1>8. /\ r.occs = occs /\ r.constraints = new /\ r.order = d.order
      /\ r.joints = j /\ r \in AsmSet
  BY <1>1, <1>2, <1>5, <1>7 DEF AsmSet, new
<1>9. DocOK(r)
  BY <1>5, <1>8, DocRestated
<1>10. Active(new) = Active(c)
       /\ \A i \in Active(c) : Satisfied(occs, c[i]) <=> Satisfied(occs, new[i])
  BY <1>6, SameAreAsked
<1>11. /\ Active(Relations(r)) = Active(new)
       /\ \A i \in Active(new) : Relations(r)[i] = new[i]
  <2>1. Active(j) = {} /\ Relations(r) = new \o j
    BY <1>8 DEF Relations
  <2> HIDE DEF j
  <2>2. /\ Active(new \o j) = Active(new)
        /\ \A i \in Active(new) : (new \o j)[i] = new[i]
    BY <1>1, <1>7, <2>1, QuietJoints
  <2> QED BY <2>1, <2>2
<1>12. Truthful(r)
  BY <1>6, <1>8, <1>10, <1>11 DEF Truthful
<1>13. r.occs = d.occs \/ Better(r.occs, d.occs, Relations(r))
  <2> SUFFICES ASSUME occs # d.occs PROVE Better(occs, d.occs, new \o j)
    BY <1>8 DEF Relations
  <2>1. Better(occs, d.occs, c)
    BY <1>4 DEF NoWorse
  <2>2. Better(occs, d.occs, new)
    BY <1>6, <2>1, SameAreAsked
  <2> QED BY <1>1, <1>5, <1>7, <2>2, QuietBetter
<1> QED BY <1>5, <1>8, <1>9, <1>12, <1>13 DEF Solution

(* Everything is judged of where the components stand then.                *)
LEMMA WithHealthIsTrue ==
  ASSUME NEW d, DocOK(d), NEW occs, Frame(d.occs, occs)
  PROVE  LET r == WithHealth(d, occs)
         IN /\ DocOK(r) /\ r.occs = occs /\ Truthful(r)
            /\ SameRelations(Relations(d), Relations(r))
<1> DEFINE c == d.constraints
           j == d.joints
           c2 == Judged(occs, c)
           j2 == Judged(occs, j)
           r == WithHealth(d, occs)
<1>1. /\ d \in AsmSet /\ occs \in Occs /\ c \in Seq(Constraint)
      /\ c \in Seq(RelationSet) /\ j \in Seq(RelationSet)
  BY ConstraintsAreRelations DEF DocOK, AsmSet, Frame
<1>2. SameRelations(c, c2) /\ SameRelations(j, j2)
      /\ (\A i \in Active(c) : c2[i].healthy <=> Satisfied(occs, c[i]))
      /\ (\A i \in Active(j) : j2[i].healthy <=> Satisfied(occs, j[i]))
  BY <1>1, JudgedSame
<1>3. r = [d EXCEPT !.occs = occs, !.constraints = c2, !.joints = j2]
  BY <1>1 DEF WithHealth, AsmSet
<1> HIDE DEF c2, j2, r
<1>4. c2 \in Seq(Constraint) /\ j2 \in Seq(RelationSet)
      /\ c2 \in Seq(RelationSet)
  <2>1. j2 \in Seq(RelationSet)
    BY <1>2 DEF SameRelations
  <2> QED BY <1>1, <1>2, <2>1, SameConstraints, ConstraintsAreRelations
<1>5. r \in AsmSet /\ r.occs = occs /\ r.order = d.order
      /\ r.constraints = c2 /\ r.joints = j2
  BY <1>1, <1>3, <1>4 DEF AsmSet
<1>6. DocOK(r)
  BY <1>5, DocRestated
<1>7. SameRelations(Relations(d), Relations(r))
  BY <1>2, <1>5, SameJoined DEF Relations
<1>8. ASSUME NEW i \in Active(Relations(r))
      PROVE  Relations(r)[i].healthy <=> Satisfied(occs, Relations(r)[i])
  <2>1. Len(c) \in Nat /\ Len(j) \in Nat /\ Len(c2) = Len(c) /\ Len(j2) = Len(j)
    BY <1>1, <1>2 DEF SameRelations
  <2>0. /\ Relations(r) = c2 \o j2 /\ c2 \in Seq(RelationSet)
        /\ j2 \in Seq(RelationSet)
    BY <1>4, <1>5 DEF Relations
  <2> HIDE DEF c, j
  <2>2. i \in 1..(Len(c) + Len(j)) /\ ~Relations(r)[i].off
    <3>0. c2 \o j2 \in Seq(RelationSet)
          /\ Len(c2 \o j2) = Len(c2) + Len(j2)
      BY <2>0
    <3>1. DOMAIN (c2 \o j2) = 1..(Len(c) + Len(j))
      BY <2>1, <3>0
    <3> QED BY <2>0, <3>1 DEF Active
  <2>3. CASE i <= Len(c)
    <3>1. Relations(r)[i] = c2[i] /\ i \in 1..Len(c)
      BY <2>0, <2>1, <2>2, <2>3
    <3>2. i \in Active(c2)
      BY <1>4, <2>1, <2>2, <3>1 DEF Active
    <3>3. i \in Active(c)
          /\ (Satisfied(occs, c[i]) <=> Satisfied(occs, c2[i]))
      BY <1>2, <3>2, SameAreAsked
    <3> QED BY <1>2, <3>1, <3>3
  <2>4. CASE i > Len(c)
    <3> DEFINE k == i - Len(c)
    <3>1. Relations(r)[i] = j2[k] /\ k \in 1..Len(j)
      BY <2>0, <2>1, <2>2, <2>4
    <3> HIDE DEF k
    <3>2. k \in Active(j2)
      BY <1>4, <2>1, <2>2, <3>1 DEF Active
    <3>3. k \in Active(j)
          /\ (Satisfied(occs, j[k]) <=> Satisfied(occs, j2[k]))
      BY <1>2, <3>2, SameAreAsked
    <3> QED BY <1>2, <3>1, <3>3
  <2>5. i <= Len(c) \/ i > Len(c)
    BY <2>1, <2>2
  <2> QED BY <2>3, <2>4, <2>5
<1>9. Truthful(r)
  BY <1>5, <1>8 DEF Truthful
<1> QED BY <1>5, <1>6, <1>7, <1>9 DEF r

(* What is put within its travel is still what it was otherwise.           *)
LEMMA InTravelKeeps ==
  ASSUME NEW d, DocOK(d)
  PROVE  LET t == InTravel(d)
         IN /\ DocOK(t) /\ t.occs = d.occs /\ t.order = d.order
            /\ Active(t.joints) = Active(d.joints)
<1> DEFINE j == d.joints
           at(i) == IF j[i].off THEN j[i] ELSE WithinTravel(j[i])
           j2 == [i \in DOMAIN j |-> at(i)]
           t == InTravel(d)
<1>1. d \in AsmSet /\ j \in Seq(RelationSet) /\ d.occs \in Occs
  BY DEF DocOK, AsmSet
<1>2. Len(j) \in Nat /\ DOMAIN j = 1..Len(j)
      /\ \A i \in 1..Len(j) : j[i] \in RelationSet
  BY <1>1
<1>3. ASSUME NEW r \in RelationSet
      PROVE  WithinTravel(r) \in RelationSet /\ WithinTravel(r).off = r.off
  <2>1. r.lo \in Int /\ r.hi \in Int /\ r.at \in Int \cup {Missing}
    BY PosesAssumption DEF RelationSet, Spot
  <2>2. CASE r.at = Missing
    BY <2>2 DEF WithinTravel
  <2>3. CASE r.at # Missing
    <3> DEFINE x == Clamped(r.at, r.lo, r.hi)
    <3>1. x \in Int
      BY <2>1, <2>3 DEF Clamped
    <3>2. WithinTravel(r) = [r EXCEPT !.at = x]
      BY <2>3 DEF WithinTravel, RelationSet
    <3> HIDE DEF x
    <3> QED BY <3>1, <3>2 DEF RelationSet
  <2> QED BY <2>2, <2>3
<1>4. \A i \in 1..Len(j) : at(i) \in RelationSet /\ at(i).off = j[i].off
  BY <1>2, <1>3
<1>5. t = [d EXCEPT !.joints = j2]
  BY <1>1 DEF InTravel, AsmSet
<1> HIDE DEF at, t
<1>6. /\ j2 \in Seq(RelationSet) /\ DOMAIN j2 = 1..Len(j)
      /\ \A i \in 1..Len(j) : j2[i].off = j[i].off
  BY <1>2, <1>4
<1> HIDE DEF j2
<1>7. /\ t \in AsmSet /\ t.occs = d.occs /\ t.order = d.order
      /\ t.joints = j2
  BY <1>1, <1>5, <1>6 DEF AsmSet
<1>8. DocOK(t)
  BY <1>1, <1>7, DocRestated, FrameReflexive
<1>9. Active(t.joints) = Active(j)
  BY <1>2, <1>6, <1>7 DEF Active
<1> QED BY <1>7, <1>8, <1>9 DEF t

LEMMA DescentSolves ==
  ASSUME NEW occs \in Occs, NEW rels \in Seq(RelationSet),
         AllEvaluate(occs, rels), NEW free \in SUBSET Free(occs),
         NEW new \in Descent(occs, rels, free)
  PROVE  /\ Frame(occs, new)
         /\ \/ new = occs \/ Better(new, occs, rels)
            \/ \A i \in Active(rels) : Satisfied(new, rels[i])
<1>1. CASE new = occs
  BY <1>1, FrameReflexive
<1>2. CASE new # occs
  <2>1. new \in Moved(occs, free)
        /\ (Better(new, occs, rels) \/ Largest(Errors(new, rels)) = 0)
    BY <1>2 DEF Descent
  <2>2. Frame(occs, new) /\ new \in Occs
    BY <2>1, MovedFrame DEF Frame
  <2>3. ASSUME Largest(Errors(new, rels)) = 0, NEW i \in Active(rels)
        PROVE  Satisfied(new, rels[i])
    <3>1. AllEvaluate(new, rels)
      BY <2>2, FrameAllEvaluate
    <3>2. Errors(new, rels) \in Seq(Nat)
      BY <2>2, <3>1, ErrorsAreScored
    <3> DEFINE e == Errors(new, rels)
    <3>3. i \in DOMAIN rels /\ i \in DOMAIN e /\ e[i] = ErrorOf(new, rels[i])
      BY <2>3 DEF Active, Errors
    <3> HIDE DEF e
    <3>4. e[i] \in Nat /\ e[i] <= 0
      <4>1. e[i] <= Largest(e)
        BY <3>2, <3>3, LargestIsMax DEF e
      <4> QED BY <2>3, <3>2, <3>3, <4>1 DEF e
    <3>5. ErrorOf(new, rels[i]) = 0
      BY <3>3, <3>4
    <3> QED BY <3>1, <3>5 DEF Satisfied, AllEvaluate
  <2> QED BY <2>1, <2>2, <2>3
<1> QED BY <1>1, <1>2

LEMMA TogetherSolves ==
  ASSUME NEW d, DocOK(d), Active(d.joints) # {}, NEW r \in Together(d)
  PROVE  Solution(d, r)
<1>1. d \in AsmSet /\ d.occs \in Occs
      /\ Relations(d) \in Seq(RelationSet)
  BY ConstraintsAreRelations DEF DocOK, AsmSet, Relations
<1>2. CASE r = d /\ (Unsuppressed(d) = {} \/ ~AllEvaluate(d.occs, Relations(d)))
  <2>1. Truthful(d)
    BY <1>2 DEF Truthful
  <2> QED BY <1>1, <1>2, <2>1, FrameReflexive DEF Solution
<1>3. CASE r = WithHealth(d, d.occs)
  <2>1. Frame(d.occs, d.occs)
    BY <1>1, FrameReflexive
  <2>2. DocOK(r) /\ r.occs = d.occs /\ Truthful(r)
    BY <1>3, <2>1, WithHealthIsTrue
  <2> QED BY <2>1, <2>2 DEF Solution
<1>4. CASE /\ AllEvaluate(d.occs, Relations(d))
           /\ \E occs \in Descent(d.occs, Relations(d), FreeOf(d)) :
                r = WithHealth(d, occs)
  <2>1. PICK occs \in Descent(d.occs, Relations(d), FreeOf(d)) :
          r = WithHealth(d, occs)
    BY <1>4
  <2>2. FreeOf(d) \in SUBSET Free(d.occs)
    BY DEF FreeOf
  <2>3. /\ Frame(d.occs, occs)
        /\ \/ occs = d.occs \/ Better(occs, d.occs, Relations(d))
           \/ \A i \in Active(Relations(d)) : Satisfied(occs, Relations(d)[i])
    BY <1>1, <1>4, <2>2, DescentSolves
  <2>4. /\ DocOK(r) /\ r.occs = occs /\ Truthful(r)
        /\ SameRelations(Relations(d), Relations(r))
    BY <2>1, <2>3, WithHealthIsTrue
  <2>5. \/ occs = d.occs \/ Better(occs, d.occs, Relations(r))
        \/ AllSatisfied(r)
    BY <2>3, <2>4, SameAreAsked DEF AllSatisfied
  <2> QED BY <2>3, <2>4, <2>5 DEF Solution
<1> QED BY <1>2, <1>3, <1>4 DEF Together

(* solve_assembly_constraints.                                             *)
LEMMA SolvedIsSolution ==
  ASSUME NEW d, DocOK(d), NEW r \in Solved(d)
  PROVE  Solution(d, r)
<1>1. CASE Active(d.joints) = {}
  BY <1>1, OneByOneSolves DEF Solved
<1>2. CASE Active(d.joints) # {}
  <2> DEFINE t == InTravel(d)
  <2>1. r \in Together(t)
    BY <1>2 DEF Solved
  <2>2. DocOK(t) /\ t.occs = d.occs /\ Active(t.joints) # {}
    BY <1>2, InTravelKeeps
  <2> HIDE DEF t
  <2>3. Solution(t, r)
    BY <2>1, <2>2, TogetherSolves
  <2> QED BY <2>2, <2>3 DEF Solution
<1> QED BY <1>1, <1>2
----------------------------------------------------------------------------
(* The commands.                                                           *)

Lefts(s, out, left) ==
  left = [n \in 0..Len(s) |->
            IF n = 0 THEN <<>>
            ELSE IF n \in out THEN left[n - 1] ELSE Append(left[n - 1], s[n])]

LEMMA RemainingKeeps ==
  ASSUME NEW S, NEW s \in Seq(S), NEW out
  PROVE  /\ Remaining(s, out) \in Seq(S)
         /\ ToSet(Remaining(s, out)) = {s[i] : i \in (1..Len(s)) \ out}
<1> DEFINE m == Len(s)
           V == Seq(S)
           empty == <<>>
           step(v, n) == IF n \in out THEN v ELSE Append(v, s[n])
           h == [n \in 1..m |-> [v \in V |-> step(v, n)]]
<1>1. m \in Nat /\ \A n \in 1..m : s[n] \in S
  OBVIOUS
<1>2. h \in [1..m -> [V -> V]] /\ empty \in V
  <2>1. \A n \in 1..m, v \in V : step(v, n) \in V
    BY <1>1
  <2> HIDE DEF step, V, m
  <2>2. h \in [1..m -> [V -> V]]
    BY <2>1
  <2> QED BY <2>2 DEF V
<1>3. PICK f \in [0..m -> V] : IteratesTo(f, empty, h, m)
  <2> HIDE DEF h, m, V, empty
  <2> QED BY <1>1, <1>2, RecursionOver
<1>4. Lefts(s, out, f)
  <2>1. f = [n \in 0..m |-> IF n = 0 THEN empty ELSE h[n][f[n - 1]]]
    BY <1>3 DEF IteratesTo
  <2>2. \A n \in 0..m : n # 0 => n \in 1..m /\ f[n - 1] \in V
    <3> HIDE DEF V
    <3> QED BY <1>1, <1>3
  <2>3. \A n \in 1..m, v \in V : h[n][v] = step(v, n)
    OBVIOUS
  <2> HIDE DEF h, step, V
  <2>4. f = [n \in 0..m |-> IF n = 0 THEN <<>> ELSE step(f[n - 1], n)]
    BY <2>1, <2>2, <2>3
  <2> QED BY <2>4 DEF Lefts, step
<1> DEFINE those(left) == Lefts(s, out, left)
           it == CHOOSE left : those(left)
<1>5. those(it)
  <2> HIDE DEF those
  <2> QED BY <1>4 DEF those
<1>6. Remaining(s, out) = it[m]
  BY Zenon DEF Remaining, Lefts
<1> HIDE DEF it
<1>7. it = [n \in 0..m |-> IF n = 0 THEN empty ELSE step(it[n - 1], n)]
  BY <1>5 DEF Lefts
<1> DEFINE Good(n) == /\ it[n] \in V
                      /\ ToSet(it[n]) = {s[i] : i \in (1..n) \ out}
           T == {n \in 0..m : Good(n)}
<1>8. 0 \in T
  <2>1. it[0] = <<>>
    BY <1>1, <1>7
  <2>2. it[0] \in V /\ ToSet(it[0]) = {}
    BY <2>1 DEF ToSet
  <2> QED BY <1>1, <2>2
<1>9. ASSUME NEW n \in 1..m, n - 1 \in T PROVE n \in T
  <2>1. it[n] = step(it[n - 1], n)
    <3> HIDE DEF step, empty
    <3> QED BY <1>1, <1>7
  <2>2. Good(n - 1)
    BY <1>9
  <2>3. 1..n = (1..(n - 1)) \cup {n} /\ n \notin 1..(n - 1)
    BY <1>1
  <2>4. CASE n \in out
    <3>1. it[n] = it[n - 1]
      BY <2>1, <2>4
    <3>2. (1..n) \ out = (1..(n - 1)) \ out
      BY <2>3, <2>4
    <3> QED BY <1>1, <2>2, <3>1, <3>2
  <2>5. CASE n \notin out
    <3> DEFINE v == it[n - 1]
    <3>1. it[n] = Append(v, s[n]) /\ v \in Seq(S) /\ s[n] \in S
      BY <1>1, <2>1, <2>2, <2>5
    <3> HIDE DEF v
    <3>2. it[n] \in V
      BY <3>1
    <3>3. ToSet(it[n]) = ToSet(v) \cup {s[n]}
      BY <3>1, AppendSet
    <3>4. (1..n) \ out = ((1..(n - 1)) \ out) \cup {n}
      BY <2>3, <2>5
    <3>5. ToSet(v) = {s[i] : i \in (1..(n - 1)) \ out}
      BY <2>2 DEF v
    <3>6. ToSet(it[n]) = {s[i] : i \in (1..n) \ out}
      BY <3>3, <3>4, <3>5
    <3> QED BY <1>1, <3>2, <3>6
  <2> QED BY <2>4, <2>5
<1>10. Good(m)
  <2>1. m \in 0..m
    BY <1>1
  <2>2. 0..m \subseteq T
    <3> HIDE DEF T, m
    <3> QED BY <1>1, <1>8, <1>9, InductionTo
  <2> QED BY <2>1, <2>2
<1> QED BY <1>6, <1>10

LEMMA RemovedKeeps ==
  ASSUME NEW S, NEW s \in Seq(S), NEW i \in DOMAIN s
  PROVE  RemoveAt(s, i) \in Seq(S)
<1>1. Len(s) \in Nat /\ i \in 1..Len(s)
  OBVIOUS
<1>2. SubSeq(s, 1, i - 1) \in Seq(S) /\ SubSeq(s, i + 1, Len(s)) \in Seq(S)
  BY <1>1, SubSeqProperties
<1> QED BY <1>2, ConcatProperties DEF RemoveAt

(* place_occurrence finds a name while there is room.                      *)
LEMMA FreshIsFree ==
  ASSUME NEW d, DocOK(d), Len(d.order) < MaxComponents
  PROVE  Fresh(d) \in Component /\ d.occs[Fresh(d)] = Missing
<1> DEFINE gone == {o \in Component : d.occs[o] = Missing}
           n == Len(d.order)
<1>1. d.order \in Seq(Component) /\ n \in Nat
  BY DEF DocOK, AsmSet
<1>2. MaxComponents \in Nat
  BY PosesAssumption
<1>3. gone # {}
  <2> SUFFICES ASSUME gone = {} PROVE FALSE
    OBVIOUS
  <2>1. ToSet(d.order) = Component
    BY DEF DocOK
  <2>2. d.order \in Surjection(1..n, Component)
    BY <1>1, <2>1 DEF Surjection, ToSet
  <2>3. IsFiniteSet(1..n) /\ Cardinality(1..n) = n
        /\ Cardinality(Component) = MaxComponents
    <3>1. \A k \in Nat : IsFiniteSet(1..k) /\ Cardinality(1..k) = k
      <4> SUFFICES ASSUME NEW k \in Nat
                   PROVE  IsFiniteSet(1..k) /\ Cardinality(1..k) = k
        OBVIOUS
      <4>1. IsFiniteSet(1..k)
            /\ Cardinality(1..k) = IF 1 > k THEN 0 ELSE k - 1 + 1
        BY FS_Interval
      <4> QED BY <4>1
    <3> QED BY <1>1, <1>2, <3>1 DEF Component
  <2>4. Cardinality(Component) <= Cardinality(1..n)
    BY <2>2, <2>3, FS_Surjection
  <2> QED BY <1>1, <1>2, <2>3, <2>4
<1>4. gone \subseteq Nat
  BY DEF Component
<1>5. PICK o \in gone : \A p \in gone : o <= p
  BY <1>3, <1>4, LeastElement
<1>6. \A p \in 1..(o - 1) : d.occs[p] # Missing
  <2>1. \A p \in 1..(o - 1) : p \in Component /\ ~(o <= p)
    BY <1>2, <1>4 DEF Component
  <2> QED BY <1>5, <2>1
<1> QED BY <1>5, <1>6 DEF Fresh

LEMMA AddedOK ==
  ASSUME NEW d, DocOK(d), NEW o \in Component, NEW pos \in Int,
         NEW grounded \in BOOLEAN
  PROVE  DocOK(Added(d, o, pos, grounded))
<1> DEFINE new == [pos |-> pos, grounded |-> grounded, off |-> FALSE,
                   named |-> TRUE]
           r == Added(d, o, pos, grounded)
<1>1. d \in AsmSet /\ d.occs \in Occs /\ d.order \in Seq(Component)
  BY DEF DocOK, AsmSet
<1>2. new \in OccurrenceSet
  BY DEF OccurrenceSet
<1>3. new # Missing
  <2> HIDE DEF new
  <2> QED BY <1>2, PosesAssumption
<1>4. r = [d EXCEPT !.occs[o] = new, !.order = Append(@, o)]
  BY DEF Added
<1> HIDE DEF new
<1>5. [d.occs EXCEPT ![o] = new] \in Occs
  BY <1>1, <1>2 DEF Occs
<1>6. /\ r.occs = [d.occs EXCEPT ![o] = new]
      /\ r.order = Append(d.order, o)
      /\ r.constraints = d.constraints /\ r.joints = d.joints
      /\ r \in AsmSet
  <2> DEFINE occs == [d.occs EXCEPT ![o] = new]
             order == Append(d.order, o)
  <2>1. r = [d EXCEPT !.occs = occs, !.order = order]
    BY <1>1, <1>4 DEF AsmSet
  <2>2. occs \in Occs /\ order \in Seq(Component)
    BY <1>1, <1>5
  <2> HIDE DEF occs, order
  <2>3. /\ r.occs = occs /\ r.order = order
        /\ r.constraints = d.constraints /\ r.joints = d.joints
        /\ r \in AsmSet
    BY <1>1, <2>1, <2>2 DEF AsmSet
  <2> QED BY <2>3 DEF occs, order
<1>7. ToSet(r.order) = ToSet(d.order) \cup {o}
  BY <1>1, <1>6, AppendSet
<1>8. \A p \in Component : r.occs[p] = IF p = o THEN new ELSE d.occs[p]
  BY <1>1, <1>6 DEF Occs
<1> HIDE DEF r
<1> QED BY <1>3, <1>6, <1>7, <1>8 DEF DocOK, r

(* One component is told something.                                        *)
LEMMA ToldOK ==
  ASSUME NEW d, DocOK(d), NEW o \in Component, d.occs[o] # Missing,
         NEW new \in OccurrenceSet, NEW r,
         r = [d EXCEPT !.occs = [d.occs EXCEPT ![o] = new]]
  PROVE  DocOK(r)
<1> DEFINE occs == [d.occs EXCEPT ![o] = new]
<1>1. d \in AsmSet /\ d.occs \in Occs
  BY DEF DocOK, AsmSet
<1>2. occs \in Occs /\ \A p \in Component :
                         occs[p] = IF p = o THEN new ELSE d.occs[p]
  BY <1>1 DEF Occs
<1> HIDE DEF occs
<1>3. r = [d EXCEPT !.occs = occs]
  BY DEF occs
<1>4. r \in AsmSet /\ r.occs = occs /\ r.order = d.order
  BY <1>1, <1>2, <1>3 DEF AsmSet
<1>5. new # Missing
  BY PosesAssumption
<1> QED BY <1>2, <1>4, <1>5 DEF DocOK

LEMMA FieldsOK ==
  ASSUME NEW d, DocOK(d), NEW o \in Component, d.occs[o] # Missing
  PROVE  /\ \A b \in BOOLEAN : /\ DocOK(Grounded(d, o, b))
                               /\ DocOK(Suppressed(d, o, b))
                               /\ DocOK([d EXCEPT !.occs[o].named = b])
         /\ \A x \in Int : DocOK([d EXCEPT !.occs[o].pos = x])
<1> DEFINE old == d.occs[o]
<1>1. d \in AsmSet /\ d.occs \in Occs /\ old \in OccurrenceSet
  BY DEF DocOK, AsmSet, Occs
<1>2. ASSUME NEW b \in BOOLEAN
      PROVE  /\ [old EXCEPT !.grounded = b] \in OccurrenceSet
             /\ [old EXCEPT !.off = b] \in OccurrenceSet
             /\ [old EXCEPT !.named = b] \in OccurrenceSet
  BY <1>1 DEF OccurrenceSet
<1>3. ASSUME NEW x \in Int PROVE [old EXCEPT !.pos = x] \in OccurrenceSet
  BY <1>1 DEF OccurrenceSet
<1>4. ASSUME NEW b \in BOOLEAN
      PROVE  /\ DocOK(Grounded(d, o, b)) /\ DocOK(Suppressed(d, o, b))
             /\ DocOK([d EXCEPT !.occs[o].named = b])
  <2>1. Grounded(d, o, b)
          = [d EXCEPT !.occs = [d.occs EXCEPT
                                  ![o] = [old EXCEPT !.grounded = b]]]
    BY <1>1 DEF Grounded, AsmSet
  <2>2. Suppressed(d, o, b)
          = [d EXCEPT !.occs = [d.occs EXCEPT ![o] = [old EXCEPT !.off = b]]]
    BY <1>1 DEF Suppressed, AsmSet
  <2>3. [d EXCEPT !.occs[o].named = b]
          = [d EXCEPT !.occs = [d.occs EXCEPT ![o] = [old EXCEPT !.named = b]]]
    BY <1>1 DEF AsmSet
  <2> HIDE DEF old
  <2>4. DocOK(Grounded(d, o, b))
    BY <1>2, <2>1, ToldOK
  <2>5. DocOK(Suppressed(d, o, b))
    BY <1>2, <2>2, ToldOK
  <2>6. DocOK([d EXCEPT !.occs[o].named = b])
    BY <1>2, <2>3, ToldOK
  <2> QED BY <2>4, <2>5, <2>6
<1>5. ASSUME NEW x \in Int PROVE DocOK([d EXCEPT !.occs[o].pos = x])
  <2>1. [d EXCEPT !.occs[o].pos = x]
          = [d EXCEPT !.occs = [d.occs EXCEPT ![o] = [old EXCEPT !.pos = x]]]
    BY <1>1 DEF AsmSet
  <2> HIDE DEF old
  <2> QED BY <1>3, <2>1, ToldOK
<1> QED BY <1>4, <1>5

(* The relations are exchanged.                                            *)
LEMMA RelatedOK ==
  ASSUME NEW d, DocOK(d)
  PROVE  /\ \A c \in Seq(Constraint) : DocOK([d EXCEPT !.constraints = c])
         /\ \A j \in Seq(RelationSet) : DocOK([d EXCEPT !.joints = j])
<1>1. d \in AsmSet /\ d.occs \in Occs
  BY DEF DocOK, AsmSet
<1>2. ASSUME NEW c \in Seq(Constraint) PROVE DocOK([d EXCEPT !.constraints = c])
  <2> DEFINE r == [d EXCEPT !.constraints = c]
  <2>1. r \in AsmSet /\ r.occs = d.occs /\ r.order = d.order
    BY <1>1 DEF AsmSet
  <2> HIDE DEF r
  <2> QED BY <1>1, <2>1, DocRestated, FrameReflexive DEF r
<1>3. ASSUME NEW j \in Seq(RelationSet) PROVE DocOK([d EXCEPT !.joints = j])
  <2> DEFINE r == [d EXCEPT !.joints = j]
  <2>1. r \in AsmSet /\ r.occs = d.occs /\ r.order = d.order
    BY <1>1 DEF AsmSet
  <2> HIDE DEF r
  <2> QED BY <1>1, <2>1, DocRestated, FrameReflexive DEF r
<1> QED BY <1>2, <1>3

(* A command ends with what some solver made of the edited document, or,   *)
(* refused, of the one before it.                                          *)
LEMMA RefuseSolves ==
  ASSUME DocOK(asm), Refuse PROVE Solution(posed', asm')
<1>1. PICK back \in Solved(asm) : asm' = back
  BY DEF Refuse
<1>2. Solution(asm, back)
  BY SolvedIsSolution
<1>3. posed' = asm
  BY DEF Refuse
<1> QED BY <1>1, <1>2, <1>3

LEMMA SettledSolves ==
  ASSUME DocOK(asm), NEW edited, DocOK(edited), NEW result \in Solved(edited),
         NEW accepts, Settled(edited, result, accepts)
  PROVE  Solution(posed', asm')
<1>1. Solution(edited, result)
  BY SolvedIsSolution
<1>2. CASE accepts
  <2>1. asm' = result /\ posed' = edited
    BY <1>2 DEF Settled
  <2> QED BY <1>1, <2>1
<1>3. CASE ~accepts
  BY <1>3, RefuseSolves DEF Settled
<1> QED BY <1>2, <1>3

LEMMA EditedSolves ==
  ASSUME DocOK(asm), NEW edited, DocOK(edited), Edited(edited)
  PROVE  Solution(posed', asm')
<1>1. PICK result \in Solved(edited) : Settled(edited, result, TRUE)
  BY DEF Edited
<1> QED BY <1>1, SettledSolves

LEMMA JointEditedSolves ==
  ASSUME DocOK(asm), NEW edited, DocOK(edited), NEW i, JointEdited(edited, i)
  PROVE  Solution(posed', asm')
<1>1. PICK result \in Solved(edited) :
        Settled(edited, result, /\ result.joints[i].healthy
                                /\ Evaluates(result.occs, result.joints[i]))
  BY DEF JointEdited
<1> QED BY <1>1, SettledSolves

(* The parts of the document.                                              *)
LEMMA DocParts ==
  ASSUME NEW d, DocOK(d)
  PROVE  /\ d \in AsmSet /\ d.occs \in Occs /\ d.order \in Seq(Component)
         /\ d.constraints \in Seq(Constraint)
         /\ d.joints \in Seq(RelationSet)
         /\ \A o \in ToSet(d.order) : o \in Component /\ d.occs[o] # Missing
         /\ \A o \in {0} \cup ToSet(d.order) : o \in 0..MaxComponents
<1>1. \A o \in Component : o \in 0..MaxComponents
  BY PosesAssumption DEF Component
<1>2. 0 \in 0..MaxComponents
  BY PosesAssumption
<1> QED BY <1>1, <1>2 DEF DocOK, AsmSet

(* delete_occurrence takes the component out of the order, and everything  *)
(* that is related to it.                                                  *)
LEMMA RemovedOK ==
  ASSUME NEW d, DocOK(d), NEW o \in Component, NEW r,
         r = [d EXCEPT !.occs[o] = Missing,
                !.order = Remaining(d.order,
                            {i \in DOMAIN d.order : d.order[i] = o}),
                !.constraints = Without(@, o), !.joints = Without(@, o)]
  PROVE  DocOK(r)
<1> DEFINE s == d.order
           out == {i \in DOMAIN s : s[i] = o}
           occs == [d.occs EXCEPT ![o] = Missing]
           order == Remaining(s, out)
           c == Without(d.constraints, o)
           j == Without(d.joints, o)
<1>1. /\ d \in AsmSet /\ d.occs \in Occs /\ s \in Seq(Component)
      /\ d.constraints \in Seq(Constraint) /\ d.joints \in Seq(RelationSet)
  BY DocParts
<1>2. r = [d EXCEPT !.occs = occs, !.order = order, !.constraints = c,
                    !.joints = j]
  BY <1>1 DEF AsmSet
<1>3. order \in Seq(Component)
      /\ ToSet(order) = {s[i] : i \in (1..Len(s)) \ out}
  <2> HIDE DEF s, out
  <2> QED BY <1>1, RemainingKeeps
<1>4. c \in Seq(Constraint) /\ j \in Seq(RelationSet)
  BY <1>1, RemainingKeeps DEF Without
<1>5. occs \in Occs /\ \A p \in Component :
                         occs[p] = IF p = o THEN Missing ELSE d.occs[p]
  BY <1>1 DEF Occs
<1>6. ToSet(order) = ToSet(s) \ {o}
  <2>1. DOMAIN s = 1..Len(s)
    BY <1>1
  <2>2. \A i \in 1..Len(s) : i \notin out <=> s[i] # o
    BY <2>1
  <2> HIDE DEF s, out, order
  <2> QED BY <1>3, <2>1, <2>2 DEF ToSet
<1> HIDE DEF occs, order, c, j
<1>7. r \in AsmSet /\ r.occs = occs /\ r.order = order
  BY <1>1, <1>2, <1>3, <1>4, <1>5 DEF AsmSet
<1> QED BY <1>5, <1>6, <1>7 DEF DocOK

----------------------------------------------------------------------------
(* Each command.                                                           *)

LEMMA PlaceOccurrenceSolves ==
  ASSUME DocOK(asm), NEW pos \in Spot, NEW grounded \in BOOLEAN,
         PlaceOccurrence(pos, grounded)
  PROVE  Solution(posed', asm')
<1> DEFINE edited == Added(asm, Fresh(asm), pos, grounded)
<1>1. Fresh(asm) \in Component
  BY FreshIsFree DEF PlaceOccurrence
<1>2. pos \in Int
  BY DEF Spot
<1>3. DocOK(edited)
  BY <1>1, <1>2, AddedOK
<1>4. Edited(edited)
  BY DEF PlaceOccurrence
<1> HIDE DEF edited
<1> QED BY <1>3, <1>4, EditedSolves

LEMMA EditOccurrenceStateSolves ==
  ASSUME DocOK(asm), NEW o \in ToSet(asm.order), NEW grounded \in BOOLEAN,
         NEW off \in BOOLEAN, EditOccurrenceState(o, grounded, off)
  PROVE  Solution(posed', asm')
<1>1. o \in Component /\ asm.occs[o] # Missing
  BY DocParts
<1> DEFINE first == Grounded(asm, o, grounded)
<1>2. PICK d \in Solved(first) : Edited(Suppressed(d, o, off))
  BY DEF EditOccurrenceState
<1>3. DocOK(first)
  BY <1>1, FieldsOK
<1>4. first.occs[o] # Missing
  <2>1. [asm.occs[o] EXCEPT !.grounded = grounded] \in OccurrenceSet
    <3>1. asm.occs[o] \in OccurrenceSet
      BY <1>1, DocParts DEF Occs
    <3> QED BY <3>1 DEF OccurrenceSet
  <2>2. first.occs[o] = [asm.occs[o] EXCEPT !.grounded = grounded]
    BY <1>1, DocParts DEF Grounded, AsmSet, Occs
  <2> QED BY <2>1, <2>2, PosesAssumption
<1> HIDE DEF first
<1>5. Solution(first, d)
  BY <1>2, <1>3, SolvedIsSolution
<1>6. DocOK(d) /\ d.occs[o] # Missing
  BY <1>1, <1>4, <1>5 DEF Solution, Frame, Alike
<1> DEFINE edited == Suppressed(d, o, off)
<1>7. DocOK(edited)
  BY <1>1, <1>6, FieldsOK
<1> HIDE DEF edited
<1> QED BY <1>2, <1>7, EditedSolves DEF edited

LEMMA TransformOccurrenceSolves ==
  ASSUME DocOK(asm), NEW o \in ToSet(asm.order), NEW pos \in Spot,
         TransformOccurrence(o, pos)
  PROVE  Solution(posed', asm')
<1> DEFINE edited == [asm EXCEPT !.occs[o].pos = pos]
<1>1. o \in Component /\ asm.occs[o] # Missing /\ pos \in Int
  BY DocParts DEF Spot
<1>2. DocOK(edited)
  BY <1>1, FieldsOK
<1>3. Edited(edited)
  BY DEF TransformOccurrence
<1> HIDE DEF edited
<1> QED BY <1>2, <1>3, EditedSolves

LEMMA ReplaceOccurrenceSolves ==
  ASSUME DocOK(asm), NEW o \in ToSet(asm.order), NEW named \in BOOLEAN,
         ReplaceOccurrence(o, named)
  PROVE  Solution(posed', asm')
<1> DEFINE edited == [asm EXCEPT !.occs[o].named = named]
<1>1. o \in Component /\ asm.occs[o] # Missing
  BY DocParts
<1>2. DocOK(edited)
  BY <1>1, FieldsOK
<1>3. Edited(edited)
  BY DEF ReplaceOccurrence
<1> HIDE DEF edited
<1> QED BY <1>2, <1>3, EditedSolves

LEMMA RemoveOccurrenceSolves ==
  ASSUME DocOK(asm), NEW o \in ToSet(asm.order), RemoveOccurrence(o)
  PROVE  Solution(posed', asm')
<1> DEFINE edited ==
      [asm EXCEPT !.occs[o] = Missing,
         !.order = Remaining(asm.order,
                             {i \in DOMAIN asm.order : asm.order[i] = o}),
         !.constraints = Without(@, o), !.joints = Without(@, o)]
<1>1. o \in Component
  BY DocParts
<1>2. DocOK(edited)
  BY <1>1, RemovedOK
<1>3. Edited(edited)
  BY DEF RemoveOccurrence
<1> HIDE DEF edited
<1> QED BY <1>2, <1>3, EditedSolves

(* A relation is exchanged for another.                                    *)
LEMMA ExchangedOK ==
  ASSUME NEW d, DocOK(d)
  PROVE  /\ \A i \in DOMAIN d.constraints, r \in Constraint :
              DocOK([d EXCEPT !.constraints = [d.constraints EXCEPT ![i] = r]])
         /\ \A i \in DOMAIN d.joints, r \in RelationSet :
              DocOK([d EXCEPT !.joints = [d.joints EXCEPT ![i] = r]])
         /\ \A i \in DOMAIN d.constraints : d.constraints[i] \in Constraint
         /\ \A i \in DOMAIN d.joints : d.joints[i] \in RelationSet
<1>1. d.constraints \in Seq(Constraint) /\ d.joints \in Seq(RelationSet)
  BY DocParts
<1>2. /\ \A i \in DOMAIN d.constraints : d.constraints[i] \in Constraint
      /\ \A i \in DOMAIN d.joints : d.joints[i] \in RelationSet
  BY <1>1
<1>3. ASSUME NEW i \in DOMAIN d.constraints, NEW r \in Constraint
      PROVE  [d.constraints EXCEPT ![i] = r] \in Seq(Constraint)
  BY <1>1
<1>4. ASSUME NEW i \in DOMAIN d.joints, NEW r \in RelationSet
      PROVE  [d.joints EXCEPT ![i] = r] \in Seq(RelationSet)
  BY <1>1
<1> QED BY <1>2, <1>3, <1>4, RelatedOK

LEMMA AddConstraintSolves ==
  ASSUME DocOK(asm), NEW a \in Ends, NEW b \in ToSet(asm.order),
         NEW at \in Spot, NEW opposed \in BOOLEAN,
         AddConstraint(a, b, at, opposed)
  PROVE  Solution(posed', asm')
<1> DEFINE r == [name |-> 0, a |-> a, b |-> b, at |-> at, lo |-> 0, hi |-> 0,
                 opposed |-> opposed, off |-> FALSE, healthy |-> TRUE]
           c == Append(asm.constraints, r)
           edited == [asm EXCEPT !.constraints = c]
<1>1. /\ asm \in AsmSet /\ asm.constraints \in Seq(Constraint)
      /\ a \in 0..MaxComponents /\ b \in Component
  BY DocParts DEF Ends
<1>2. r \in Constraint
  <2>1. at \in Int /\ at # Missing /\ 0 \in Spot
    BY PosesAssumption DEF Spot
  <2>2. r \in RelationSet
    BY <1>1, <2>1 DEF RelationSet
  <2> QED BY <2>1, <2>2 DEF Constraint
<1>3. Edited(edited)
  <2>1. edited = [asm EXCEPT !.constraints = Append(@, r)]
    BY <1>1 DEF AsmSet
  <2> QED BY <2>1 DEF AddConstraint
<1> HIDE DEF r
<1>4. c \in Seq(Constraint)
  BY <1>1, <1>2
<1> HIDE DEF c
<1>5. DocOK(edited)
  BY <1>4, RelatedOK
<1> HIDE DEF edited
<1> QED BY <1>3, <1>5, EditedSolves

LEMMA EditConstraintSolves ==
  ASSUME DocOK(asm), NEW i \in DOMAIN asm.constraints, NEW a \in Ends,
         NEW at \in Spot, NEW off \in BOOLEAN, EditConstraint(i, a, at, off)
  PROVE  Solution(posed', asm')
<1> DEFINE old == asm.constraints[i]
           r == [old EXCEPT !.a = a, !.at = at, !.off = off]
           edited == [asm EXCEPT !.constraints[i].a = a,
                                 !.constraints[i].at = at,
                                 !.constraints[i].off = off]
<1>1. /\ asm \in AsmSet /\ asm.constraints \in Seq(Constraint)
      /\ old \in Constraint /\ a \in 0..MaxComponents
  BY DocParts, ExchangedOK DEF Ends
<1>2. r \in Constraint
  <2>1. at \in Int /\ at # Missing
    BY PosesAssumption DEF Spot
  <2> QED BY <1>1, <2>1 DEF Constraint, RelationSet
<1>3. edited = [asm EXCEPT !.constraints = [asm.constraints EXCEPT ![i] = r]]
  BY <1>1 DEF AsmSet
<1>4. DocOK(edited)
  <2> HIDE DEF r, edited
  <2> QED BY <1>2, <1>3, ExchangedOK
<1>5. PICK result \in Solved(edited) :
        Settled(edited, result, off \/ result.constraints[i].healthy)
  BY DEF EditConstraint
<1> HIDE DEF edited
<1> QED BY <1>4, <1>5, SettledSolves

LEMMA DeleteConstraintSolves ==
  ASSUME DocOK(asm), NEW i \in DOMAIN asm.constraints, DeleteConstraint(i)
  PROVE  Solution(posed', asm')
<1> DEFINE c == RemoveAt(asm.constraints, i)
           edited == [asm EXCEPT !.constraints = c]
<1>1. asm \in AsmSet /\ c \in Seq(Constraint)
  BY DocParts, RemovedKeeps
<1>2. Edited(edited)
  BY <1>1 DEF DeleteConstraint, AsmSet
<1> HIDE DEF c
<1>3. DocOK(edited)
  BY <1>1, RelatedOK
<1> HIDE DEF edited
<1> QED BY <1>2, <1>3, EditedSolves

LEMMA AddJointSolves ==
  ASSUME DocOK(asm), NEW a \in Ends, NEW b \in ToSet(asm.order),
         NEW at \in Spot \cup {Missing}, NEW lo \in Spot, NEW hi \in Spot,
         AddJoint(a, b, at, lo, hi)
  PROVE  Solution(posed', asm')
<1> DEFINE name == Len(asm.joints) + 1
           joint == [name |-> name, a |-> a, b |-> b, at |-> at, lo |-> lo,
                     hi |-> hi, opposed |-> FALSE, off |-> FALSE,
                     healthy |-> TRUE]
           j == Append(asm.joints, joint)
           edited == [asm EXCEPT !.joints = j]
<1>1. /\ asm \in AsmSet /\ asm.joints \in Seq(RelationSet)
      /\ a \in 0..MaxComponents /\ b \in Component /\ name \in Nat
  <2>1. asm \in AsmSet /\ asm.joints \in Seq(RelationSet)
    BY DocParts
  <2>2. a \in 0..MaxComponents /\ b \in Component
    BY DocParts DEF Ends
  <2>3. name \in Nat
    BY <2>1
  <2> QED BY <2>1, <2>2, <2>3
<1>2. joint \in RelationSet
  <2>1. at \in Int \cup {Missing}
    BY DEF Spot
  <2> HIDE DEF name
  <2> QED BY <1>1, <2>1 DEF RelationSet
<1>3. Refuse \/ JointEdited(edited, name)
  <2>1. edited = [asm EXCEPT !.joints = Append(@, joint)]
    BY <1>1 DEF AsmSet
  <2> QED BY <2>1 DEF AddJoint
<1> HIDE DEF joint, name
<1>4. j \in Seq(RelationSet)
  BY <1>1, <1>2
<1> HIDE DEF j
<1>5. DocOK(edited)
  BY <1>4, RelatedOK
<1> HIDE DEF edited
<1> QED BY <1>3, <1>5, RefuseSolves, JointEditedSolves

LEMMA SuppressJointSolves ==
  ASSUME DocOK(asm), NEW i \in DOMAIN asm.joints, NEW off \in BOOLEAN,
         SuppressJoint(i, off)
  PROVE  Solution(posed', asm')
<1> DEFINE r == [asm.joints[i] EXCEPT !.off = off]
           edited == [asm EXCEPT !.joints[i].off = off]
<1>1. /\ asm \in AsmSet /\ asm.joints \in Seq(RelationSet)
      /\ asm.joints[i] \in RelationSet
  BY DocParts, ExchangedOK
<1>2. r \in RelationSet
  BY <1>1 DEF RelationSet
<1>3. edited = [asm EXCEPT !.joints = [asm.joints EXCEPT ![i] = r]]
  BY <1>1 DEF AsmSet
<1>4. JointEdited(edited, i)
  BY DEF SuppressJoint
<1> HIDE DEF r, edited
<1>5. DocOK(edited)
  BY <1>2, <1>3, ExchangedOK
<1> QED BY <1>4, <1>5, JointEditedSolves

LEMMA SetJointLimitsSolves ==
  ASSUME DocOK(asm), NEW i \in DOMAIN asm.joints, NEW lo \in Spot,
         NEW hi \in Spot, SetJointLimits(i, lo, hi)
  PROVE  Solution(posed', asm')
<1> DEFINE r == [asm.joints[i] EXCEPT !.lo = lo, !.hi = hi]
           edited == [asm EXCEPT !.joints[i].lo = lo, !.joints[i].hi = hi]
<1>1. /\ asm \in AsmSet /\ asm.joints \in Seq(RelationSet)
      /\ asm.joints[i] \in RelationSet
  BY DocParts, ExchangedOK
<1>2. r \in RelationSet
  BY <1>1 DEF RelationSet
<1>3. edited = [asm EXCEPT !.joints = [asm.joints EXCEPT ![i] = r]]
  BY <1>1 DEF AsmSet
<1>4. Refuse \/ JointEdited(edited, i)
  BY DEF SetJointLimits
<1> HIDE DEF r, edited
<1>5. DocOK(edited)
  BY <1>2, <1>3, ExchangedOK
<1> QED BY <1>4, <1>5, RefuseSolves, JointEditedSolves

LEMMA DriveJointSolves ==
  ASSUME DocOK(asm), NEW i \in DOMAIN asm.joints, NEW at \in Spot,
         DriveJoint(i, at)
  PROVE  Solution(posed', asm')
<1> DEFINE r == [asm.joints[i] EXCEPT !.at = at]
           edited == [asm EXCEPT !.joints[i].at = at]
<1>1. /\ asm \in AsmSet /\ asm.joints \in Seq(RelationSet)
      /\ asm.joints[i] \in RelationSet
  BY DocParts, ExchangedOK
<1>2. r \in RelationSet
  <2>1. at \in Int
    BY DEF Spot
  <2> QED BY <1>1, <2>1 DEF RelationSet
<1>3. edited = [asm EXCEPT !.joints = [asm.joints EXCEPT ![i] = r]]
  BY <1>1 DEF AsmSet
<1>4. JointEdited(edited, i)
  BY DEF DriveJoint
<1> HIDE DEF r, edited
<1>5. DocOK(edited)
  BY <1>2, <1>3, ExchangedOK
<1> QED BY <1>4, <1>5, JointEditedSolves

LEMMA DeleteJointSolves ==
  ASSUME DocOK(asm), NEW i \in DOMAIN asm.joints, DeleteJoint(i)
  PROVE  Solution(posed', asm')
<1> DEFINE j == RemoveAt(asm.joints, i)
           edited == [asm EXCEPT !.joints = j]
<1>1. asm \in AsmSet /\ j \in Seq(RelationSet)
  BY DocParts, RemovedKeeps
<1>2. Edited(edited)
  BY <1>1 DEF DeleteJoint, AsmSet
<1> HIDE DEF j
<1>3. DocOK(edited)
  BY <1>1, RelatedOK
<1> HIDE DEF edited
<1> QED BY <1>2, <1>3, EditedSolves

----------------------------------------------------------------------------
(* The invariant, and what follows from it.                                *)

PosesInv == Solution(posed, asm) /\ moves \in 0..MaxMoves

LEMMA PosesInitInv == PosesInit => PosesInv
<1> SUFFICES ASSUME PosesInit PROVE PosesInv
  OBVIOUS
<1> DEFINE none == [o \in Component |-> Missing]
           empty == [occs |-> none, order |-> <<>>, constraints |-> <<>>,
                     joints |-> <<>>]
<1>1. asm = empty /\ posed = empty /\ moves \in 0..MaxMoves
  BY PosesAssumption DEF PosesInit
<1>2. none \in Occs /\ \A o \in Component : none[o] = Missing
  BY DEF Occs
<1> HIDE DEF none
<1>3. asm.occs = none /\ asm.order = <<>> /\ asm.constraints = <<>>
      /\ asm.joints = <<>> /\ asm \in AsmSet /\ posed.occs = none
  BY <1>1, <1>2 DEF AsmSet
<1>4. DocOK(asm)
  BY <1>2, <1>3 DEF DocOK, ToSet
<1>5. Relations(asm) = <<>>
  BY <1>3 DEF Relations
<1>6. Truthful(asm)
  BY <1>5 DEF Truthful, Active
<1>7. Frame(posed.occs, asm.occs)
  BY <1>2, <1>3, FrameReflexive
<1> QED BY <1>1, <1>3, <1>4, <1>6, <1>7 DEF PosesInv, Solution

LEMMA PosesStepInv == PosesInv /\ [PosesNext]_apVars => PosesInv'
<1> SUFFICES ASSUME PosesInv, [PosesNext]_apVars PROVE PosesInv'
  OBVIOUS
<1>1. CASE UNCHANGED apVars
  <2>1. asm' = asm /\ posed' = posed /\ moves' = moves
    BY <1>1 DEF apVars
  <2> QED BY <2>1 DEF PosesInv
<1>2. CASE PosesNext
  <2>1. moves' \in 0..MaxMoves
    BY <1>2, PosesAssumption DEF PosesNext, PosesInv
  <2>2. DocOK(asm)
    BY DEF PosesInv, Solution
  <2>3. ASSUME OccurrenceStep PROVE Solution(posed', asm')
    <3>1. ASSUME NEW pos \in Spot, NEW grounded \in BOOLEAN,
                 PlaceOccurrence(pos, grounded)
          PROVE  Solution(posed', asm')
      BY <2>2, <3>1, PlaceOccurrenceSolves
    <3>2. ASSUME NEW o \in ToSet(asm.order), NEW grounded \in BOOLEAN,
                 NEW off \in BOOLEAN, EditOccurrenceState(o, grounded, off)
          PROVE  Solution(posed', asm')
      BY <2>2, <3>2, EditOccurrenceStateSolves
    <3>3. ASSUME NEW o \in ToSet(asm.order), NEW pos \in Spot,
                 TransformOccurrence(o, pos)
          PROVE  Solution(posed', asm')
      BY <2>2, <3>3, TransformOccurrenceSolves
    <3>4. ASSUME NEW o \in ToSet(asm.order), NEW named \in BOOLEAN,
                 ReplaceOccurrence(o, named)
          PROVE  Solution(posed', asm')
      BY <2>2, <3>4, ReplaceOccurrenceSolves
    <3>5. ASSUME NEW o \in ToSet(asm.order), RemoveOccurrence(o)
          PROVE  Solution(posed', asm')
      BY <2>2, <3>5, RemoveOccurrenceSolves
    <3> QED BY Zenon, <2>3, <3>1, <3>2, <3>3, <3>4, <3>5 DEF OccurrenceStep
  <2>4. ASSUME ConstraintStep PROVE Solution(posed', asm')
    <3>1. ASSUME NEW a \in Ends, NEW b \in ToSet(asm.order), NEW at \in Spot,
                 NEW opposed \in BOOLEAN, AddConstraint(a, b, at, opposed)
          PROVE  Solution(posed', asm')
      BY <2>2, <3>1, AddConstraintSolves
    <3>2. ASSUME NEW i \in DOMAIN asm.constraints, NEW a \in Ends,
                 NEW at \in Spot, NEW off \in BOOLEAN,
                 EditConstraint(i, a, at, off)
          PROVE  Solution(posed', asm')
      BY <2>2, <3>2, EditConstraintSolves
    <3>3. ASSUME NEW i \in DOMAIN asm.constraints, DeleteConstraint(i)
          PROVE  Solution(posed', asm')
      BY <2>2, <3>3, DeleteConstraintSolves
    <3> QED BY Zenon, <2>4, <3>1, <3>2, <3>3 DEF ConstraintStep
  <2>5. ASSUME JointStep PROVE Solution(posed', asm')
    <3>1. ASSUME NEW a \in Ends, NEW b \in ToSet(asm.order),
                 NEW at \in Spot \cup {Missing}, NEW lo \in Spot,
                 NEW hi \in Spot, AddJoint(a, b, at, lo, hi)
          PROVE  Solution(posed', asm')
      BY <2>2, <3>1, AddJointSolves
    <3>2. ASSUME NEW i \in DOMAIN asm.joints, NEW off \in BOOLEAN,
                 SuppressJoint(i, off)
          PROVE  Solution(posed', asm')
      BY <2>2, <3>2, SuppressJointSolves
    <3>3. ASSUME NEW i \in DOMAIN asm.joints, NEW lo \in Spot, NEW hi \in Spot,
                 SetJointLimits(i, lo, hi)
          PROVE  Solution(posed', asm')
      BY <2>2, <3>3, SetJointLimitsSolves
    <3>4. ASSUME NEW i \in DOMAIN asm.joints, NEW at \in Spot,
                 DriveJoint(i, at)
          PROVE  Solution(posed', asm')
      BY <2>2, <3>4, DriveJointSolves
    <3>5. ASSUME NEW i \in DOMAIN asm.joints, DeleteJoint(i)
          PROVE  Solution(posed', asm')
      BY <2>2, <3>5, DeleteJointSolves
    <3> QED BY Zenon, <2>5, <3>1, <3>2, <3>3, <3>4, <3>5 DEF JointStep
  <2>6. Solution(posed', asm')
    BY <1>2, <2>3, <2>4, <2>5 DEF PosesNext
  <2> QED BY <2>1, <2>6 DEF PosesInv
<1> QED BY <1>1, <1>2

(* The assembly stays well formed: the components in the order are those   *)
(* placed, relations name what can be named, and every number of commands  *)
(* is within its bound.                                                    *)
THEOREM PosesTypeCorrect == PosesSpec => []PosesTypeOK
<1>1. PosesInv => PosesTypeOK
  <2> SUFFICES ASSUME PosesInv PROVE PosesTypeOK
    OBVIOUS
  <2>1. /\ asm \in AsmSet
        /\ ToSet(asm.order) = {o \in Component : asm.occs[o] # Missing}
    BY DEF PosesInv, Solution, DocOK
  <2>2. asm.constraints \in Seq(RelationSet)
    BY <2>1, ConstraintsAreRelations DEF AsmSet
  <2> QED BY <2>1, <2>2 DEF PosesInv, PosesTypeOK, AsmSet, Occs
<1> QED BY <1>1, PosesInitInv, PosesStepInv, PTL DEF PosesSpec

(* After every command, refused ones too, a relation that is not           *)
(* suppressed says that it is healthy exactly if the components stand as   *)
(* it asks, whichever solver ran, whatever it tried and gave up            *)
(* (solve_assembly_constraints), unless the joints could not be evaluated. *)
THEOREM HealthIsTrue == PosesSpec => []HealthTellsTruth
<1>1. PosesInv => HealthTellsTruth
  <2> SUFFICES ASSUME PosesInv PROVE HealthTellsTruth
    OBVIOUS
  <2>1. Truthful(asm)
    BY DEF PosesInv, Solution
  <2> QED BY <2>1 DEF Truthful, HealthTellsTruth
<1> QED BY <1>1, PosesInitInv, PosesStepInv, PTL DEF PosesSpec

(* A solver moves no component that is grounded, and what it leaves is     *)
(* where it was, better by its own score, or satisfies every relation,     *)
(* however many passes, fallbacks and descents it went through.            *)
THEOREM SolversNeverWorsen == PosesSpec => []SolvingNeverWorsens
<1>1. PosesInv => SolvingNeverWorsens
  <2> SUFFICES ASSUME PosesInv PROVE SolvingNeverWorsens
    OBVIOUS
  <2>1. /\ Frame(posed.occs, asm.occs) /\ DocOK(asm)
        /\ \/ asm.occs = posed.occs
           \/ Better(asm.occs, posed.occs, Relations(asm))
           \/ AllSatisfied(asm)
    BY DEF PosesInv, Solution
  <2>2. \A o \in Component :
          asm.occs[o] # Missing /\ asm.occs[o].grounded =>
            asm.occs[o].pos = posed.occs[o].pos
    BY <2>1 DEF Frame, Alike
  <2> QED BY <2>1, <2>2 DEF SolvingNeverWorsens, AllSatisfied
<1> QED BY <1>1, PosesInitInv, PosesStepInv, PTL DEF PosesSpec
=============================================================================
