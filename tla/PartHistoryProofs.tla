------------------------- MODULE PartHistoryProofs --------------------------
(***************************************************************************)
(* Proofs about PartHistory, for any numbers, parameters and edges and any *)
(* bounds on the sketches, features and commands.                          *)
(***************************************************************************)
EXTENDS PartHistory, Recursion, FiniteSetTheorems, TLAPS

----------------------------------------------------------------------------
(* Values.                                                                 *)

Params == [Param -> Expr \cup {Nothing}]

(* chase is what numeric_params computes, by the number of parameters it   *)
(* goes through.                                                           *)
Chases(ps, chase) ==
  chase = [n \in 0..Cardinality(Param) |->
             [x \in Expr |-> IF x \in Literal THEN x
                             ELSE IF n = 0 \/ ps[x] = Nothing THEN Unresolved
                             ELSE chase[n - 1][ps[x]]]]

(* ValueOf is the last of these functions.                                 *)
LEMMA ValueIsChased ==
  ASSUME NEW ps \in Params
  PROVE  \E chase : /\ Chases(ps, chase)
                    /\ \A e : ValueOf(ps, e) = chase[Cardinality(Param)][e]
<1> DEFINE C == Cardinality(Param)
           V == [Expr -> Literal \cup {Unresolved}]
           c == [x \in Expr |-> IF x \in Literal THEN x ELSE Unresolved]
           next(g) == [x \in Expr |-> IF x \in Literal THEN x
                         ELSE IF ps[x] = Nothing THEN Unresolved
                         ELSE g[ps[x]]]
           h == [n \in 1..C |-> [g \in V |-> next(g)]]
<1>1. C \in Nat
  BY PartAssumption, FS_CardinalityType
<1>2. c \in V
  OBVIOUS
<1>3. \A g \in V : next(g) \in V
  BY DEF Params, Expr
<1>4. h \in [1..C -> [V -> V]]
  BY <1>3
<1>5. PICK f \in [0..C -> V] : IteratesTo(f, c, h, C)
  <2> HIDE DEF C, V, c, h
  <2> QED BY <1>1, <1>2, <1>4, RecursionOver
<1>6. ASSUME NEW n \in 0..C, NEW x \in Expr
      PROVE  f[n][x] = IF x \in Literal THEN x
                       ELSE IF n = 0 \/ ps[x] = Nothing THEN Unresolved
                       ELSE f[n - 1][ps[x]]
  <2>1. CASE n = 0
    <3>1. f[n] = c
      <4> HIDE DEF c, h, V, C
      <4> QED BY <1>1, <1>5, <2>1 DEF IteratesTo
    <3> QED BY <2>1, <3>1
  <2>2. CASE n # 0
    <3>1. n \in 1..C /\ n - 1 \in 0..C
      BY <1>1, <2>2
    <3>2. f[n] = h[n][f[n - 1]]
      <4> HIDE DEF c, h, V, C
      <4> QED BY <1>1, <1>5, <2>2 DEF IteratesTo
    <3>3. f[n - 1] \in V
      <4> HIDE DEF V, C
      <4> QED BY <3>1, <1>5
    <3>4. f[n] = next(f[n - 1])
      <4> HIDE DEF next, V, C
      <4> QED BY <3>1, <3>2, <3>3
    <3> QED BY <2>2, <3>4
  <2> QED BY <2>1, <2>2
<1>7. Chases(ps, f)
  <2>1. \A n \in 0..C : f[n] = [x \in Expr |-> f[n][x]]
    BY <1>5
  <2>2. f = [n \in 0..C |-> f[n]]
    BY <1>5
  <2> DEFINE step(n, x) == IF x \in Literal THEN x
                           ELSE IF n = 0 \/ ps[x] = Nothing THEN Unresolved
                           ELSE f[n - 1][ps[x]]
  <2>3. \A n \in 0..C : f[n] = [x \in Expr |-> step(n, x)]
    <3> HIDE DEF V
    <3> QED BY <1>6, <2>1
  <2>4. f = [n \in 0..C |-> [x \in Expr |-> step(n, x)]]
    <3> HIDE DEF step
    <3> QED BY <2>2, <2>3
  <2> QED BY <2>4, Zenon DEF Chases
<1> DEFINE those(chase) == Chases(ps, chase)
           it == CHOOSE chase : those(chase)
<1>8. Chases(ps, it)
  <2> HIDE DEF it
  <2>1. it = CHOOSE chase : those(chase)
    BY DEF it
  <2>2. those(it)
    <3> HIDE DEF those
    <3>1. those(f)
      BY <1>7 DEF those
    <3> QED BY <2>1, <3>1
  <2> QED BY <2>2
<1>9. \A e : ValueOf(ps, e) = it[Cardinality(Param)][e]
  BY Zenon DEF ValueOf, Chases
<1> QED
  <2> HIDE DEF it
  <2> QED BY <1>8, <1>9

(* What an expression comes to with ps, it comes to with ps2.              *)
SameNumber(ps, ps2, e) ==
  ValueOf(ps, e) # Unresolved => ValueOf(ps2, e) = ValueOf(ps, e)

(* An expression keeps its value if the parameters it goes through do.     *)
LEMMA ValueKept ==
  ASSUME NEW ps \in Params, NEW ps2 \in Params, NEW K \in SUBSET Expr,
         \A x \in K \cap Param :
           ps[x] # Nothing => ps[x] \in K /\ ps2[x] = ps[x]
  PROVE  \A e \in K : SameNumber(ps, ps2, e)
<1> DEFINE C == Cardinality(Param)
<1>1. C \in Nat
  BY PartAssumption, FS_CardinalityType
<1>2. PICK one : Chases(ps, one) /\ \A e : ValueOf(ps, e) = one[C][e]
  BY ValueIsChased
<1>3. PICK two : Chases(ps2, two) /\ \A e : ValueOf(ps2, e) = two[C][e]
  BY ValueIsChased
<1> HIDE DEF C
<1>4. ASSUME NEW qs, NEW f, Chases(qs, f), NEW n \in 0..C, NEW x \in Expr
      PROVE  f[n][x] = IF x \in Literal THEN x
                       ELSE IF n = 0 \/ qs[x] = Nothing THEN Unresolved
                       ELSE f[n - 1][qs[x]]
  <2> DEFINE g(m) == [y \in Expr |-> IF y \in Literal THEN y
                        ELSE IF m = 0 \/ qs[y] = Nothing THEN Unresolved
                        ELSE f[m - 1][qs[y]]]
  <2>1. f = [m \in 0..C |-> g(m)]
    BY <1>4, Zenon DEF Chases, C
  <2>2. f[n] = g(n)
    <3> HIDE DEF g
    <3> QED BY <1>4, <2>1
  <2> QED BY <2>2
<1> DEFINE Good(n) == \A x \in K : one[n][x] # Unresolved =>
                                     two[n][x] = one[n][x]
           T == {n \in Nat : n <= C => Good(n)}
<1>5. 0 \in T
  <2> SUFFICES ASSUME NEW x \in K, one[0][x] # Unresolved
               PROVE  two[0][x] = one[0][x]
    BY <1>1
  <2>1. 0 \in 0..C
    BY <1>1
  <2> QED BY <1>2, <1>3, <1>4, <2>1
<1>6. ASSUME NEW n \in Nat, n \in T PROVE n + 1 \in T
  <2> SUFFICES ASSUME n + 1 <= C, NEW x \in K, one[n + 1][x] # Unresolved
               PROVE  two[n + 1][x] = one[n + 1][x]
    OBVIOUS
  <2>1. n \in 0..C /\ n + 1 \in 0..C /\ (n + 1) - 1 = n /\ n + 1 # 0
    BY <1>1
  <2>2. Good(n)
    BY <1>1, <1>6, <2>1
  <2>3. one[n + 1][x] = IF x \in Literal THEN x
                        ELSE IF ps[x] = Nothing THEN Unresolved
                        ELSE one[n][ps[x]]
    <3>1. x \in Expr
      OBVIOUS
    <3> QED BY <1>2, <1>4, <2>1, <3>1
  <2>4. two[n + 1][x] = IF x \in Literal THEN x
                        ELSE IF ps2[x] = Nothing THEN Unresolved
                        ELSE two[n][ps2[x]]
    <3>1. x \in Expr
      OBVIOUS
    <3> QED BY <1>3, <1>4, <2>1, <3>1
  <2>5. CASE x \in Literal
    BY <2>3, <2>4, <2>5
  <2>6. CASE x \notin Literal
    <3>1. x \in K \cap Param
      BY <2>6 DEF Expr
    <3>2. ps[x] # Nothing
      BY <2>3, <2>6
    <3>3. ps[x] \in K /\ ps2[x] = ps[x]
      BY <3>1, <3>2
    <3> QED BY <2>2, <2>3, <2>4, <2>6, <3>2, <3>3
  <2> QED BY <2>5, <2>6
<1>7. Good(C)
  <2>1. Nat \subseteq T
    <3> HIDE DEF T
    <3> QED BY <1>5, <1>6, Induction
  <2> QED BY <1>1, <2>1
<1> QED
  BY <1>2, <1>3, <1>7 DEF SameNumber

(* An expression that does not depend on a parameter keeps its value when  *)
(* that one is changed.                                                    *)
LEMMA ValueUnaffected ==
  ASSUME NEW ps \in Params, NEW ps2 \in Params, NEW p \in Param,
         \A x \in Param \ {p} : ps2[x] = ps[x],
         NEW e \in Expr, e \notin DependentClosure(ps2, p)
  PROVE  SameNumber(ps, ps2, e)
<1> DEFINE K == Expr \ DependentClosure(ps2, p)
<1>1. p \in DependentClosure(ps2, p)
  BY DEF DependentClosure
<1>2. ASSUME NEW x \in Param, ps2[x] \in DependentClosure(ps2, p)
      PROVE  x \in DependentClosure(ps2, p)
  <2>1. ASSUME NEW S \in SUBSET Param, p \in S,
               \A y \in Param : ps2[y] \in S => y \in S
        PROVE  x \in S
    BY <1>2, <2>1 DEF DependentClosure
  <2> QED BY <2>1 DEF DependentClosure
<1>3. \A x \in K \cap Param : ps[x] # Nothing =>
        ps[x] \in K /\ ps2[x] = ps[x]
  <2> SUFFICES ASSUME NEW x \in K \cap Param, ps[x] # Nothing
               PROVE  ps[x] \in K /\ ps2[x] = ps[x]
    OBVIOUS
  <2>1. x # p /\ ps[x] \in Expr
    BY <1>1 DEF Params
  <2>2. ps2[x] = ps[x]
    BY <2>1
  <2>3. ps2[x] \notin DependentClosure(ps2, p)
    BY <1>2
  <2> QED BY <2>1, <2>2, <2>3
<1>4. K \in SUBSET Expr /\ e \in K
  OBVIOUS
<1> HIDE DEF K
<1> QED BY <1>3, <1>4, ValueKept

----------------------------------------------------------------------------
(* Effects.                                                                *)

(* What features are, in every state.                                      *)
Target == Sketch \cup Edge \cup (Kinds \X Nat) \cup {Nothing}

FeatureOf ==
  {f \in [kind : Kinds, name : Kinds \X Nat, size : Expr \cup {Nothing},
          of : Target, off : BOOLEAN] :
     /\ f.kind \in {"box", "fillet", "extrude"} => f.size \in Expr
     /\ f.kind = "extrude" => f.of \in Sketch
     /\ f.kind = "flange" => f.of \in Edge}

LEMMA MinOf ==
  ASSUME NEW S \in SUBSET Nat, S # {}
  PROVE  Min(S) \in S /\ \A y \in S : Min(S) <= y
<1>1. \E x \in S : \A y \in S : x <= y
  BY LeastElement
<1> QED BY <1>1 DEF Min

LEMMA NamedIs ==
  ASSUME NEW fs, NEW i \in Nat, NEW name, Named(fs, i, name) # 0
  PROVE  /\ Named(fs, i, name) \in 1..(i - 1)
         /\ fs[Named(fs, i, name)].name = name
<1> DEFINE those == {j \in 1..(i - 1) : fs[j].name = name}
<1>1. those # {} /\ Named(fs, i, name) = Min(those)
  BY DEF Named
<1>2. those \in SUBSET Nat
  OBVIOUS
<1>3. Min(those) \in those
  <2> HIDE DEF those
  <2> QED BY <1>1, <1>2, MinOf
<1> QED BY <1>1, <1>3

(* An effect depends on those of the features before it.                   *)
LEMMA EffectDepends ==
  ASSUME NEW d, NEW fs, NEW i \in Nat, NEW e, NEW e2,
         \A j \in 1..(i - 1) : e2[j] = e[j]
  PROVE  EffectOf(d, fs, i, e2) = EffectOf(d, fs, i, e)
<1> DEFINE source == Named(fs, i, fs[i].of)
<1>1. CASE source = 0
  BY <1>1, Zenon DEF EffectOf
<1>2. CASE source # 0
  <2>1. source \in 1..(i - 1)
    BY <1>2, NamedIs
  <2> HIDE DEF source
  <2>2. \A j \in 1..source : e2[j] = e[j]
    BY <2>1
  <2>3. source \in 1..source
    BY <2>1
  <2>4. (\A j \in 1..source : \/ j # source /\ fs[j].off
                              \/ e2[j] # Refused /\ Stands(fs, j))
          <=> (\A j \in 1..source : \/ j # source /\ fs[j].off
                                    \/ e[j] # Refused /\ Stands(fs, j))
    BY <2>2, Zenon
  <2>5. Patterned(fs, source, e2) = Patterned(fs, source, e)
    BY <2>2, <2>3, <2>4, Zenon DEF Patterned
  <2> QED BY <2>5, Zenon DEF EffectOf, source
<1> QED BY <1>1, <1>2

(* effect is the function by which _apply_feature builds the features.     *)
AreEffects(d, fs, effect) ==
  effect = [i \in 1..Len(fs) |-> EffectOf(d, fs, i, effect)]

LEMMA EffectsExist ==
  ASSUME NEW d, NEW fs, Len(fs) \in Nat
  PROVE  \E effect : AreEffects(d, fs, effect)
<1> DEFINE Good(e, n) == \A i \in 1..n : e[i] = EffectOf(d, fs, i, e)
           S == {n \in Nat : \E e : Good(e, n)}
<1>1. 0 \in S
  OBVIOUS
<1>2. ASSUME NEW n \in Nat, n \in S PROVE n + 1 \in S
  <2>1. PICK e : Good(e, n)
    BY <1>2
  <2> DEFINE x == EffectOf(d, fs, n + 1, e)
             k == [i \in 1..(n + 1) |-> IF i = n + 1 THEN x ELSE e[i]]
  <2>2. (\A i \in 1..n : k[i] = e[i]) /\ k[n + 1] = x
    <3> HIDE DEF x
    <3> QED OBVIOUS
  <2> HIDE DEF k
  <2>3. ASSUME NEW i \in 1..(n + 1) PROVE k[i] = EffectOf(d, fs, i, k)
    <3>1. EffectOf(d, fs, i, k) = EffectOf(d, fs, i, e)
      <4>1. \A j \in 1..(i - 1) : k[j] = e[j]
        BY <2>2
      <4> QED BY <4>1, EffectDepends
    <3>2. CASE i = n + 1
      BY <2>2, <3>1, <3>2
    <3>3. CASE i # n + 1
      <4>1. i \in 1..n
        BY <3>3
      <4> QED BY <2>1, <2>2, <3>1, <4>1
    <3> QED BY <3>2, <3>3
  <2> QED BY <2>3
<1>3. Len(fs) \in S
  <2>1. Nat \subseteq S
    <3> HIDE DEF S
    <3> QED BY <1>1, <1>2, Induction
  <2> QED BY <2>1
<1>4. PICK e : Good(e, Len(fs))
  BY <1>3
<1> DEFINE k == [i \in 1..Len(fs) |-> e[i]]
<1>5. \A i \in 1..Len(fs) : k[i] = e[i]
  OBVIOUS
<1>6. ASSUME NEW i \in 1..Len(fs) PROVE k[i] = EffectOf(d, fs, i, k)
  <2> HIDE DEF k
  <2>1. \A j \in 1..(i - 1) : k[j] = e[j]
    BY <1>5
  <2>2. EffectOf(d, fs, i, k) = EffectOf(d, fs, i, e)
    BY <2>1, EffectDepends
  <2> QED BY <1>4, <1>5, <2>2
<1>7. k = [i \in 1..Len(fs) |-> k[i]]
  OBVIOUS
<1>8. AreEffects(d, fs, k)
  <2> HIDE DEF k
  <2>1. k = [i \in 1..Len(fs) |-> EffectOf(d, fs, i, k)]
    BY <1>6, <1>7
  <2> QED BY <2>1 DEF AreEffects
<1> QED BY <1>8

(* Effects is such a function.                                             *)
LEMMA EffectsAre ==
  ASSUME NEW d, NEW fs, Len(fs) \in Nat
  PROVE  AreEffects(d, fs, Effects(d, fs))
<1> DEFINE those(effect) == AreEffects(d, fs, effect)
<1>1. Effects(d, fs) = CHOOSE effect : those(effect)
  BY Zenon DEF Effects, AreEffects
<1>2. \E effect : those(effect)
  BY EffectsExist
<1>3. those(Effects(d, fs))
  <2> HIDE DEF those
  <2> QED BY <1>1, <1>2
<1> QED BY <1>3

LEMMA EffectIs ==
  ASSUME NEW d, NEW fs, Len(fs) \in Nat, NEW i \in 1..Len(fs)
  PROVE  Effects(d, fs)[i] = EffectOf(d, fs, i, Effects(d, fs))
<1> DEFINE e == Effects(d, fs)
<1>1. e = [j \in 1..Len(fs) |-> EffectOf(d, fs, j, e)]
  BY EffectsAre DEF AreEffects
<1> HIDE DEF e
<1>2. e[i] = EffectOf(d, fs, i, e)
  BY <1>1
<1> QED BY <1>2 DEF e

(* Feature f2 of the part d2 is built as f is in d, if f is built at all.  *)
BuiltAlike(d, d2, f, f2) ==
  /\ f2.kind = f.kind /\ f2.name = f.name /\ f2.off = f.off
  /\ f2.size = f.size
  /\ f.kind # "extrude" => f2.of = f.of
  /\ f.kind = "extrude" =>
       /\ d2.sketches[f2.of] = d.sketches[f.of]
       /\ d.sketches[f.of] # Nothing /\ d.sketches[f.of].sound =>
            SameNumber(d.params, d2.params, d.sketches[f.of].r)
  /\ f.kind \in {"box", "fillet", "extrude"} =>
       SameNumber(d.params, d2.params, f.size)

LEMMA BuiltOfNumbers ==
  ASSUME NEW kind, NEW a, NEW b
  PROVE  /\ Builds(kind, <<a>>) # Refused => a # Unresolved
         /\ Builds(kind, <<a, b>>) # Refused => a # Unresolved /\ b # Unresolved
<1>1. ToSet(<<a>>) = {a}
  BY DEF ToSet
<1>2. ToSet(<<a, b>>) = {a, b}
  BY DEF ToSet
<1>3. Builds(kind, <<a>>) # Refused =>
        ToSet(<<a>>) \cap (Bad \cup {Unresolved}) = {}
  BY Zenon DEF Builds
<1>4. Builds(kind, <<a, b>>) # Refused =>
        ToSet(<<a, b>>) \cap (Bad \cup {Unresolved}) = {}
  BY Zenon DEF Builds
<1> QED BY <1>1, <1>2, <1>3, <1>4

(* The first k features of fs2 add what those of fs do.                    *)
KeepEffects(d, d2, fs, fs2, k) ==
  \A i \in 1..k : Effects(d, fs)[i] # Refused =>
                     Effects(d2, fs2)[i] = Effects(d, fs)[i]

(* The effects of features that are alike are the same.                    *)
LEMMA EffectsKept ==
  ASSUME NEW d, NEW d2, NEW fs \in Seq(FeatureOf), NEW fs2 \in Seq(FeatureOf),
         NEW k \in Nat, k <= Len(fs), k <= Len(fs2),
         \A i \in 1..k : BuiltAlike(d, d2, fs[i], fs2[i])
  PROVE  KeepEffects(d, d2, fs, fs2, k)
<1> DEFINE e == Effects(d, fs)
           e2 == Effects(d2, fs2)
           Good(n) == \A i \in 1..n : e[i] # Refused => e2[i] = e[i]
           T == {n \in Nat : n <= k => Good(n)}
<1>1. \A i \in 1..k : /\ e[i] = EffectOf(d, fs, i, e)
                      /\ e2[i] = EffectOf(d2, fs2, i, e2)
                      /\ fs[i] \in FeatureOf
  BY EffectIs
<1> HIDE DEF e, e2
<1>2. 0 \in T
  OBVIOUS
<1>3. ASSUME NEW n \in Nat, n \in T PROVE n + 1 \in T
  <2> SUFFICES ASSUME n + 1 <= k, e[n + 1] # Refused
               PROVE  e2[n + 1] = e[n + 1]
    BY <1>3
  <2> DEFINE i == n + 1
             f == fs[i]
             f2 == fs2[i]
  <2>1. /\ i \in 1..k /\ BuiltAlike(d, d2, f, f2) /\ f \in FeatureOf
        /\ e[i] = EffectOf(d, fs, i, e) /\ e2[i] = EffectOf(d2, fs2, i, e2)
    BY <1>1
  <2>2. Good(n)
    BY <1>3
  <2>k. f.kind \in {"box", "extrude", "fillet", "pattern", "base", "flange"}
    BY <2>1, PartAssumption DEF FeatureOf
  <2> HIDE DEF i
  <2> USE DEF EffectOf
  <2>3. CASE f.kind = "box"
    <3>1. e[i] = Solid(d.params, f) /\ e2[i] = Solid(d2.params, f2)
      BY <2>1, <2>3 DEF BuiltAlike
    <3>2. ValueOf(d.params, f.size) # Unresolved
      BY <3>1, BuiltOfNumbers DEF Solid, i
    <3> QED BY <2>1, <2>3, <3>1, <3>2 DEF BuiltAlike, SameNumber, Solid, i
  <2>4. CASE f.kind = "fillet"
    <3>1. e[i] = Modified(d.params, f) /\ e2[i] = Modified(d2.params, f2)
      BY <2>1, <2>4 DEF BuiltAlike
    <3>2. ValueOf(d.params, f.size) # Unresolved
      BY <3>1, BuiltOfNumbers DEF Modified, i
    <3> QED BY <2>1, <2>4, <3>1, <3>2 DEF BuiltAlike, SameNumber, Modified, i
  <2>5. CASE f.kind = "extrude"
    <3> DEFINE sketch == d.sketches[f.of]
    <3>1. /\ e[i] = Extruded(d.params, sketch, f)
          /\ e2[i] = Extruded(d2.params, d2.sketches[f2.of], f2)
      BY <2>1, <2>5 DEF BuiltAlike
    <3>2. d2.sketches[f2.of] = sketch /\ f2.size = f.size
      BY <2>1, <2>5 DEF BuiltAlike
    <3>3. /\ sketch # Nothing /\ sketch.sound
          /\ e[i] = Builds("extrude", <<ValueOf(d.params, sketch.r),
                                        ValueOf(d.params, f.size)>>)
          /\ e2[i] = Builds("extrude", <<ValueOf(d2.params, sketch.r),
                                         ValueOf(d2.params, f.size)>>)
      <4> HIDE DEF f, f2, sketch, EffectOf
      <4> QED BY <3>1, <3>2, Zenon DEF Extruded, i
    <3>4. /\ SameNumber(d.params, d2.params, sketch.r)
          /\ SameNumber(d.params, d2.params, f.size)
      BY <2>1, <2>5, <3>3 DEF BuiltAlike
    <3>5. /\ ValueOf(d.params, sketch.r) # Unresolved
          /\ ValueOf(d.params, f.size) # Unresolved
      <4> HIDE DEF f, f2, sketch, EffectOf
      <4> QED BY <3>3, BuiltOfNumbers DEF i
    <3> HIDE DEF f, f2, sketch, EffectOf
    <3> QED BY <3>3, <3>4, <3>5 DEF SameNumber, i
  <2>6. CASE f.kind = "pattern"
    <3> DEFINE source == Named(fs, i, f.of)
    <3>1. f2.kind = "pattern" /\ f2.of = f.of
      BY <2>1, <2>6 DEF BuiltAlike
    <3>2. Named(fs2, i, f.of) = source
      <4>1. \A j \in 1..(i - 1) : fs2[j].name = fs[j].name
        <5>1. \A j \in 1..(i - 1) : j \in 1..k
          BY <2>1
        <5> QED BY <5>1 DEF BuiltAlike
      <4>2. {j \in 1..(i - 1) : fs2[j].name = f.of}
              = {j \in 1..(i - 1) : fs[j].name = f.of}
        <5> HIDE DEF f, f2
        <5> QED BY <4>1
      <4> HIDE DEF f, f2
      <4> QED BY <4>2, Zenon DEF Named
    <3>3. /\ e[i] = IF source = 0 THEN Refused ELSE Patterned(fs, source, e)
          /\ e2[i] = IF source = 0 THEN Refused
                     ELSE Patterned(fs2, source, e2)
      BY <2>1, <2>6, <3>1, <3>2
    <3>4. source # 0 /\ Patterned(fs, source, e) # Refused
      BY <3>3 DEF i
    <3>5. source \in 1..(i - 1) /\ source \in 1..source
      <4>1. source \in 1..(i - 1)
        BY <2>1, <3>4, NamedIs
      <4> QED BY <2>1, <4>1
    <3> HIDE DEF source, f, f2, EffectOf
    <3>6. \A j \in 1..source : \/ j # source /\ fs[j].off
                               \/ e[j] # Refused /\ Stands(fs, j)
      BY <3>4, Zenon DEF Patterned
    <3>7. ASSUME NEW j \in 1..source
          PROVE  /\ fs2[j].off = fs[j].off
                 /\ e[j] # Refused => e2[j] = e[j]
                 /\ Stands(fs, j) => Stands(fs2, j)
      <4>1. j \in 1..n /\ \A x \in 1..j : x \in 1..k
        BY <2>1, <3>5 DEF i
      <4>2. \A x \in 1..j : /\ fs2[x].off = fs[x].off
                            /\ fs2[x].kind = fs[x].kind
                            /\ fs[x].kind # "extrude" => fs2[x].of = fs[x].of
        BY <4>1 DEF BuiltAlike
      <4>3. j \in 1..j /\ \A x \in 1..(j - 1) :
              x \in 1..j /\ \A y \in (x + 1)..(j - 1) : y \in 1..j
        BY <3>5
      <4>4. ASSUME Stands(fs, j) PROVE Stands(fs2, j)
        <5>1. ASSUME fs2[j].kind = "fillet"
              PROVE  \E x \in 1..(j - 1) : ~fs2[x].off
          BY <4>2, <4>3, <4>4, <5>1 DEF Stands
        <5>2. ASSUME fs2[j].kind = "flange"
              PROVE  \E b \in 1..(j - 1) :
                       /\ fs2[b].kind = "base" /\ ~fs2[b].off
                       /\ \A y \in (b + 1)..(j - 1) :
                            fs2[y].kind = "flange" /\ ~fs2[y].off =>
                              fs2[y].of # fs2[j].of
          <6>1. fs[j].kind = "flange" /\ fs2[j].of = fs[j].of
            BY <4>2, <4>3, <5>2
          <6>2. PICK b \in 1..(j - 1) :
                  /\ fs[b].kind = "base" /\ ~fs[b].off
                  /\ \A y \in (b + 1)..(j - 1) :
                       fs[y].kind = "flange" /\ ~fs[y].off =>
                         fs[y].of # fs[j].of
            BY <4>4, <6>1 DEF Stands
          <6>3. fs2[b].kind = "base" /\ ~fs2[b].off
            BY <4>2, <4>3, <6>2
          <6>4. \A y \in (b + 1)..(j - 1) :
                  fs2[y].kind = "flange" /\ ~fs2[y].off =>
                    fs2[y].of # fs2[j].of
            BY <4>2, <4>3, <6>1, <6>2
          <6> QED BY <6>3, <6>4
        <5> QED BY <5>1, <5>2 DEF Stands
      <4> QED BY <2>2, <4>1, <4>2, <4>3, <4>4
    <3>8. \A j \in 1..source : \/ j # source /\ fs2[j].off
                               \/ e2[j] # Refused /\ Stands(fs2, j)
      <4> SUFFICES ASSUME NEW j \in 1..source
                   PROVE  \/ j # source /\ fs2[j].off
                          \/ e2[j] # Refused /\ Stands(fs2, j)
        OBVIOUS
      <4>1. \/ j # source /\ fs[j].off
            \/ e[j] # Refused /\ Stands(fs, j)
        BY <3>6
      <4>2. /\ fs2[j].off = fs[j].off
            /\ e[j] # Refused => e2[j] = e[j]
            /\ Stands(fs, j) => Stands(fs2, j)
        BY <3>7
      <4> HIDE DEF Refused
      <4> QED BY <4>1, <4>2, Zenon
    <3>9. e2[source] = e[source]
      BY <3>5, <3>6, <3>7
    <3>10. Patterned(fs2, source, e2) = Patterned(fs, source, e)
      BY <3>6, <3>8, <3>9, Zenon DEF Patterned
    <3> QED BY <3>3, <3>10 DEF i
  <2>7. CASE f.kind = "base"
    BY <2>1, <2>7 DEF BuiltAlike, i
  <2>8. CASE f.kind = "flange"
    BY <2>1, <2>8 DEF BuiltAlike, i
  <2> HIDE DEF f, f2, EffectOf
  <2> QED BY <2>k, <2>3, <2>4, <2>5, <2>6, <2>7, <2>8
<1>4. Good(k)
  <2>1. Nat \subseteq T
    <3> HIDE DEF T
    <3> QED BY <1>2, <1>3, Induction
  <2> QED BY <2>1
<1> QED BY <1>4 DEF e, e2, KeepEffects

----------------------------------------------------------------------------
(* Replays.                                                                *)

(* One feature more, if the ones before it were built.                     *)
Go(fs, e, n, at) == IF at.ok THEN Apply(fs[n], e[n], at) ELSE at

AreReplays(fs, e, at, now) ==
  now = [n \in Len(at.cache)..Len(fs) |->
           IF n = Len(at.cache) THEN at ELSE Go(fs, e, n, now[n - 1])]

LEMMA ReplaysExist ==
  ASSUME NEW fs, NEW e, NEW at, Len(at.cache) \in Nat, Len(fs) \in Nat
  PROVE  \E now : AreReplays(fs, e, at, now)
<1> DEFINE from == Len(at.cache)
           Good(f, n) == /\ f[from] = at
                         /\ \A i \in (from + 1)..n :
                              f[i] = Go(fs, e, i, f[i - 1])
           S == {n \in Nat : \E f : Good(f, n)}
<1>1. 0 \in S
  <2>1. Good([i \in {from} |-> at], 0)
    OBVIOUS
  <2> QED BY <2>1
<1>2. ASSUME NEW n \in Nat, n \in S PROVE n + 1 \in S
  <2>1. PICK f : Good(f, n)
    BY <1>2
  <2> DEFINE x == IF n + 1 = from THEN at ELSE Go(fs, e, n + 1, f[n])
             k == [i \in Nat |-> IF i = n + 1 THEN x ELSE f[i]]
  <2>2. /\ \A i \in Nat : i # n + 1 => k[i] = f[i]
        /\ k[n + 1] = x
    <3> HIDE DEF x
    <3> QED OBVIOUS
  <2> HIDE DEF k
  <2>3. k[from] = at
    BY <2>1, <2>2
  <2>4. ASSUME NEW i \in (from + 1)..(n + 1)
        PROVE  k[i] = Go(fs, e, i, k[i - 1])
    <3>1. i \in Nat /\ i - 1 \in Nat /\ i - 1 # n + 1
      OBVIOUS
    <3>2. CASE i = n + 1
      BY <2>2, <3>1, <3>2
    <3>3. CASE i # n + 1
      <4>1. i \in (from + 1)..n
        BY <3>3
      <4> QED BY <2>1, <2>2, <3>1, <3>3, <4>1
    <3> QED BY <3>2, <3>3
  <2> QED BY <2>3, <2>4
<1>3. Len(fs) \in S
  <2>1. Nat \subseteq S
    <3> HIDE DEF S
    <3> QED BY <1>1, <1>2, Induction
  <2> QED BY <2>1
<1>4. PICK f : Good(f, Len(fs))
  BY <1>3
<1> DEFINE k == [n \in from..Len(fs) |-> f[n]]
<1>5. \A n \in from..Len(fs) :
        k[n] = IF n = from THEN at ELSE Go(fs, e, n, k[n - 1])
  <2> SUFFICES ASSUME NEW n \in from..Len(fs), n # from
               PROVE  k[n] = Go(fs, e, n, k[n - 1])
    BY <1>4
  <2>1. n \in (from + 1)..Len(fs) /\ n - 1 \in from..Len(fs)
    OBVIOUS
  <2>2. k[n] = f[n] /\ k[n - 1] = f[n - 1]
    BY <2>1
  <2> HIDE DEF k
  <2> QED BY <1>4, <2>1, <2>2
<1>6. k = [n \in from..Len(fs) |-> k[n]]
  OBVIOUS
<1>7. AreReplays(fs, e, at, k)
  <2> HIDE DEF k
  <2>1. k = [n \in from..Len(fs) |->
               IF n = from THEN at ELSE Go(fs, e, n, k[n - 1])]
    BY <1>5, <1>6
  <2> QED BY <2>1 DEF AreReplays
<1> QED BY <1>7

(* What a replay begins with and how it goes on.                           *)
LEMMA ReplaysAre ==
  ASSUME NEW fs, NEW e, NEW at, Len(at.cache) \in Nat, Len(fs) \in Nat,
         Len(at.cache) <= Len(fs)
  PROVE  /\ Replays(fs, e, at)[Len(at.cache)] = at
         /\ \A n \in (Len(at.cache) + 1)..Len(fs) :
              Replays(fs, e, at)[n] = Go(fs, e, n, Replays(fs, e, at)[n - 1])
<1> DEFINE those(now) == AreReplays(fs, e, at, now)
           it == Replays(fs, e, at)
<1>1. it = CHOOSE now : those(now)
  BY Zenon DEF Replays, AreReplays, Go
<1>2. \E now : those(now)
  BY ReplaysExist
<1>3. those(it)
  <2> HIDE DEF those, it
  <2> QED BY <1>1, <1>2
<1> HIDE DEF it
<1>4. it = [n \in Len(at.cache)..Len(fs) |->
              IF n = Len(at.cache) THEN at ELSE Go(fs, e, n, it[n - 1])]
  BY <1>3 DEF AreReplays
<1>5. \A n \in Len(at.cache)..Len(fs) :
        it[n] = IF n = Len(at.cache) THEN at ELSE Go(fs, e, n, it[n - 1])
  BY <1>4
<1> QED BY <1>5 DEF it

(* What is there while features are replayed.                              *)
State(W) ==
  [ok : BOOLEAN, full : BOOLEAN, shape : Seq(W),
   sheet : (SUBSET Edge) \cup {Nothing}, cache : Seq(Seq(W))]

(* The shape is the last one of the cache.                                 *)
Tip(s) == s.shape = IF s.cache = <<>> THEN <<>> ELSE Last(s.cache)

(* The feature is not built on what is there.                              *)
Fails(f, x, s) ==
  /\ ~f.off
  /\ \/ x = Refused
     \/ f.kind = "fillet" /\ s.shape = <<>>
     \/ f.kind = "flange" /\ (s.sheet = Nothing \/ f.of \in s.sheet)

Stopped(s) == [s EXCEPT !.ok = FALSE]

With(f, x, s) == IF f.off THEN s.shape ELSE Append(s.shape, x)

Built(f, x, s) ==
  [ok |-> TRUE, full |-> s.full, shape |-> With(f, x, s),
   sheet |-> IF f.off THEN s.sheet ELSE SheetAfter(f, s.sheet),
   cache |-> Append(s.cache, With(f, x, s))]

LEMMA AppendIs ==
  ASSUME NEW V, NEW s \in Seq(V), NEW x \in V
  PROVE  /\ Append(s, x) \in Seq(V) /\ Append(s, x) # <<>>
         /\ Len(Append(s, x)) = Len(s) + 1
         /\ Last(Append(s, x)) = x
         /\ Append(s, x)[Len(s) + 1] = x
         /\ \A i \in 1..Len(s) : Append(s, x)[i] = s[i]
<1>1. Len(Append(s, x)) = Len(s) + 1 /\ Append(s, x) \in Seq(V)
  OBVIOUS
<1>2. Append(s, x)[Len(s) + 1] = x
  OBVIOUS
<1>3. ASSUME Append(s, x) = <<>> PROVE FALSE
  <2>1. Len(s) \in Nat
    OBVIOUS
  <2>2. Len(<<>>) = 0
    OBVIOUS
  <2> QED BY <1>1, <1>3, <2>1, <2>2
<1> QED BY <1>1, <1>2, <1>3 DEF Last

(* What _apply_feature does, by whether the feature is off, is not built or*)
(* is built.                                                               *)
LEMMA ApplyIs ==
  ASSUME NEW W, NEW f \in FeatureOf, NEW x \in W, NEW s \in State(W), s.ok
  PROVE  /\ Fails(f, x, s) => Apply(f, x, s) = Stopped(s)
         /\ ~Fails(f, x, s) => Apply(f, x, s) = Built(f, x, s)
<1>1. s = [ok |-> TRUE, full |-> s.full, shape |-> s.shape,
           sheet |-> s.sheet, cache |-> s.cache]
  BY DEF State
<1>2. CASE f.off
  <2>1. Apply(f, x, s) = [s EXCEPT !.cache = Append(@, s.shape)]
    BY <1>2, Zenon DEF Apply
  <2>2. ~Fails(f, x, s)
    BY <1>2 DEF Fails
  <2> QED BY <1>1, <1>2, <2>1, <2>2 DEF Built, With
<1>3. CASE ~f.off /\ Fails(f, x, s)
  BY <1>3, Zenon DEF Apply, Fails, Stopped
<1>4. CASE ~f.off /\ ~Fails(f, x, s)
  <2>1. Apply(f, x, s) =
          [s EXCEPT !.shape = Append(@, x), !.sheet = SheetAfter(f, @),
                    !.cache = Append(@, Append(s.shape, x))]
    BY <1>4, Zenon DEF Apply, Fails
  <2> QED BY <1>1, <1>4, <2>1 DEF Built, With
<1> QED BY <1>2, <1>3, <1>4, Zenon

LEMMA ApplyTyped ==
  ASSUME NEW W, NEW f \in FeatureOf, NEW x \in W, NEW s \in State(W), s.ok,
         Tip(s)
  PROVE  /\ Apply(f, x, s) \in State(W) /\ Tip(Apply(f, x, s))
         /\ Apply(f, x, s).full = s.full
<1> DEFINE t == Apply(f, x, s)
           shape == With(f, x, s)
           sheet == IF f.off THEN s.sheet ELSE SheetAfter(f, s.sheet)
<1>1. CASE Fails(f, x, s)
  <2>1. t = Stopped(s)
    BY <1>1, ApplyIs
  <2> HIDE DEF t
  <2>2. t \in State(W) /\ t.full = s.full /\ Tip(t)
    BY <2>1 DEF State, Tip, Stopped
  <2> QED BY <2>2 DEF t
<1>2. CASE ~Fails(f, x, s)
  <2>1. t = [ok |-> TRUE, full |-> s.full, shape |-> shape, sheet |-> sheet,
             cache |-> Append(s.cache, shape)]
    BY <1>2, ApplyIs DEF Built
  <2>2. shape \in Seq(W)
    BY DEF State, With
  <2>3. sheet \in (SUBSET Edge) \cup {Nothing}
    <3>1. f.kind = "flange" /\ ~f.off =>
            s.sheet \in SUBSET Edge /\ f.of \in Edge
      <4>1. f.kind = "flange" => f.of \in Edge
        BY DEF FeatureOf
      <4>2. f.kind = "flange" /\ ~f.off => s.sheet # Nothing
        BY <1>2, Zenon DEF Fails
      <4>3. s.sheet \in (SUBSET Edge) \cup {Nothing}
        BY DEF State
      <4> QED BY <4>1, <4>2, <4>3
    <3> QED BY <3>1 DEF State, SheetAfter
  <2>4. s.cache \in Seq(Seq(W))
    BY DEF State
  <2>5. /\ Append(s.cache, shape) \in Seq(Seq(W))
        /\ Append(s.cache, shape) # <<>>
        /\ Last(Append(s.cache, shape)) = shape
    BY <2>2, <2>4, AppendIs
  <2> HIDE DEF t, shape, sheet
  <2>6. t \in State(W) /\ t.full = s.full
    BY <2>1, <2>2, <2>3, <2>5 DEF State
  <2>7. Tip(t)
    BY <2>1, <2>5 DEF Tip
  <2> QED BY <2>6, <2>7 DEF t
<1> QED BY <1>1, <1>2

(* s is what there is after n features of a replay that began at at.       *)
Reached(fs, e, at, n, s) ==
  /\ Tip(s) /\ s.full = at.full
  /\ Len(s.cache) \in Len(at.cache)..n
  /\ s.ok => Len(s.cache) = n
  /\ \A i \in 1..Len(at.cache) : s.cache[i] = at.cache[i]
  /\ \A i \in (Len(at.cache) + 1)..Len(s.cache) :
       ~fs[i].off => e[i] # Refused /\ Last(s.cache[i]) = e[i]

LEMMA GoReaches ==
  ASSUME NEW W, NEW fs, NEW e, NEW at \in State(W), NEW n \in Nat \ {0},
         n - 1 >= Len(at.cache), fs[n] \in FeatureOf, e[n] \in W,
         NEW s \in State(W), Reached(fs, e, at, n - 1, s)
  PROVE  Go(fs, e, n, s) \in State(W) /\ Reached(fs, e, at, n, Go(fs, e, n, s))
<1> DEFINE t == Go(fs, e, n, s)
<1>0. Len(at.cache) \in Nat /\ Len(s.cache) \in Nat
  BY DEF State
<1>1. CASE ~s.ok
  <2>1. t = s
    BY <1>1 DEF Go
  <2> HIDE DEF t
  <2>2. t \in State(W) /\ Reached(fs, e, at, n, t)
    BY <1>0, <1>1, <2>1 DEF Reached
  <2> QED BY <2>2 DEF t
<1>2. CASE s.ok
  <2>1. t = Apply(fs[n], e[n], s)
    BY <1>2 DEF Go
  <2>2. t \in State(W) /\ Tip(t) /\ t.full = s.full
    BY <1>2, <2>1, ApplyTyped DEF Reached
  <2>3. CASE Fails(fs[n], e[n], s)
    <3>1. t = Stopped(s)
      BY <1>2, <2>1, <2>3, ApplyIs
    <3>2. t.cache = s.cache /\ ~t.ok
      BY <3>1 DEF State, Stopped
    <3> HIDE DEF t
    <3>3. Reached(fs, e, at, n, t)
      BY <1>0, <1>2, <2>2, <3>2 DEF Reached
    <3> QED BY <2>2, <3>3 DEF t
  <2>4. CASE ~Fails(fs[n], e[n], s)
    <3> DEFINE shape == With(fs[n], e[n], s)
    <3>1. t.cache = Append(s.cache, shape)
      <4>1. t = Built(fs[n], e[n], s)
        BY <1>2, <2>1, <2>4, ApplyIs
      <4> HIDE DEF t
      <4> QED BY <4>1 DEF Built
    <3>s. s.shape \in Seq(W) /\ s.cache \in Seq(Seq(W))
      BY DEF State
    <3>2. ~fs[n].off => e[n] # Refused /\ Last(shape) = e[n]
      BY <2>4, <3>s, AppendIs DEF Fails, With
    <3>3. shape \in Seq(W)
      BY DEF State, With
    <3>4. Len(s.cache) = n - 1
      BY <1>2 DEF Reached
    <3> HIDE DEF t, shape
    <3>5. /\ Len(t.cache) = n /\ t.cache[n] = shape
          /\ \A i \in 1..(n - 1) : t.cache[i] = s.cache[i]
      BY <3>s, <3>1, <3>3, <3>4, AppendIs
    <3>6. \A i \in 1..Len(at.cache) : t.cache[i] = at.cache[i]
      BY <1>0, <3>5 DEF Reached
    <3>7. ASSUME NEW i \in (Len(at.cache) + 1)..n, ~fs[i].off
          PROVE  e[i] # Refused /\ Last(t.cache[i]) = e[i]
      <4>1. CASE i = n
        BY <3>2, <3>5, <3>7, <4>1
      <4>2. CASE i # n
        <5>1. i \in 1..(n - 1) /\ i \in (Len(at.cache) + 1)..Len(s.cache)
          BY <1>0, <3>4, <4>2
        <5> QED BY <3>5, <3>7, <5>1 DEF Reached
      <4> QED BY <4>1, <4>2
    <3>8. Reached(fs, e, at, n, t)
      BY <1>0, <2>2, <3>5, <3>6, <3>7 DEF Reached
    <3> QED BY <2>2, <3>8 DEF t
  <2> QED BY <2>3, <2>4
<1> QED BY <1>1, <1>2

(* A replay that can begin.                                                *)
Run(W, fs, e, at) ==
  /\ fs \in Seq(FeatureOf) /\ \A i \in 1..Len(fs) : e[i] \in W
  /\ at \in State(W) /\ at.ok /\ Tip(at) /\ Len(at.cache) <= Len(fs)

LEMMA ReplayReaches ==
  ASSUME NEW W, NEW fs, NEW e, NEW at, Run(W, fs, e, at)
  PROVE  \A n \in Len(at.cache)..Len(fs) :
           /\ Replays(fs, e, at)[n] \in State(W)
           /\ Reached(fs, e, at, n, Replays(fs, e, at)[n])
<1> DEFINE now == Replays(fs, e, at)
           from == Len(at.cache)
           Good(n) == now[n] \in State(W) /\ Reached(fs, e, at, n, now[n])
           T == {n \in Nat : n \in from..Len(fs) => Good(n)}
<1>1. from \in Nat /\ Len(fs) \in Nat /\ from <= Len(fs)
  BY DEF State, Run
<1>2. /\ now[from] = at
      /\ \A n \in (from + 1)..Len(fs) : now[n] = Go(fs, e, n, now[n - 1])
  BY <1>1, ReplaysAre
<1> HIDE DEF now
<1>3. Good(from)
  BY <1>1, <1>2 DEF Reached, Run
<1>4. 0 \in T
  BY <1>1, <1>3
<1>5. ASSUME NEW n \in Nat, n \in T PROVE n + 1 \in T
  <2> SUFFICES ASSUME n + 1 \in from..Len(fs) PROVE Good(n + 1)
    OBVIOUS
  <2>1. CASE n + 1 = from
    BY <1>3, <2>1
  <2>2. CASE n + 1 # from
    <3>1. /\ n \in from..Len(fs) /\ n + 1 \in (from + 1)..Len(fs)
          /\ n + 1 \in Nat \ {0} /\ (n + 1) - 1 = n /\ n >= from
          /\ n + 1 \in 1..Len(fs)
      BY <1>1, <2>2
    <3>2. Good(n)
      BY <1>5, <3>1
    <3>3. now[n + 1] = Go(fs, e, n + 1, now[n])
      BY <1>2, <3>1
    <3>4. fs[n + 1] \in FeatureOf /\ e[n + 1] \in W /\ at \in State(W)
      BY <3>1 DEF Run
    <3> QED BY <3>1, <3>2, <3>3, <3>4, GoReaches
  <2> QED BY <2>1, <2>2
<1>6. Nat \subseteq T
  <2> HIDE DEF T
  <2> QED BY <1>4, <1>5, Induction
<1> QED BY <1>1, <1>6 DEF now

LEMMA ReplayGoes ==
  ASSUME NEW W, NEW fs, NEW e, NEW at, Run(W, fs, e, at)
  PROVE  /\ Len(at.cache) \in Nat /\ Len(fs) \in Nat
         /\ Replays(fs, e, at)[Len(at.cache)] = at
         /\ \A n \in (Len(at.cache) + 1)..Len(fs) :
              Replays(fs, e, at)[n] = Go(fs, e, n, Replays(fs, e, at)[n - 1])
<1>1. Len(at.cache) \in Nat /\ Len(fs) \in Nat /\ Len(at.cache) <= Len(fs)
  BY DEF State, Run
<1> QED BY <1>1, ReplaysAre

(* What may replace a feature without a change of what is built.           *)
SameForReplay(f, x, f2, x2) ==
  /\ f2.off = f.off /\ f2.kind = f.kind
  /\ f.kind = "flange" => f2.of = f.of
  /\ x # Refused => x2 = x

LEMMA GoAgrees ==
  ASSUME NEW W, NEW f \in FeatureOf, NEW f2 \in FeatureOf,
         NEW x \in W, NEW x2 \in W, SameForReplay(f, x, f2, x2),
         NEW s \in State(W), s.ok, Apply(f, x, s).ok
  PROVE  Apply(f2, x2, s) = Apply(f, x, s)
<1>1. ~Fails(f, x, s)
  <2>1. Fails(f, x, s) => Apply(f, x, s) = Stopped(s)
    BY ApplyIs
  <2>2. ~Stopped(s).ok
    BY DEF Stopped, State
  <2> QED BY <2>1, <2>2
<1>2. Apply(f, x, s) = Built(f, x, s)
  BY <1>1, ApplyIs
<1>3. f.off \in BOOLEAN /\ f2.off \in BOOLEAN
  BY DEF FeatureOf
<1>4. CASE f.off
  <2>1. f2.off
    BY <1>3, <1>4, Zenon DEF SameForReplay
  <2>2. ~Fails(f2, x2, s)
    BY <2>1 DEF Fails
  <2>3. Apply(f2, x2, s) = Built(f2, x2, s)
    BY <2>2, ApplyIs
  <2>4. Built(f2, x2, s) = Built(f, x, s)
    BY <1>4, <2>1, Zenon DEF Built, With
  <2> QED BY <1>2, <2>3, <2>4
<1>5. CASE ~f.off
  <2>1. ~f2.off
    BY <1>3, <1>5, Zenon DEF SameForReplay
  <2>2. x # Refused /\ x2 = x
    BY <1>1, <1>5, Zenon DEF Fails, SameForReplay
  <2>3. ~Fails(f2, x2, s)
    <3> HIDE DEF Refused
    <3> QED BY <1>1, <1>5, <2>1, <2>2, Zenon DEF Fails, SameForReplay
  <2>4. Apply(f2, x2, s) = Built(f2, x2, s)
    BY <2>3, ApplyIs
  <2>5. SheetAfter(f2, s.sheet) = SheetAfter(f, s.sheet)
    BY DEF SheetAfter, SameForReplay
  <2>6. Built(f2, x2, s) = Built(f, x, s)
    BY <1>5, <2>1, <2>2, <2>5, Zenon DEF Built, With
  <2> QED BY <1>2, <2>4, <2>6
<1> QED BY <1>4, <1>5

(* Replays of features that are the same up to k are the same up to k, as  *)
(* far as the first gets.                                                  *)
LEMMA ReplaysAgree ==
  ASSUME NEW W, NEW fs, NEW e, NEW fs2, NEW e2, NEW at,
         Run(W, fs, e, at), Run(W, fs2, e2, at),
         NEW k \in Nat, k <= Len(fs), k <= Len(fs2),
         \A i \in (Len(at.cache) + 1)..k :
           SameForReplay(fs[i], e[i], fs2[i], e2[i])
  PROVE  \A n \in Len(at.cache)..k :
           Replays(fs, e, at)[n].ok =>
             Replays(fs2, e2, at)[n] = Replays(fs, e, at)[n]
<1> DEFINE one == Replays(fs, e, at)
           two == Replays(fs2, e2, at)
           from == Len(at.cache)
           T == {n \in Nat : n \in from..k /\ one[n].ok => two[n] = one[n]}
<1>1. /\ from \in Nat /\ one[from] = at /\ two[from] = at
      /\ \A n \in (from + 1)..Len(fs) : one[n] = Go(fs, e, n, one[n - 1])
      /\ \A n \in (from + 1)..Len(fs2) : two[n] = Go(fs2, e2, n, two[n - 1])
  BY ReplayGoes
<1>2. \A n \in from..Len(fs) : one[n] \in State(W)
  BY ReplayReaches
<1>3. Len(fs) \in Nat /\ Len(fs2) \in Nat
  BY DEF Run
<1> HIDE DEF one, two
<1>4. 0 \in T
  BY <1>1
<1>5. ASSUME NEW n \in Nat, n \in T PROVE n + 1 \in T
  <2> SUFFICES ASSUME n + 1 \in from..k, one[n + 1].ok
               PROVE  two[n + 1] = one[n + 1]
    OBVIOUS
  <2>1. CASE n + 1 = from
    BY <1>1, <2>1
  <2>2. CASE n + 1 # from
    <3>1. /\ n \in from..k /\ n \in from..Len(fs)
          /\ n + 1 \in (from + 1)..Len(fs) /\ n + 1 \in (from + 1)..Len(fs2)
          /\ n + 1 \in (from + 1)..k /\ (n + 1) - 1 = n
          /\ n + 1 \in 1..Len(fs) /\ n + 1 \in 1..Len(fs2)
      BY <1>1, <1>3, <2>2
    <3>2. /\ one[n + 1] = Go(fs, e, n + 1, one[n])
          /\ two[n + 1] = Go(fs2, e2, n + 1, two[n])
      BY <1>1, <3>1
    <3>3. one[n].ok
      BY <3>2, Zenon DEF Go
    <3>4. two[n] = one[n]
      BY <1>5, <3>1, <3>3
    <3>5. /\ one[n + 1] = Apply(fs[n + 1], e[n + 1], one[n])
          /\ two[n + 1] = Apply(fs2[n + 1], e2[n + 1], one[n])
      BY <3>2, <3>3, <3>4, Zenon DEF Go
    <3>6. /\ fs[n + 1] \in FeatureOf /\ fs2[n + 1] \in FeatureOf
          /\ e[n + 1] \in W /\ e2[n + 1] \in W /\ one[n] \in State(W)
      BY <1>2, <3>1 DEF Run
    <3>7. SameForReplay(fs[n + 1], e[n + 1], fs2[n + 1], e2[n + 1])
      BY <3>1
    <3>8. Apply(fs[n + 1], e[n + 1], one[n]).ok
      BY <3>5
    <3>9. Apply(fs2[n + 1], e2[n + 1], one[n])
            = Apply(fs[n + 1], e[n + 1], one[n])
      BY <3>3, <3>6, <3>7, <3>8, GoAgrees
    <3> QED BY <3>5, <3>9
  <2> QED BY <2>1, <2>2
<1>6. Nat \subseteq T
  <2> HIDE DEF T
  <2> QED BY <1>4, <1>5, Induction
<1> QED BY <1>1, <1>6 DEF one, two

(* A replay can be taken up where it stands.                               *)
LEMMA ReplayTakenUp ==
  ASSUME NEW W, NEW fs, NEW e, NEW at, Run(W, fs, e, at),
         NEW k \in Len(at.cache)..Len(fs), Replays(fs, e, at)[k].ok
  PROVE  LET s == Replays(fs, e, at)[k] IN
         /\ Run(W, fs, e, s) /\ Len(s.cache) = k
         /\ \A n \in k..Len(fs) :
              Replays(fs, e, s)[n] = Replays(fs, e, at)[n]
<1> DEFINE one == Replays(fs, e, at)
           s == one[k]
           two == Replays(fs, e, s)
           T == {n \in Nat : n \in k..Len(fs) => two[n] = one[n]}
<1>1. s \in State(W) /\ Tip(s) /\ Len(s.cache) = k
  BY ReplayReaches DEF Reached
<1>2. Len(at.cache) \in Nat /\ Len(fs) \in Nat
  BY ReplayGoes
<1>3. Run(W, fs, e, s)
  BY <1>1, <1>2 DEF Run
<1>4. \A n \in (Len(at.cache) + 1)..Len(fs) : one[n] = Go(fs, e, n, one[n - 1])
  BY ReplayGoes
<1>5. /\ two[k] = s
      /\ \A n \in (k + 1)..Len(fs) : two[n] = Go(fs, e, n, two[n - 1])
  BY <1>1, <1>3, ReplayGoes
<1> HIDE DEF one, two
<1>6. 0 \in T
  BY <1>2, <1>5
<1>7. ASSUME NEW n \in Nat, n \in T PROVE n + 1 \in T
  <2> SUFFICES ASSUME n + 1 \in k..Len(fs) PROVE two[n + 1] = one[n + 1]
    OBVIOUS
  <2>1. CASE n + 1 = k
    BY <1>5, <2>1
  <2>2. CASE n + 1 # k
    <3>1. /\ n + 1 \in (k + 1)..Len(fs) /\ n \in k..Len(fs)
          /\ n + 1 \in (Len(at.cache) + 1)..Len(fs) /\ (n + 1) - 1 = n
      BY <1>2, <2>2
    <3> QED BY <1>4, <1>5, <1>7, <3>1
  <2> QED BY <2>1, <2>2
<1>8. Nat \subseteq T
  <2> HIDE DEF T
  <2> QED BY <1>6, <1>7, Induction
<1>9. \A n \in k..Len(fs) : two[n] = one[n]
  BY <1>2, <1>8
<1> QED BY <1>1, <1>3, <1>9 DEF one, two

----------------------------------------------------------------------------
(* The sheet-metal state.                                                  *)

IsBase(fs, b) == fs[b].kind = "base" /\ ~fs[b].off
IsFlange(fs, j) == fs[j].kind = "flange" /\ ~fs[j].off
BaseIn(fs, m, n) == \E b \in (m + 1)..n : IsBase(fs, b)

(* The state that n features stand for: the edges of the flanges on the    *)
(* last base.                                                              *)
FlangesOn(fs, n) == {j \in 1..n : IsFlange(fs, j) /\ ~BaseIn(fs, j, n)}
SheetAt(fs, n) ==
  IF BaseIn(fs, 0, n) THEN {fs[j].of : j \in FlangesOn(fs, n)} ELSE Nothing

(* Each of n flanges finds its edge free.                                  *)
Admits(fs, n) ==
  \A j \in 1..n : IsFlange(fs, j) =>
    SheetAt(fs, j - 1) # Nothing /\ fs[j].of \notin SheetAt(fs, j - 1)

LEMMA SheetBegins ==
  ASSUME NEW fs
  PROVE  SheetAt(fs, 0) = Nothing
BY DEF SheetAt, BaseIn

LEMMA SheetGoes ==
  ASSUME NEW fs, NEW n \in Nat \ {0},
         IsFlange(fs, n) => SheetAt(fs, n - 1) # Nothing
  PROVE  SheetAt(fs, n) = IF fs[n].off THEN SheetAt(fs, n - 1)
                          ELSE SheetAfter(fs[n], SheetAt(fs, n - 1))
<1>1. CASE IsBase(fs, n)
  <2>1. \A j \in 1..n : IsFlange(fs, j) => BaseIn(fs, j, n)
    <3> SUFFICES ASSUME NEW j \in 1..n, IsFlange(fs, j) PROVE BaseIn(fs, j, n)
      OBVIOUS
    <3>1. j # n
      BY <1>1 DEF IsBase, IsFlange
    <3>2. n \in (j + 1)..n
      BY <3>1
    <3> QED BY <1>1, <3>2 DEF BaseIn
  <2>2. FlangesOn(fs, n) = {}
    BY <2>1 DEF FlangesOn
  <2>3. n \in (0 + 1)..n
    OBVIOUS
  <2>4. BaseIn(fs, 0, n)
    BY <1>1, <2>3 DEF BaseIn
  <2>5. SheetAt(fs, n) = {}
    BY <2>2, <2>4 DEF SheetAt
  <2> QED BY <1>1, <2>5 DEF IsBase, SheetAfter
<1>2. CASE ~IsBase(fs, n)
  <2>1. ASSUME NEW m \in 0..(n - 1)
        PROVE  BaseIn(fs, m, n) <=> BaseIn(fs, m, n - 1)
    <3>1. \A b \in (m + 1)..n : b # n => b \in (m + 1)..(n - 1)
      OBVIOUS
    <3>2. \A b \in (m + 1)..(n - 1) : b \in (m + 1)..n
      OBVIOUS
    <3> QED BY <1>2, <3>1, <3>2, Zenon DEF BaseIn
  <2>2. BaseIn(fs, 0, n) <=> BaseIn(fs, 0, n - 1)
    <3>1. 0 \in 0..(n - 1)
      OBVIOUS
    <3> QED BY <2>1, <3>1
  <2>3. ~BaseIn(fs, n, n)
    BY DEF BaseIn
  <2>4. CASE IsFlange(fs, n)
    <3>1. BaseIn(fs, 0, n - 1)
      BY <2>4, Zenon DEF SheetAt
    <3>2. FlangesOn(fs, n) = FlangesOn(fs, n - 1) \cup {n}
      <4>1. \A j \in 1..(n - 1) : j \in 1..n /\ j \in 0..(n - 1)
        OBVIOUS
      <4>2. \A j \in 1..n : j = n \/ j \in 1..(n - 1)
        OBVIOUS
      <4>3. n \in 1..n
        OBVIOUS
      <4> QED BY <2>1, <2>3, <2>4, <4>1, <4>2, <4>3, Zenon DEF FlangesOn
    <3>3. {fs[j].of : j \in FlangesOn(fs, n)}
            = {fs[j].of : j \in FlangesOn(fs, n - 1)} \cup {fs[n].of}
      BY <3>2
    <3>4. SheetAt(fs, n) = SheetAt(fs, n - 1) \cup {fs[n].of}
      BY <2>2, <3>1, <3>3, Zenon DEF SheetAt
    <3> QED BY <2>4, <3>4 DEF IsFlange, SheetAfter
  <2>5. CASE ~IsFlange(fs, n)
    <3>1. FlangesOn(fs, n) = FlangesOn(fs, n - 1)
      <4>1. \A j \in 1..(n - 1) : j \in 1..n /\ j \in 0..(n - 1)
        OBVIOUS
      <4>2. \A j \in 1..n : j = n \/ j \in 1..(n - 1)
        OBVIOUS
      <4> QED BY <2>1, <2>5, <4>1, <4>2, Zenon DEF FlangesOn
    <3>2. SheetAt(fs, n) = SheetAt(fs, n - 1)
      BY <2>2, <3>1, Zenon DEF SheetAt
    <3> QED BY <1>2, <2>5, <3>2 DEF IsFlange, IsBase, SheetAfter
  <2> QED BY <2>4, <2>5
<1> QED BY <1>1, <1>2

(* A replay from nothing has the sheet-metal state its features stand for. *)
LEMMA SheetOfReplay ==
  ASSUME NEW W, NEW fs, NEW e, Run(W, fs, e, Scratch(Nothing))
  PROVE  \A n \in 0..Len(fs) :
           Replays(fs, e, Scratch(Nothing))[n].ok =>
             /\ Replays(fs, e, Scratch(Nothing))[n].sheet = SheetAt(fs, n)
             /\ Admits(fs, n)
<1> DEFINE at == Scratch(Nothing)
           now == Replays(fs, e, at)
           Good(n) == now[n].sheet = SheetAt(fs, n) /\ Admits(fs, n)
           T == {n \in Nat : n <= Len(fs) /\ now[n].ok => Good(n)}
<1>1. Len(at.cache) = 0
  BY DEF Scratch
<1>2. /\ now[0] = at /\ Len(fs) \in Nat
      /\ \A n \in 1..Len(fs) : now[n] = Go(fs, e, n, now[n - 1])
  BY <1>1, ReplayGoes
<1>3. \A n \in 0..Len(fs) : now[n] \in State(W)
  BY <1>1, ReplayReaches
<1>4. 0 \in T
  <2>1. at.sheet = Nothing
    BY DEF Scratch
  <2>2. Admits(fs, 0)
    BY DEF Admits
  <2> QED BY <1>2, <2>1, <2>2, SheetBegins
<1> HIDE DEF now, at
<1>5. ASSUME NEW n \in Nat, n \in T PROVE n + 1 \in T
  <2> SUFFICES ASSUME n + 1 <= Len(fs), now[n + 1].ok
               PROVE  Good(n + 1)
    OBVIOUS
  <2> DEFINE f == fs[n + 1]
             x == e[n + 1]
             s == now[n]
  <2>1. /\ n + 1 \in 1..Len(fs) /\ (n + 1) - 1 = n /\ n \in 0..Len(fs)
        /\ n + 1 \in Nat \ {0}
    BY <1>2
  <2>2. now[n + 1] = Go(fs, e, n + 1, s)
    BY <1>2, <2>1
  <2>3. s.ok
    BY <2>2, Zenon DEF Go
  <2>4. Good(n)
    BY <1>2, <1>5, <2>1, <2>3
  <2>5. f \in FeatureOf /\ x \in W /\ s \in State(W)
    BY <1>3, <2>1 DEF Run
  <2>6. now[n + 1] = Apply(f, x, s)
    BY <2>2, <2>3, Zenon DEF Go
  <2> HIDE DEF f, x, s
  <2>7. ~Fails(f, x, s)
    <3>1. ~Stopped(s).ok
      BY <2>5 DEF Stopped, State
    <3> QED BY <2>3, <2>5, <2>6, <3>1, ApplyIs
  <2>8. now[n + 1] = Built(f, x, s)
    BY <2>3, <2>5, <2>6, <2>7, ApplyIs
  <2>9. now[n + 1].sheet = IF f.off THEN s.sheet ELSE SheetAfter(f, s.sheet)
    BY <2>8 DEF Built
  <2>10. s.sheet = SheetAt(fs, n) /\ Admits(fs, n)
    BY <2>4 DEF s
  <2>11. IsFlange(fs, n + 1) => SheetAt(fs, n) # Nothing
                                /\ fs[n + 1].of \notin SheetAt(fs, n)
    BY <2>7, <2>10, Zenon DEF Fails, IsFlange, f
  <2>12. now[n + 1].sheet = SheetAt(fs, n + 1)
    BY <2>1, <2>9, <2>10, <2>11, SheetGoes DEF f
  <2>13. Admits(fs, n + 1)
    <3>1. \A j \in 1..(n + 1) : j = n + 1 \/ j \in 1..n
      OBVIOUS
    <3> QED BY <2>1, <2>10, <2>11, <3>1 DEF Admits
  <2> QED BY <2>12, <2>13
<1>6. Nat \subseteq T
  <2> HIDE DEF T
  <2> QED BY <1>4, <1>5, Induction
<1> QED BY <1>2, <1>6 DEF now, at

(* Two replays that stand alike but for the sheet-metal state.             *)
Twins(s, t) == s.ok /\ t.ok /\ s.shape = t.shape /\ s.cache = t.cache

LEMMA TwinsGo ==
  ASSUME NEW W, NEW f \in FeatureOf, NEW x \in W,
         NEW s \in State(W), NEW t \in State(W), Twins(s, t),
         Apply(f, x, s).ok,
         f.kind = "flange" /\ ~f.off =>
           t.sheet # Nothing /\ f.of \notin t.sheet
  PROVE  /\ Twins(Apply(f, x, s), Apply(f, x, t))
         /\ f.kind = "flange" /\ ~f.off =>
              s.sheet # Nothing /\ f.of \notin s.sheet
         /\ Apply(f, x, s).sheet = IF f.off THEN s.sheet
                                   ELSE SheetAfter(f, s.sheet)
         /\ Apply(f, x, t).sheet = IF f.off THEN t.sheet
                                   ELSE SheetAfter(f, t.sheet)
<1>1. s.ok /\ t.ok /\ s.shape = t.shape /\ s.cache = t.cache
  BY DEF Twins
<1>2. ~Fails(f, x, s)
  <2>1. ~Stopped(s).ok
    BY DEF Stopped, State
  <2> QED BY <1>1, <2>1, ApplyIs
<1>3. ~Fails(f, x, t)
  <2> HIDE DEF Refused
  <2> QED BY <1>1, <1>2, Zenon DEF Fails
<1>4. Apply(f, x, s) = Built(f, x, s) /\ Apply(f, x, t) = Built(f, x, t)
  BY <1>1, <1>2, <1>3, ApplyIs
<1>5. With(f, x, s) = With(f, x, t)
  BY <1>1, Zenon DEF With
<1>6. f.kind = "flange" /\ ~f.off => s.sheet # Nothing /\ f.of \notin s.sheet
  BY <1>2, Zenon DEF Fails
<1>7. Twins(Built(f, x, s), Built(f, x, t))
  BY <1>1, <1>5 DEF Twins, Built
<1>8. /\ Built(f, x, s).sheet = IF f.off THEN s.sheet
                                ELSE SheetAfter(f, s.sheet)
      /\ Built(f, x, t).sheet = IF f.off THEN t.sheet
                                ELSE SheetAfter(f, t.sheet)
  BY DEF Built
<1> QED BY <1>4, <1>6, <1>7, <1>8

LEMMA BaseGoes ==
  ASSUME NEW fs, NEW m \in Nat, NEW n \in Nat, m <= n
  PROVE  BaseIn(fs, m, n + 1) <=> BaseIn(fs, m, n) \/ IsBase(fs, n + 1)
<1>1. /\ \A b \in (m + 1)..(n + 1) : b = n + 1 \/ b \in (m + 1)..n
      /\ n + 1 \in (m + 1)..(n + 1)
      /\ \A b \in (m + 1)..n : b \in (m + 1)..(n + 1)
  OBVIOUS
<1> QED BY <1>1, Zenon DEF BaseIn

(* An incremental replay that gets to the end has built what a full one    *)
(* builds, if the features before it are built as they were, each flange   *)
(* finds its edge free, and the sheet-metal state is that of all features. *)
LEMMA IncrementalIsFull ==
  ASSUME NEW W, NEW fs, NEW e, NEW at,
         Run(W, fs, e, at), Run(W, fs, e, Scratch(Nothing)),
         Admits(fs, Len(fs)), at.sheet = SheetAt(fs, Len(fs)),
         Twins(at, Replays(fs, e, Scratch(Nothing))[Len(at.cache)]),
         Replay(fs, e, at).ok
  PROVE  LET all == Replay(fs, e, Scratch(Nothing)) IN
         /\ Twins(Replay(fs, e, at), all)
         /\ Replay(fs, e, at).sheet = all.sheet
<1> DEFINE one == Replays(fs, e, at)
           two == Replays(fs, e, Scratch(Nothing))
           k == Len(at.cache)
           N == Len(fs)
           Sheets(n) == /\ BaseIn(fs, k, n) => one[n].sheet = SheetAt(fs, n)
                        /\ ~BaseIn(fs, k, N) => one[n].sheet = at.sheet
           Good(n) == Twins(one[n], two[n]) /\ Sheets(n)
           T == {n \in Nat : n \in k..N /\ one[n].ok => Good(n)}
<1>0. Len(Scratch(Nothing).cache) = 0
  BY DEF Scratch
<1>1. /\ k \in Nat /\ N \in Nat /\ k <= N /\ one[k] = at
      /\ \A n \in (k + 1)..N : one[n] = Go(fs, e, n, one[n - 1])
      /\ \A n \in 1..N : two[n] = Go(fs, e, n, two[n - 1])
  BY <1>0, ReplayGoes DEF Run
<1>2. /\ \A n \in k..N : one[n] \in State(W)
      /\ \A n \in 0..N : two[n] \in State(W)
  BY <1>0, ReplayReaches
<1>3. \A n \in 0..N : two[n].ok => two[n].sheet = SheetAt(fs, n)
  BY SheetOfReplay
<1>4. Twins(at, two[k])
  OBVIOUS
<1>5. one[N].ok /\ Replay(fs, e, at) = one[N]
      /\ Replay(fs, e, Scratch(Nothing)) = two[N]
  BY DEF Replay
<1> HIDE DEF one, two, k
<1>6. Good(k)
  <2>1. ~BaseIn(fs, k, k)
    BY <1>1 DEF BaseIn
  <2> QED BY <1>1, <1>4, <2>1
<1>7. 0 \in T
  BY <1>1, <1>6
<1>8. ASSUME NEW n \in Nat, n \in T PROVE n + 1 \in T
  <2> SUFFICES ASSUME n + 1 \in k..N, one[n + 1].ok
               PROVE  Good(n + 1)
    OBVIOUS
  <2>1. CASE n + 1 = k
    BY <1>6, <2>1
  <2>2. CASE n + 1 # k
    <3> DEFINE f == fs[n + 1]
               x == e[n + 1]
               s == one[n]
               t == two[n]
    <3>1. /\ n + 1 \in (k + 1)..N /\ n + 1 \in 1..N /\ (n + 1) - 1 = n
          /\ n \in k..N /\ n \in 0..N /\ n + 1 \in 0..N /\ k <= n
          /\ n + 1 \in Nat \ {0}
      BY <1>1, <2>2
    <3>2. one[n + 1] = Go(fs, e, n + 1, s) /\ two[n + 1] = Go(fs, e, n + 1, t)
      BY <1>1, <3>1
    <3>3. s.ok
      BY <3>2, Zenon DEF Go
    <3>4. Good(n)
      BY <1>1, <1>8, <3>1, <3>3
    <3>5. Twins(s, t) /\ Sheets(n)
      BY <3>4
    <3>6. t.ok /\ t.sheet = SheetAt(fs, n)
      BY <1>3, <3>1, <3>5 DEF Twins
    <3>7. one[n + 1] = Apply(f, x, s) /\ two[n + 1] = Apply(f, x, t)
      BY <3>2, <3>3, <3>6, Zenon DEF Go
    <3>8. f \in FeatureOf /\ x \in W /\ s \in State(W) /\ t \in State(W)
      BY <1>2, <3>1 DEF Run
    <3>9. IsFlange(fs, n + 1) => SheetAt(fs, n) # Nothing
                                 /\ f.of \notin SheetAt(fs, n)
      BY <3>1 DEF Admits
    <3> HIDE DEF f, x, s, t, Sheets
    <3>10. f.kind = "flange" /\ ~f.off =>
             t.sheet # Nothing /\ f.of \notin t.sheet
      BY <3>6, <3>9 DEF IsFlange, f
    <3>11. /\ Twins(one[n + 1], two[n + 1])
           /\ f.kind = "flange" /\ ~f.off =>
                s.sheet # Nothing /\ f.of \notin s.sheet
           /\ one[n + 1].sheet = IF f.off THEN s.sheet
                                 ELSE SheetAfter(f, s.sheet)
      BY <3>5, <3>7, <3>8, <3>10, TwinsGo
    <3>12. SheetAt(fs, n + 1) = IF f.off THEN SheetAt(fs, n)
                                ELSE SheetAfter(f, SheetAt(fs, n))
      BY <3>1, <3>9, SheetGoes DEF f
    <3>13. ASSUME BaseIn(fs, k, n + 1)
           PROVE  one[n + 1].sheet = SheetAt(fs, n + 1)
      <4>1. CASE BaseIn(fs, k, n)
        <5>1. s.sheet = SheetAt(fs, n)
          BY <3>5, <4>1 DEF Sheets, s
        <5> QED BY <3>11, <3>12, <5>1
      <4>2. CASE IsBase(fs, n + 1)
        BY <3>11, <3>12, <4>2 DEF IsBase, f, SheetAfter
      <4> QED BY <1>1, <3>1, <3>13, <4>1, <4>2, BaseGoes
    <3>14. ASSUME ~BaseIn(fs, k, N) PROVE one[n + 1].sheet = at.sheet
      <4>1. s.sheet = at.sheet
        BY <3>5, <3>14 DEF Sheets, s
      <4>2. ~IsBase(fs, n + 1)
        BY <3>1, <3>14 DEF BaseIn
      <4>3. ~IsFlange(fs, n + 1)
        <5> SUFFICES ASSUME IsFlange(fs, n + 1) PROVE FALSE
          OBVIOUS
        <5>1. BaseIn(fs, 0, n)
          BY <3>9, Zenon DEF SheetAt
        <5>2. \A b \in (0 + 1)..n : b \in (0 + 1)..N
          BY <1>1, <3>1
        <5>3. BaseIn(fs, 0, N)
          BY <5>1, <5>2 DEF BaseIn
        <5>4. \A b \in (n + 1 + 1)..N : b \in (k + 1)..N
          BY <1>1, <3>1
        <5>5. ~BaseIn(fs, n + 1, N)
          BY <3>14, <5>4, Zenon DEF BaseIn
        <5>6. n + 1 \in FlangesOn(fs, N)
          BY <3>1, <5>5 DEF FlangesOn
        <5>7. f.of \in {fs[j].of : j \in FlangesOn(fs, N)}
          BY <5>6 DEF f
        <5>8. f.of \in SheetAt(fs, N)
          BY <5>3, <5>7, Zenon DEF SheetAt
        <5> QED BY <3>11, <4>1, <5>8 DEF IsFlange, f
      <4>4. f.off \in BOOLEAN
        BY <3>8 DEF FeatureOf
      <4> QED BY <3>11, <4>1, <4>2, <4>3, <4>4
               DEF IsBase, IsFlange, f, SheetAfter
    <3> QED BY <3>11, <3>13, <3>14 DEF Sheets
  <2> QED BY <2>1, <2>2
<1>9. Good(N)
  <2>1. Nat \subseteq T
    <3> HIDE DEF T
    <3> QED BY <1>7, <1>8, Induction
  <2> QED BY <1>1, <1>5, <2>1
<1>10. two[N].ok /\ two[N].sheet = SheetAt(fs, N)
  BY <1>1, <1>3, <1>9 DEF Twins
<1>11. one[N].sheet = SheetAt(fs, N)
  BY <1>9
<1> QED BY <1>5, <1>9, <1>10, <1>11

LEMMA SameState ==
  ASSUME NEW W, NEW s \in State(W), NEW t \in State(W), Twins(s, t),
         s.sheet = t.sheet, s.full = t.full
  PROVE  s = t
<1>1. /\ s = [ok |-> s.ok, full |-> s.full, shape |-> s.shape,
              sheet |-> s.sheet, cache |-> s.cache]
      /\ t = [ok |-> t.ok, full |-> t.full, shape |-> t.shape,
              sheet |-> t.sheet, cache |-> t.cache]
  BY DEF State
<1>2. s.ok = TRUE /\ t.ok = TRUE
  BY DEF State, Twins
<1> QED BY <1>1, <1>2 DEF Twins

LEMMA ScratchRuns ==
  ASSUME NEW W, NEW fs \in Seq(FeatureOf), NEW e,
         \A i \in 1..Len(fs) : e[i] \in W,
         NEW sheet \in (SUBSET Edge) \cup {Nothing}
  PROVE  /\ Run(W, fs, e, Scratch(sheet)) /\ Len(Scratch(sheet).cache) = 0
         /\ Len(fs) \in Nat
<1>1. Len(fs) \in Nat
  OBVIOUS
<1>2. <<>> \in Seq(W) /\ <<>> \in Seq(Seq(W)) /\ Len(<<>>) = 0
  OBVIOUS
<1>3. /\ Scratch(sheet) \in State(W) /\ Tip(Scratch(sheet))
      /\ Scratch(sheet).ok /\ Scratch(sheet).cache = <<>>
  BY <1>2 DEF Scratch, State, Tip
<1> QED BY <1>1, <1>2, <1>3 DEF Run

(* Where all features are built from nothing, they are so from the sheet-  *)
(* metal state that they make: what is loaded is what was saved.           *)
LEMMA LoadsAsReplayed ==
  ASSUME NEW W, NEW fs \in Seq(FeatureOf), NEW e,
         \A i \in 1..Len(fs) : e[i] \in W,
         NEW sheet \in (SUBSET Edge) \cup {Nothing},
         Replay(fs, e, Scratch(Nothing)).ok,
         Replay(fs, e, Scratch(Nothing)).sheet = sheet
  PROVE  Replay(fs, e, Scratch(sheet)) = Replay(fs, e, Scratch(Nothing))
<1> DEFINE one == Replays(fs, e, Scratch(sheet))
           two == Replays(fs, e, Scratch(Nothing))
           N == Len(fs)
           Sheets(n) == IF BaseIn(fs, 0, n) THEN one[n].sheet = SheetAt(fs, n)
                        ELSE one[n].sheet = sheet
           Good(n) == Twins(two[n], one[n]) /\ Sheets(n)
           T == {n \in Nat : n <= N /\ two[n].ok => Good(n)}
<1>0. /\ Run(W, fs, e, Scratch(sheet)) /\ Run(W, fs, e, Scratch(Nothing))
      /\ Len(Scratch(sheet).cache) = 0 /\ Len(Scratch(Nothing).cache) = 0
      /\ N \in Nat
  BY ScratchRuns
<1>1. /\ one[0] = Scratch(sheet) /\ two[0] = Scratch(Nothing)
      /\ \A n \in 1..N : one[n] = Go(fs, e, n, one[n - 1])
      /\ \A n \in 1..N : two[n] = Go(fs, e, n, two[n - 1])
  BY <1>0, ReplayGoes
<1>2. /\ \A n \in 0..N : one[n] \in State(W) /\ one[n].full = TRUE
      /\ \A n \in 0..N : two[n] \in State(W) /\ two[n].full = TRUE
  BY <1>0, ReplayReaches DEF Reached, Scratch
<1>3. \A n \in 0..N : two[n].ok =>
        two[n].sheet = SheetAt(fs, n) /\ Admits(fs, n)
  BY <1>0, SheetOfReplay
<1>4. /\ Replay(fs, e, Scratch(sheet)) = one[N]
      /\ Replay(fs, e, Scratch(Nothing)) = two[N]
      /\ two[N].ok /\ two[N].sheet = sheet
  BY DEF Replay
<1>5. Good(0)
  BY <1>1 DEF Scratch, Twins, BaseIn
<1> HIDE DEF one, two
<1>6. 0 \in T
  BY <1>5
<1>7. ASSUME NEW n \in Nat, n \in T PROVE n + 1 \in T
  <2> SUFFICES ASSUME n + 1 <= N, two[n + 1].ok PROVE Good(n + 1)
    OBVIOUS
  <2> DEFINE f == fs[n + 1]
             x == e[n + 1]
             s == two[n]
             t == one[n]
  <2>1. /\ n + 1 \in 1..N /\ (n + 1) - 1 = n /\ n \in 0..N /\ n + 1 \in 0..N
        /\ n + 1 \in Nat \ {0}
    BY <1>0
  <2>2. two[n + 1] = Go(fs, e, n + 1, s) /\ one[n + 1] = Go(fs, e, n + 1, t)
    BY <1>1, <2>1
  <2>3. s.ok
    BY <2>2, Zenon DEF Go
  <2>4. Twins(s, t) /\ Sheets(n)
    BY <1>0, <1>7, <2>1, <2>3
  <2>5. t.ok /\ s.sheet = SheetAt(fs, n)
    BY <1>3, <2>1, <2>3, <2>4 DEF Twins
  <2>6. two[n + 1] = Apply(f, x, s) /\ one[n + 1] = Apply(f, x, t)
    BY <2>2, <2>3, <2>5, Zenon DEF Go
  <2>7. f \in FeatureOf /\ x \in W /\ s \in State(W) /\ t \in State(W)
    BY <1>2, <2>1
  <2>8. IsFlange(fs, n + 1) => SheetAt(fs, n) # Nothing
                               /\ f.of \notin SheetAt(fs, n)
    BY <1>3, <2>1 DEF Admits
  <2> HIDE DEF f, x, s, t, Sheets
  <2>9. IsFlange(fs, n + 1) => BaseIn(fs, 0, n)
    BY <2>8, Zenon DEF SheetAt
  <2>10. f.kind = "flange" /\ ~f.off =>
           t.sheet # Nothing /\ f.of \notin t.sheet
    BY <2>4, <2>8, <2>9 DEF IsFlange, f, Sheets, t
  <2>11. /\ Twins(two[n + 1], one[n + 1])
         /\ one[n + 1].sheet = IF f.off THEN t.sheet
                               ELSE SheetAfter(f, t.sheet)
    BY <2>4, <2>6, <2>7, <2>10, TwinsGo
  <2>12. SheetAt(fs, n + 1) = IF f.off THEN SheetAt(fs, n)
                              ELSE SheetAfter(f, SheetAt(fs, n))
    BY <2>1, <2>8, SheetGoes DEF f
  <2>13. BaseIn(fs, 0, n + 1) <=> BaseIn(fs, 0, n) \/ IsBase(fs, n + 1)
    BY BaseGoes
  <2>14. CASE BaseIn(fs, 0, n)
    <3>1. t.sheet = SheetAt(fs, n)
      BY <2>4, <2>14 DEF Sheets, t
    <3> QED BY <2>11, <2>12, <2>13, <2>14, <3>1 DEF Sheets
  <2>15. CASE IsBase(fs, n + 1)
    BY <2>11, <2>12, <2>13, <2>15 DEF IsBase, f, SheetAfter, Sheets
  <2>16. CASE ~BaseIn(fs, 0, n) /\ ~IsBase(fs, n + 1)
    <3>1. t.sheet = sheet
      BY <2>4, <2>16 DEF Sheets, t
    <3>2. ~IsFlange(fs, n + 1)
      BY <2>9, <2>16
    <3>3. f.off \in BOOLEAN
      BY <2>7 DEF FeatureOf
    <3>4. one[n + 1].sheet = sheet
      BY <2>11, <2>16, <3>1, <3>2, <3>3
         DEF IsBase, IsFlange, f, SheetAfter
    <3> QED BY <2>11, <2>13, <2>16, <3>4 DEF Sheets
  <2> QED BY <2>14, <2>15, <2>16
<1>8. Good(N)
  <2>1. Nat \subseteq T
    <3> HIDE DEF T
    <3> QED BY <1>6, <1>7, Induction
  <2> QED BY <1>0, <1>4, <2>1
<1>9. one[N].sheet = two[N].sheet
  <2>1. two[N].sheet = SheetAt(fs, N)
    BY <1>0, <1>3, <1>4
  <2> QED BY <1>4, <1>8, <2>1
<1>10. N \in 0..N
  BY <1>0
<1> HIDE DEF N
<1>11. two[N] = one[N]
  BY <1>2, <1>8, <1>9, <1>10, SameState
<1> QED BY <1>4, <1>11

----------------------------------------------------------------------------
(* Parts.                                                                  *)

SketchOf ==
  {s \in [r : Expr \cup {Nothing}, sound : BOOLEAN] :
     s.sound => s.r # Nothing}

(* The types of a part whose shapes are built of the effects of W.         *)
PartOf(W) ==
  [params : Params, sketches : [Sketch -> SketchOf \cup {Nothing}],
   features : Seq(FeatureOf), shape : Seq(W), cache : Seq(Seq(W)),
   sheet : (SUBSET Edge) \cup {Nothing}]

(* What features name is there.                                            *)
Refs(d, fs) ==
  /\ \A i \in 1..Len(fs) :
       fs[i].size \in Param => d.params[fs[i].size] # Nothing
  /\ \A i \in 1..Len(fs) :
       fs[i].kind = "extrude" => d.sketches[fs[i].of] # Nothing
  /\ \A s \in Sketch :
       d.sketches[s] # Nothing /\ d.sketches[s].r \in Param =>
         d.params[d.sketches[s].r] # Nothing

(* A pattern has its source before it.                                     *)
SourceStands(fs, i) ==
  fs[i].kind = "pattern" /\ ~fs[i].off =>
    \E j \in 1..(i - 1) : fs[j].name = fs[i].of

(* What is true of a part whatever happened to it.                         *)
Whole(d) ==
  /\ \E W : d \in PartOf(W)
  /\ Len(d.features) <= MaxFeatures
  /\ Len(d.cache) = Len(d.features) /\ Tip(d)
  /\ Refs(d, d.features)
  /\ \A i \in 1..Len(d.features) : SourceStands(d.features, i)

(* The part is what its features are replayed to from nothing.             *)
History(d) ==
  Replay(d.features, Effects(d, d.features), Scratch(Nothing)) =
    [ok |-> TRUE, full |-> TRUE, shape |-> d.shape, sheet |-> d.sheet,
     cache |-> d.cache]

LEMMA SeqOfMore ==
  ASSUME NEW V, NEW V2, V \subseteq V2
  PROVE  Seq(V) \subseteq Seq(V2)
<1> SUFFICES ASSUME NEW s \in Seq(V) PROVE s \in Seq(V2)
  OBVIOUS
<1>1. Len(s) \in Nat /\ \A i \in 1..Len(s) : s[i] \in V2
  OBVIOUS
<1>2. s = [i \in 1..Len(s) |-> s[i]]
  OBVIOUS
<1> QED BY <1>1, <1>2

LEMMA PartOfMore ==
  ASSUME NEW W, NEW d \in PartOf(W), NEW X
  PROVE  \E V : d \in PartOf(V) /\ X \subseteq V
<1> DEFINE V == W \cup X
<1>1. Seq(W) \subseteq Seq(V)
  BY SeqOfMore
<1>2. Seq(Seq(W)) \subseteq Seq(Seq(V))
  <2> HIDE DEF V
  <2> QED BY <1>1, SeqOfMore
<1> HIDE DEF V
<1>3. d \in PartOf(V)
  BY <1>1, <1>2 DEF PartOf
<1> QED BY <1>3 DEF V

(* The effects are those of the parameters and sketches.                   *)
LEMMA EffectsOfSame ==
  ASSUME NEW d, NEW d2, NEW fs, Len(fs) \in Nat,
         d2.params = d.params, d2.sketches = d.sketches
  PROVE  Effects(d2, fs) = Effects(d, fs)
<1> DEFINE a == Effects(d, fs)
           b == Effects(d2, fs)
           T == {n \in Nat : \A i \in 1..n : i <= Len(fs) => b[i] = a[i]}
<1>1. \A i, e : EffectOf(d2, fs, i, e) = EffectOf(d, fs, i, e)
  BY Zenon DEF EffectOf
<1>2. \A i \in 1..Len(fs) : /\ a[i] = EffectOf(d, fs, i, a)
                            /\ b[i] = EffectOf(d, fs, i, b)
  BY <1>1, EffectIs
<1>3. a = [i \in 1..Len(fs) |-> a[i]] /\ b = [i \in 1..Len(fs) |-> b[i]]
  <2>1. AreEffects(d, fs, a) /\ AreEffects(d2, fs, b)
    BY EffectsAre
  <2> HIDE DEF a, b
  <2> QED BY <2>1 DEF AreEffects
<1> HIDE DEF a, b
<1>4. 0 \in T
  OBVIOUS
<1>5. ASSUME NEW n \in Nat, n \in T PROVE n + 1 \in T
  <2> SUFFICES ASSUME n + 1 <= Len(fs) PROVE b[n + 1] = a[n + 1]
    BY <1>5
  <2>1. n + 1 \in 1..Len(fs) /\ \A j \in 1..(n + 1 - 1) : b[j] = a[j]
    BY <1>5
  <2>2. EffectOf(d, fs, n + 1, b) = EffectOf(d, fs, n + 1, a)
    BY <2>1, EffectDepends
  <2> QED BY <1>2, <2>1, <2>2
<1>6. Nat \subseteq T
  <2> HIDE DEF T
  <2> QED BY <1>4, <1>5, Induction
<1>7. \A i \in 1..Len(fs) : b[i] = a[i]
  <2>1. Len(fs) \in T
    BY <1>6
  <2> QED BY <2>1
<1> QED BY <1>3, <1>7 DEF a, b

LEMMA OkBefore ==
  ASSUME NEW W, NEW fs, NEW e, NEW at, Run(W, fs, e, at),
         NEW n \in Len(at.cache)..Len(fs), Replays(fs, e, at)[n].ok,
         NEW m \in Len(at.cache)..n
  PROVE  Replays(fs, e, at)[m].ok
<1> DEFINE now == Replays(fs, e, at)
           T == {k \in Nat : k <= n - m => now[n - k].ok}
<1>1. /\ Len(at.cache) \in Nat /\ Len(fs) \in Nat
      /\ \A k \in (Len(at.cache) + 1)..Len(fs) :
           now[k] = Go(fs, e, k, now[k - 1])
  BY ReplayGoes
<1>2. now[n].ok
  OBVIOUS
<1> HIDE DEF now
<1>3. 0 \in T
  BY <1>1, <1>2
<1>4. ASSUME NEW k \in Nat, k \in T PROVE k + 1 \in T
  <2> SUFFICES ASSUME k + 1 <= n - m PROVE now[n - (k + 1)].ok
    OBVIOUS
  <2>1. /\ n - k \in (Len(at.cache) + 1)..Len(fs)
        /\ (n - k) - 1 = n - (k + 1) /\ k <= n - m
    BY <1>1
  <2>2. now[n - k].ok
    BY <1>4, <2>1
  <2>3. now[n - k] = Go(fs, e, n - k, now[n - (k + 1)])
    BY <1>1, <2>1
  <2> QED BY <2>2, <2>3, Zenon DEF Go
<1>5. Nat \subseteq T
  <2> HIDE DEF T
  <2> QED BY <1>3, <1>4, Induction
<1>6. n - m \in Nat /\ n - (n - m) = m /\ n - m <= n - m
  BY <1>1
<1>7. n - m \in T
  <2> HIDE DEF T
  <2> QED BY <1>5, <1>6
<1>8. now[n - (n - m)].ok
  BY <1>6, <1>7
<1> QED BY <1>6, <1>8 DEF now

LEMMA OnceRuns ==
  ASSUME NEW W, NEW d \in PartOf(W), NEW fs \in Seq(FeatureOf),
         NEW start \in 0..Len(fs),
         \A i \in 1..Len(fs) : Effects(d, fs)[i] \in W
  PROVE  LET at == ReplayFrom(d, start) IN
         /\ Run(W, fs, Effects(d, fs), at)
         /\ Len(at.cache) \in 0..start
         /\ IF start > 0 /\ Len(d.cache) >= start
            THEN /\ at.full = FALSE /\ at.shape = d.cache[start]
                 /\ at.sheet = d.sheet /\ Len(at.cache) = start
                 /\ \A i \in 1..start : at.cache[i] = d.cache[i]
            ELSE at = Scratch(Nothing)
<1> DEFINE at == ReplayFrom(d, start)
<1>0. Len(fs) \in Nat /\ start \in Nat /\ start <= Len(fs)
  OBVIOUS
<1>1. CASE start > 0 /\ Len(d.cache) >= start
  <2>1. d.cache \in Seq(Seq(W)) /\ d.sheet \in (SUBSET Edge) \cup {Nothing}
    BY DEF PartOf
  <2>2. d.cache[start] \in Seq(W)
    BY <1>0, <1>1, <2>1
  <2> DEFINE cache == SubSeq(d.cache, 1, start)
  <2>3. /\ cache \in Seq(Seq(W)) /\ Len(cache) = start
        /\ \A i \in 1..start : cache[i] = d.cache[i]
    BY <1>0, <1>1, <2>1
  <2>4. at = [ok |-> TRUE, full |-> FALSE, shape |-> d.cache[start],
              sheet |-> d.sheet, cache |-> cache]
    BY <1>1 DEF ReplayFrom
  <2> HIDE DEF cache, at
  <2>5. cache # <<>> /\ Last(cache) = d.cache[start]
    <3>1. Len(<<>>) = 0
      OBVIOUS
    <3> QED BY <1>0, <1>1, <2>3, <3>1 DEF Last
  <2>6. at \in State(W)
    BY <2>1, <2>2, <2>3, <2>4 DEF State
  <2>7. Tip(at)
    BY <2>4, <2>5 DEF Tip
  <2>8. at.ok /\ Len(at.cache) <= Len(fs)
    BY <1>0, <2>3, <2>4
  <2>9. Run(W, fs, Effects(d, fs), at)
    BY <2>6, <2>7, <2>8 DEF Run
  <2>10. /\ at.full = FALSE /\ at.shape = d.cache[start]
         /\ at.sheet = d.sheet /\ Len(at.cache) = start
         /\ \A i \in 1..start : at.cache[i] = d.cache[i]
    BY <2>3, <2>4
  <2> QED BY <1>0, <1>1, <2>9, <2>10 DEF at
<1>2. CASE ~(start > 0 /\ Len(d.cache) >= start)
  <2>1. at = Scratch(Nothing)
    BY <1>2, Zenon DEF ReplayFrom
  <2>2. /\ Run(W, fs, Effects(d, fs), Scratch(Nothing))
        /\ Len(Scratch(Nothing).cache) = 0
    BY ScratchRuns
  <2> HIDE DEF at
  <2> QED BY <1>0, <1>2, <2>1, <2>2 DEF at
<1> QED BY <1>1, <1>2

(* What an effect says of the feature that has it.                         *)
LEMMA PatternFound ==
  ASSUME NEW d, NEW fs, Len(fs) \in Nat, NEW i \in 1..Len(fs),
         Effects(d, fs)[i] # Refused
  PROVE  SourceStands(fs, i)
<1>1. Effects(d, fs)[i] = EffectOf(d, fs, i, Effects(d, fs))
  BY EffectIs
<1>2. fs[i].kind = "pattern" => Named(fs, i, fs[i].of) # 0
  <2> SUFFICES ASSUME fs[i].kind = "pattern", Named(fs, i, fs[i].of) = 0
               PROVE  EffectOf(d, fs, i, Effects(d, fs)) = Refused
    BY <1>1
  <2> HIDE DEF Refused
  <2> QED BY SMT DEF EffectOf
<1> QED BY <1>2, NamedIs DEF SourceStands

(* What an attempt at a replay comes to.                                   *)
Sound(r, d, fs, start) ==
  /\ Whole(r.d) /\ r.ok \in BOOLEAN /\ r.full \in BOOLEAN
  /\ r.d.params = d.params /\ r.d.sketches = d.sketches
  /\ r.ok => r.d.features = fs
  /\ r.ok => \A i \in 1..Len(fs) : i > start /\ ~fs[i].off =>
               Last(r.d.cache[i]) = Effects(r.d, fs)[i]
  /\ r.ok /\ r.full => History(r.d)
  /\ start = 0 => r.full
  /\ r = [ok |-> r.ok, full |-> r.full, d |-> r.d]

LEMMA OnceSound ==
  ASSUME NEW W0, NEW d \in PartOf(W0), NEW fs \in Seq(FeatureOf),
         Len(fs) <= MaxFeatures, Refs(d, fs), NEW start \in 0..Len(fs),
         \A i \in 1..start : SourceStands(fs, i)
  PROVE  Sound(RebuildOnce(d, fs, start), d, fs, start)
<1> DEFINE e == Effects(d, fs)
           at == ReplayFrom(d, start)
           end == Replay(fs, e, at)
           r == RebuildOnce(d, fs, start)
           k == Len(end.cache)
           new == SubSeq(fs, 1, k)
<1>1. PICK W : d \in PartOf(W) /\ {e[i] : i \in 1..Len(fs)} \subseteq W
  BY PartOfMore
<1>2. \A i \in 1..Len(fs) : e[i] \in W
  BY <1>1
<1>3. Len(fs) \in Nat /\ start \in Nat /\ start <= Len(fs)
  OBVIOUS
<1>4. /\ Run(W, fs, e, at) /\ Len(at.cache) \in 0..start
      /\ at.full => at = Scratch(Nothing)
      /\ start = 0 => at = Scratch(Nothing)
  <2>1. /\ Run(W, fs, e, at) /\ Len(at.cache) \in 0..start
        /\ IF start > 0 /\ Len(d.cache) >= start THEN at.full = FALSE
           ELSE at = Scratch(Nothing)
    BY <1>1, <1>2, OnceRuns
  <2> HIDE DEF at, e
  <2> QED BY <1>3, <2>1
<1>5. end \in State(W) /\ Reached(fs, e, at, Len(fs), end)
  BY <1>3, <1>4, ReplayReaches DEF Replay
<1>6. /\ r.ok = end.ok /\ r.full = end.full
      /\ r.d = [d EXCEPT !.features = new, !.shape = end.shape,
                         !.sheet = end.sheet, !.cache = end.cache]
      /\ r = [ok |-> r.ok, full |-> r.full, d |-> r.d]
  BY DEF RebuildOnce, Replayed
<1> HIDE DEF at, e
<1>t. end.ok \in BOOLEAN /\ end.full = at.full /\ at.full \in BOOLEAN
  BY <1>4, <1>5 DEF State, Reached, Run
<1>7. /\ k \in 0..Len(fs) /\ Len(at.cache) <= k /\ (end.ok => k = Len(fs))
      /\ Tip(end)
  BY <1>3, <1>4, <1>5 DEF Reached
<1> HIDE DEF r, end
<1>8. /\ new \in Seq(FeatureOf) /\ Len(new) = k
      /\ \A i \in 1..k : new[i] = fs[i]
      /\ k = Len(fs) => new = fs
  BY <1>7
<1> HIDE DEF new, k
<1>9. r.d = [params |-> d.params, sketches |-> d.sketches, features |-> new,
             shape |-> end.shape, cache |-> end.cache, sheet |-> end.sheet]
  BY <1>1, <1>6 DEF PartOf
<1>10. r.d \in PartOf(W)
  BY <1>1, <1>5, <1>8, <1>9 DEF PartOf, State
<1>11. /\ r.d.params = d.params /\ r.d.sketches = d.sketches
       /\ r.d.features = new /\ r.d.shape = end.shape
       /\ r.d.cache = end.cache /\ r.d.sheet = end.sheet
  BY <1>9
<1>12. Effects(r.d, fs) = e
  BY <1>3, <1>11, EffectsOfSame DEF e
<1>13. Refs(r.d, new)
  <2>1. \A i \in 1..k : i \in 1..Len(fs)
    BY <1>3, <1>7
  <2> QED BY <1>8, <1>11, <2>1 DEF Refs
<1>14. ASSUME NEW i \in 1..k PROVE SourceStands(new, i)
  <2>1. i \in 1..Len(fs) /\ \A j \in 1..(i - 1) : j \in 1..k
    BY <1>3, <1>7
  <2>2. SourceStands(fs, i)
    <3>1. CASE i <= start
      BY <3>1
    <3>2. CASE i > start /\ fs[i].off
      BY <3>2 DEF SourceStands
    <3>3. CASE i > start /\ ~fs[i].off
      <4>1. i \in (Len(at.cache) + 1)..Len(end.cache)
        BY <1>3, <1>4, <1>7, <3>3 DEF k
      <4>2. e[i] # Refused
        BY <1>5, <3>3, <4>1 DEF Reached
      <4> QED BY <1>3, <2>1, <4>2, PatternFound DEF e
    <3> QED BY <1>3, <3>1, <3>2, <3>3
  <2> QED BY <1>8, <2>1, <2>2 DEF SourceStands
<1>15. Whole(r.d)
  <2>1. Len(r.d.features) <= MaxFeatures
    BY <1>3, <1>7, <1>8, <1>11, PartAssumption
  <2>2. Len(r.d.cache) = Len(r.d.features)
    BY <1>8, <1>11 DEF k
  <2>3. Tip(r.d)
    BY <1>7, <1>11 DEF Tip
  <2>4. Refs(r.d, r.d.features)
    BY <1>11, <1>13
  <2>5. \A i \in 1..Len(r.d.features) : SourceStands(r.d.features, i)
    BY <1>8, <1>11, <1>14
  <2> QED BY <1>10, <2>1, <2>2, <2>3, <2>4, <2>5 DEF Whole
<1>16. r.ok => r.d.features = fs
  BY <1>6, <1>7, <1>8, <1>11
<1>17. ASSUME r.ok, NEW i \in 1..Len(fs), i > start, ~fs[i].off
       PROVE  Last(r.d.cache[i]) = Effects(r.d, fs)[i]
  <2>1. i \in (Len(at.cache) + 1)..Len(end.cache)
    BY <1>3, <1>4, <1>6, <1>7, <1>17 DEF k
  <2> QED BY <1>5, <1>11, <1>12, <1>17, <2>1 DEF Reached
<1>18. ASSUME r.ok, r.full PROVE History(r.d)
  <2>1. at = Scratch(Nothing)
    BY <1>4, <1>6, <1>18, <1>t
  <2>2. Effects(r.d, r.d.features) = e /\ r.d.features = fs
    BY <1>12, <1>16, <1>18
  <2>3. Replay(r.d.features, Effects(r.d, r.d.features), Scratch(Nothing))
          = end
    BY <2>1, <2>2 DEF end
  <2>4. end = [ok |-> end.ok, full |-> end.full, shape |-> end.shape,
               sheet |-> end.sheet, cache |-> end.cache]
    BY <1>5 DEF State
  <2>5. end.ok = TRUE /\ end.full = TRUE
    BY <1>6, <1>18, <1>t
  <2> QED BY <1>11, <2>3, <2>4, <2>5 DEF History
<1>19. start = 0 => r.full
  <2>1. Scratch(Nothing).full
    BY DEF Scratch
  <2> QED BY <1>4, <1>6, <1>t, <2>1
<1>20. r.ok \in BOOLEAN /\ r.full \in BOOLEAN
  BY <1>6, <1>t
<1>21. Sound(r, d, fs, start)
  BY <1>6, <1>11, <1>15, <1>16, <1>17, <1>18, <1>19, <1>20 DEF Sound
<1> QED BY <1>21 DEF r

LEMMA RebuildSound ==
  ASSUME NEW d, \E W0 : d \in PartOf(W0), NEW fs \in Seq(FeatureOf),
         Len(fs) <= MaxFeatures, Refs(d, fs), NEW start \in Nat,
         \A i \in 1..Len(fs) : i <= start => SourceStands(fs, i)
  PROVE  Sound(Rebuild(d, fs, start), d, fs, start)
<1> DEFINE from == IF start < Len(fs) THEN start ELSE Len(fs)
           first == RebuildOnce(d, fs, from)
           again == RebuildOnce(first.d, fs, 0)
           r == Rebuild(d, fs, start)
<1>1. /\ from \in 0..Len(fs) /\ Len(fs) \in Nat
      /\ \A i \in 1..from : i \in 1..Len(fs) /\ i <= start
      /\ \A i \in 1..Len(fs) : i > start => i > from
      /\ start = 0 => from = 0
  OBVIOUS
<1>2. r = IF first.ok THEN first ELSE again
  BY Zenon DEF Rebuild, OrInFull
<1> HIDE DEF from
<1>3. Sound(first, d, fs, from)
  <2>1. \A i \in 1..from : SourceStands(fs, i)
    BY <1>1
  <2> QED BY <1>1, <2>1, OnceSound
<1> HIDE DEF first
<1>4. CASE first.ok
  <2>1. Sound(first, d, fs, start)
    BY <1>1, <1>3 DEF Sound
  <2> QED BY <1>2, <1>4, <2>1
<1>5. CASE ~first.ok
  <2>1. /\ \E W0 : first.d \in PartOf(W0)
        /\ first.d.params = d.params /\ first.d.sketches = d.sketches
    BY <1>3 DEF Sound, Whole
  <2>2. Refs(first.d, fs)
    BY <2>1 DEF Refs
  <2>3. 0 \in 0..Len(fs)
    BY <1>1
  <2>4. Sound(again, first.d, fs, 0)
    BY <2>1, <2>2, <2>3, OnceSound
  <2> HIDE DEF again
  <2>5. Sound(again, d, fs, start)
    <3>1. \A i \in 1..Len(fs) : i > 0
      OBVIOUS
    <3> QED BY <2>1, <2>4, <3>1 DEF Sound
  <2> QED BY <1>2, <1>5, <2>5
<1> QED BY <1>4, <1>5

LEMMA RebuildsInFull ==
  ASSUME NEW d, NEW fs, NEW start,
         LET from == IF start < Len(fs) THEN start ELSE Len(fs)
         IN  ~RebuildOnce(d, fs, from).ok,
         \E W0 : d \in PartOf(W0), fs \in Seq(FeatureOf),
         Len(fs) <= MaxFeatures, Refs(d, fs), start \in Nat,
         \A i \in 1..Len(fs) : i <= start => SourceStands(fs, i),
         Rebuild(d, fs, start).ok
  PROVE  History(Rebuild(d, fs, start).d)
<1> DEFINE from == IF start < Len(fs) THEN start ELSE Len(fs)
           first == RebuildOnce(d, fs, from)
           again == RebuildOnce(first.d, fs, 0)
           r == Rebuild(d, fs, start)
<1>1. /\ from \in 0..Len(fs) /\ Len(fs) \in Nat
      /\ \A i \in 1..from : i \in 1..Len(fs) /\ i <= start
  OBVIOUS
<1>2. r = again
  BY Zenon DEF Rebuild, OrInFull
<1> HIDE DEF from
<1>3. Sound(first, d, fs, from)
  <2>1. \A i \in 1..from : SourceStands(fs, i)
    BY <1>1
  <2> QED BY <1>1, <2>1, OnceSound
<1> HIDE DEF first
<1>4. /\ \E W0 : first.d \in PartOf(W0)
      /\ first.d.params = d.params /\ first.d.sketches = d.sketches
  BY <1>3 DEF Sound, Whole
<1>5. Refs(first.d, fs)
  BY <1>4 DEF Refs
<1>6. 0 \in 0..Len(fs)
  BY <1>1
<1>7. Sound(again, first.d, fs, 0)
  BY <1>4, <1>5, <1>6, OnceSound
<1> HIDE DEF again
<1> QED BY <1>2, <1>7 DEF Sound

(* s is what there was after the first k features of d0.                   *)
Carried(d0, k, s) ==
  /\ s.ok /\ Len(s.cache) = k /\ Tip(s) /\ s.full = TRUE
  /\ \A i \in 1..k : s.cache[i] = d0.cache[i]
  /\ k = Len(d0.features) =>
       s = [ok |-> TRUE, full |-> TRUE, shape |-> d0.shape,
            sheet |-> d0.sheet, cache |-> d0.cache]

(* As far as features are alike, they are built as they were.              *)
LEMMA PrefixCarries ==
  ASSUME NEW W0, NEW d0 \in PartOf(W0), History(d0),
         NEW W1, NEW d \in PartOf(W1), NEW fs \in Seq(FeatureOf),
         NEW k \in Nat, k <= Len(d0.features), k <= Len(fs),
         \A i \in 1..k : BuiltAlike(d0, d, d0.features[i], fs[i])
  PROVE  Carried(d0, k, Replays(fs, Effects(d, fs), Scratch(Nothing))[k])
<1> DEFINE fs0 == d0.features
           e0 == Effects(d0, fs0)
           e == Effects(d, fs)
           X == {e0[i] : i \in 1..Len(fs0)} \cup {e[i] : i \in 1..Len(fs)}
           none == Scratch(Nothing)
           one == Replays(fs0, e0, none)
           two == Replays(fs, e, none)
<1>0. fs0 \in Seq(FeatureOf) /\ Len(fs0) \in Nat /\ Len(fs) \in Nat
  BY DEF PartOf
<1>1. PICK W : d0 \in PartOf(W) /\ X \subseteq W
  <2> HIDE DEF X
  <2> QED BY PartOfMore
<1>2. /\ \A i \in 1..Len(fs0) : e0[i] \in W
      /\ \A i \in 1..Len(fs) : e[i] \in W
  <2> HIDE DEF e0, e, fs0
  <2> QED BY <1>1
<1>3. \A i \in 1..k : e0[i] # Refused => e[i] = e0[i]
  <2>1. k <= Len(fs0) /\ \A i \in 1..k : BuiltAlike(d0, d, fs0[i], fs[i])
    OBVIOUS
  <2> HIDE DEF fs0
  <2>2. KeepEffects(d0, d, fs0, fs, k)
    BY <1>0, <2>1, EffectsKept
  <2> QED BY <2>2 DEF KeepEffects
<1>4. one[Len(fs0)] = [ok |-> TRUE, full |-> TRUE, shape |-> d0.shape,
                       sheet |-> d0.sheet, cache |-> d0.cache]
  BY DEF History, Replay
<1> HIDE DEF e0, e
<1>5. Nothing \in (SUBSET Edge) \cup {Nothing}
  OBVIOUS
<1>6. Run(W, fs0, e0, none) /\ Len(none.cache) = 0
  BY <1>0, <1>2, <1>5, ScratchRuns
<1>7. Run(W, fs, e, none)
  BY <1>2, <1>5, ScratchRuns
<1>8. \A i \in 1..k : SameForReplay(fs0[i], e0[i], fs[i], e[i])
  BY <1>3 DEF BuiltAlike, SameForReplay
<1> HIDE DEF none, fs0
<1>9. Len(fs0) \in Len(none.cache)..Len(fs0) /\ k \in Len(none.cache)..Len(fs0)
      /\ k \in Len(none.cache)..k
  BY <1>0, <1>6 DEF fs0
<1>10. one[k].ok
  <2>1. one[Len(fs0)].ok
    BY <1>4
  <2> QED BY <1>6, <1>9, <2>1, OkBefore
<1>11. two[k] = one[k]
  <2>1. k <= Len(fs0) /\ \A i \in (Len(none.cache) + 1)..k :
                           SameForReplay(fs0[i], e0[i], fs[i], e[i])
    BY <1>6, <1>8 DEF fs0
  <2> HIDE DEF one, two
  <2> QED BY <1>6, <1>7, <1>9, <1>10, <2>1, ReplaysAgree DEF one, two
<1> DEFINE s == one[k]
<1>12. s \in State(W) /\ Reached(fs0, e0, none, k, s)
  BY <1>6, <1>9, ReplayReaches
<1>13. Run(W, fs0, e0, s) /\ Len(s.cache) = k
       /\ Replays(fs0, e0, s)[Len(fs0)] = one[Len(fs0)]
  BY <1>0, <1>6, <1>9, <1>10, ReplayTakenUp
<1>14. Reached(fs0, e0, s, Len(fs0), one[Len(fs0)])
  <2>1. Len(fs0) \in Len(s.cache)..Len(fs0)
    BY <1>0, <1>9, <1>13
  <2> QED BY <1>13, <2>1, ReplayReaches
<1>15. \A i \in 1..k : s.cache[i] = d0.cache[i]
  <2> HIDE DEF one, s
  <2> QED BY <1>4, <1>13, <1>14 DEF Reached
<1>16. s.full = TRUE /\ Tip(s)
  BY <1>12 DEF Reached, none, Scratch
<1>17. k = Len(fs0) =>
         s = [ok |-> TRUE, full |-> TRUE, shape |-> d0.shape,
              sheet |-> d0.sheet, cache |-> d0.cache]
  <2> HIDE DEF one
  <2> QED BY <1>4
<1> HIDE DEF one, two
<1>18. Carried(d0, k, two[k])
  BY <1>10, <1>11, <1>13, <1>15, <1>16, <1>17 DEF Carried, fs0
<1> QED BY <1>18 DEF two, e, none

(* An edit that replays nothing and changes no effect.                     *)
LEMMA PlainHistory ==
  ASSUME NEW d0, \E W : d0 \in PartOf(W), History(d0),
         NEW d, \E W : d \in PartOf(W),
         Len(d.features) = Len(d0.features), d.shape = d0.shape,
         d.cache = d0.cache, d.sheet = d0.sheet,
         \A i \in 1..Len(d.features) :
           BuiltAlike(d0, d, d0.features[i], d.features[i])
  PROVE  History(d)
<1> DEFINE fs == d.features
           k == Len(fs)
<1>1. fs \in Seq(FeatureOf) /\ k \in Nat
  BY DEF PartOf
<1>2. PICK W0 : d0 \in PartOf(W0)
  OBVIOUS
<1>3. PICK W1 : d \in PartOf(W1)
  OBVIOUS
<1>4. /\ k <= Len(d0.features) /\ k <= Len(fs) /\ k = Len(d0.features)
      /\ \A i \in 1..k : BuiltAlike(d0, d, d0.features[i], fs[i])
  BY <1>1
<1> HIDE DEF k, fs
<1>5. Carried(d0, k, Replays(fs, Effects(d, fs), Scratch(Nothing))[k])
  BY <1>1, <1>2, <1>3, <1>4, PrefixCarries
<1> QED BY <1>4, <1>5 DEF Carried, History, Replay, fs, k

(* An edit that replays the features from one on.                          *)
LEMMA RebuildHistory ==
  ASSUME NEW d0, Whole(d0), History(d0), NEW d, \E W : d \in PartOf(W),
         d.cache = d0.cache, d.sheet = d0.sheet,
         NEW fs \in Seq(FeatureOf), Len(fs) <= MaxFeatures, Refs(d, fs),
         NEW start \in Nat, start <= Len(fs), start <= Len(d0.features),
         \A i \in 1..start : BuiltAlike(d0, d, d0.features[i], fs[i]),
         \A i \in 1..start : SourceStands(fs, i),
         Admits(fs, Len(fs)), SheetAt(fs, Len(fs)) = d0.sheet,
         Rebuild(d, fs, start).ok
  PROVE  History(Rebuild(d, fs, start).d)
<1> DEFINE r == RebuildOnce(d, fs, start)
           e == Effects(d, fs)
           at == ReplayFrom(d, start)
           none == Scratch(Nothing)
           end == Replay(fs, e, at)
           all == Replay(fs, e, none)
<1>1. /\ (IF start < Len(fs) THEN start ELSE Len(fs)) = start
      /\ Len(fs) \in Nat /\ start \in 0..Len(fs)
      /\ \A i \in 1..Len(fs) : i <= start => SourceStands(fs, i)
  OBVIOUS
<1>2. CASE ~r.ok
  <2>1. ~RebuildOnce(d, fs, IF start < Len(fs) THEN start ELSE Len(fs)).ok
    BY <1>1, <1>2
  <2> HIDE DEF r
  <2> QED BY <1>1, <2>1, RebuildsInFull
<1>3. CASE r.ok
  <2>1. Rebuild(d, fs, start) = r
    <3>1. Rebuild(d, fs, start)
            = OrInFull(RebuildOnce(d, fs, IF start < Len(fs) THEN start
                                          ELSE Len(fs)), fs)
      BY Zenon DEF Rebuild
    <3>2. Rebuild(d, fs, start) = OrInFull(r, fs)
      BY <1>1, <3>1
    <3> QED BY <1>3, <3>2, Zenon DEF OrInFull
  <2>2. Sound(r, d, fs, start)
    BY <1>1, OnceSound
  <2>3. CASE start = 0
    <3> HIDE DEF r
    <3> QED BY <1>3, <2>1, <2>2, <2>3 DEF Sound
  <2>4. CASE start > 0
    <3> DEFINE X == {e[i] : i \in 1..Len(fs)}
    <3>1. PICK W : d \in PartOf(W) /\ X \subseteq W
      <4> HIDE DEF X
      <4> QED BY PartOfMore
    <3>2. \A i \in 1..Len(fs) : e[i] \in W
      <4> HIDE DEF e
      <4> QED BY <3>1
    <3>3. Len(d.cache) >= start
      BY DEF Whole
    <3>4. /\ Run(W, fs, e, at) /\ at.sheet = d.sheet /\ Len(at.cache) = start
          /\ \A i \in 1..start : at.cache[i] = d.cache[i]
      <4>1. /\ Run(W, fs, e, at)
            /\ IF start > 0 /\ Len(d.cache) >= start
               THEN /\ at.sheet = d.sheet /\ Len(at.cache) = start
                    /\ \A i \in 1..start : at.cache[i] = d.cache[i]
               ELSE TRUE
        BY <1>1, <3>1, <3>2, OnceRuns
      <4> HIDE DEF at, e
      <4> QED BY <2>4, <3>3, <4>1
    <3>5. /\ r.ok = end.ok
          /\ r.d = [d EXCEPT !.features = SubSeq(fs, 1, Len(end.cache)),
                             !.shape = end.shape, !.sheet = end.sheet,
                             !.cache = end.cache]
      BY DEF RebuildOnce, Replayed
    <3>6. PICK W0 : d0 \in PartOf(W0)
      BY DEF Whole
    <3> DEFINE s == Replays(fs, e, none)[start]
    <3>7. /\ s.ok /\ Len(s.cache) = start /\ Tip(s)
          /\ \A i \in 1..start : s.cache[i] = d0.cache[i]
      <4>1. Carried(d0, start, s)
        BY <3>1, <3>6, PrefixCarries
      <4> HIDE DEF s
      <4> QED BY <4>1 DEF Carried
    <3>8. Run(W, fs, e, none) /\ Len(none.cache) = 0
      BY <3>2, ScratchRuns
    <3> HIDE DEF at, e, none, r
    <3>9. s \in State(W)
      BY <1>1, <3>8, ReplayReaches
    <3>10. at.ok /\ Tip(at) /\ at \in State(W)
      BY <3>4 DEF Run
    <3> HIDE DEF s
    <3>11. at.cache = s.cache
      BY <3>4, <3>7, <3>9, <3>10 DEF State
    <3>12. Twins(at, s)
      BY <3>7, <3>10, <3>11 DEF Twins, Tip
    <3>13. /\ Twins(end, all) /\ end.sheet = all.sheet
      <4>1. /\ Admits(fs, Len(fs)) /\ at.sheet = SheetAt(fs, Len(fs))
            /\ end.ok /\ Twins(at, Replays(fs, e, none)[Len(at.cache)])
        BY <1>3, <3>4, <3>5, <3>12 DEF s
      <4> QED BY <3>4, <3>8, <4>1, IncrementalIsFull DEF none
    <3>14. all \in State(W) /\ all.full = TRUE
      <4>1. none.full = TRUE
        BY DEF none, Scratch
      <4>2. Len(fs) \in Len(none.cache)..Len(fs)
        BY <1>1, <3>8
      <4> QED BY <3>8, <4>1, <4>2, ReplayReaches DEF Reached, Replay
    <3> HIDE DEF all, end
    <3>15. all = [ok |-> TRUE, full |-> TRUE, shape |-> end.shape,
                  sheet |-> end.sheet, cache |-> end.cache]
      BY <3>13, <3>14 DEF State, Twins
    <3>16. r.d.features = fs /\ Effects(r.d, fs) = e
      BY <1>1, <1>3, <2>2, EffectsOfSame DEF Sound, e
    <3>17. /\ r.d.shape = end.shape /\ r.d.sheet = end.sheet
           /\ r.d.cache = end.cache
      BY <3>1, <3>5 DEF PartOf
    <3>18. History(r.d)
      BY <3>15, <3>16, <3>17 DEF History, all, none
    <3> QED BY <2>1, <3>18
  <2> QED BY <2>3, <2>4
<1> QED BY <1>2, <1>3

(* Loading a part again.                                                   *)
LEMMA LoadSound ==
  ASSUME NEW d, Whole(d)
  PROVE  /\ Load(d).ok => Whole(Load(d).d)
         /\ History(d) => Load(d).ok /\ Load(d).d = d
                          /\ Load(d) = [ok |-> TRUE, full |-> TRUE, d |-> d]
<1> DEFINE fs == d.features
           e == Effects(d, fs)
           none == Scratch(Nothing)
           at == Scratch(d.sheet)
           end == Replay(fs, e, at)
           r == Load(d)
           X == {e[i] : i \in 1..Len(fs)}
<1>1. PICK W0 : d \in PartOf(W0)
  BY DEF Whole
<1>2. /\ fs \in Seq(FeatureOf) /\ Len(fs) \in Nat
      /\ d.sheet \in (SUBSET Edge) \cup {Nothing}
  BY <1>1 DEF PartOf
<1>3. PICK W : d \in PartOf(W) /\ X \subseteq W
  <2> HIDE DEF X
  <2> QED BY <1>1, PartOfMore
<1>4. \A i \in 1..Len(fs) : e[i] \in W
  <2> HIDE DEF e, fs
  <2> QED BY <1>3
<1>5. /\ r.ok = end.ok /\ r.full = end.full
      /\ r = [ok |-> end.ok, full |-> end.full, d |-> r.d]
      /\ r.d = [[d EXCEPT !.cache = <<>>] EXCEPT
                  !.features = SubSeq(fs, 1, Len(end.cache)),
                  !.shape = end.shape, !.sheet = end.sheet,
                  !.cache = end.cache]
  BY DEF Load, Replayed
<1> HIDE DEF fs, e
<1>6. Run(W, fs, e, at) /\ Len(at.cache) = 0
  BY <1>2, <1>4, ScratchRuns
<1>7. end \in State(W) /\ Reached(fs, e, at, Len(fs), end)
  BY <1>2, <1>6, ReplayReaches DEF Replay
<1>8. /\ end.full = TRUE /\ Tip(end)
      /\ end.ok => Len(end.cache) = Len(fs)
  BY <1>7 DEF Reached, Scratch
<1> HIDE DEF r, end, at, none
<1>9. d = [params |-> d.params, sketches |-> d.sketches, features |-> fs,
           shape |-> d.shape, cache |-> d.cache, sheet |-> d.sheet]
  BY <1>3 DEF PartOf, fs
<1>10. r.d = [params |-> d.params, sketches |-> d.sketches,
              features |-> SubSeq(fs, 1, Len(end.cache)),
              shape |-> end.shape, cache |-> end.cache, sheet |-> end.sheet]
  BY <1>5, <1>9
<1>11. end.ok => SubSeq(fs, 1, Len(end.cache)) = fs
  BY <1>2, <1>8
<1>12. ASSUME r.ok PROVE Whole(r.d)
  <2>1. r.d = [params |-> d.params, sketches |-> d.sketches,
               features |-> fs, shape |-> end.shape, cache |-> end.cache,
               sheet |-> end.sheet]
    BY <1>5, <1>10, <1>11, <1>12
  <2>2. r.d \in PartOf(W)
    BY <1>2, <1>3, <1>7, <2>1 DEF PartOf, State
  <2>3. Tip(r.d)
    BY <1>8, <2>1 DEF Tip
  <2>4. Len(r.d.cache) = Len(r.d.features)
    BY <1>5, <1>8, <1>12, <2>1
  <2>5. Refs(r.d, r.d.features)
    BY <2>1 DEF Refs, Whole, fs
  <2>6. /\ Len(r.d.features) <= MaxFeatures
        /\ \A i \in 1..Len(r.d.features) : SourceStands(r.d.features, i)
    BY <2>1 DEF Whole, fs
  <2> QED BY <2>2, <2>3, <2>4, <2>5, <2>6 DEF Whole
<1>13. ASSUME History(d)
       PROVE  /\ r.ok /\ r.d = d
              /\ r = [ok |-> TRUE, full |-> TRUE, d |-> d]
  <2>1. Replay(fs, e, none) =
          [ok |-> TRUE, full |-> TRUE, shape |-> d.shape, sheet |-> d.sheet,
           cache |-> d.cache]
    BY <1>13 DEF History, fs, e, none
  <2>2. Replay(fs, e, none).ok /\ Replay(fs, e, none).sheet = d.sheet
    BY <2>1
  <2>3. end = Replay(fs, e, none)
    BY <1>2, <1>4, <2>2, LoadsAsReplayed DEF end, at, none
  <2>4. /\ end.ok = TRUE /\ end.full = TRUE /\ end.shape = d.shape
        /\ end.sheet = d.sheet /\ end.cache = d.cache
    BY <2>1, <2>3
  <2>5. r.d = d
    BY <1>9, <1>10, <1>11, <2>4
  <2> QED BY <1>5, <2>4, <2>5
<1> QED BY <1>12, <1>13 DEF r

PartInv ==
  /\ Whole(part) /\ stale \in BOOLEAN /\ did \in {"done", "set", "refused"}
  /\ count \in 0..MaxCommands
  /\ ~stale => History(part)

(* What the invariant asks of what a command comes to.                     *)
Outcome(r, partly) ==
  /\ Whole(r.d) /\ r.ok \in BOOLEAN /\ r.full \in BOOLEAN
  /\ r.ok /\ (r.full \/ (~stale /\ ~partly)) => History(r.d)

LEMMA SettleInv ==
  ASSUME PartInv, NEW r, NEW partly \in BOOLEAN, NEW label \in {"done", "set"},
         Outcome(r, partly), Settle(r, partly, label)
  PROVE  /\ Whole(part') /\ stale' \in BOOLEAN /\ did' \in {label, "refused"}
         /\ ~stale' => History(part')
         /\ did' = label => part' = r.d /\ r.ok
<1>1. CASE r.ok
  <2>1. part' = r.d /\ stale' = (~r.full /\ (stale \/ partly)) /\ did' = label
    BY <1>1, Zenon DEF Settle
  <2>2. stale' \in BOOLEAN
    BY <2>1
  <2>3. ~stale' => r.full \/ (~stale /\ ~partly)
    BY <2>1, Zenon
  <2>4. Whole(r.d) /\ (r.full \/ (~stale /\ ~partly) => History(r.d))
    BY <1>1, Zenon DEF Outcome
  <2> QED BY <1>1, <2>1, <2>2, <2>3, <2>4
<1>2. CASE ~r.ok
  <2>1. /\ part' = Reloaded(Load(part), r.d) /\ stale' = stale
        /\ did' = "refused"
    BY <1>2, Zenon DEF Settle
  <2>2. part' = IF Load(part).ok THEN Load(part).d ELSE r.d
    BY <2>1 DEF Reloaded
  <2>3. /\ Load(part).ok => Whole(Load(part).d)
        /\ History(part) => Load(part).ok /\ Load(part).d = part
    BY LoadSound DEF PartInv
  <2>4. Whole(r.d)
    BY DEF Outcome
  <2> HIDE DEF Whole, History
  <2>5. Whole(part')
    BY <2>2, <2>3, <2>4
  <2>6. ~stale' => History(part')
    BY <2>1, <2>2, <2>3 DEF PartInv
  <2> QED BY <2>1, <2>5, <2>6 DEF PartInv
<1> QED BY <1>1, <1>2

----------------------------------------------------------------------------
(* Edits of a part.                                                        *)

(* The part with other parameters, sketches and features.                  *)
PartEdited(d, ps, sks, fs) ==
  [params |-> ps, sketches |-> sks, features |-> fs,
   shape |-> d.shape, cache |-> d.cache, sheet |-> d.sheet]

Sketches == [Sketch -> SketchOf \cup {Nothing}]

LEMMA PartIs ==
  ASSUME NEW d, Whole(d)
  PROVE  /\ d = PartEdited(d, d.params, d.sketches, d.features)
         /\ d.params \in Params /\ d.sketches \in Sketches
         /\ d.features \in Seq(FeatureOf)
         /\ Len(d.features) \in Nat /\ Len(d.features) <= MaxFeatures
         /\ \A i \in 1..Len(d.features) : d.features[i] \in FeatureOf
<1>1. PICK W : d \in PartOf(W)
  BY DEF Whole
<1>2. d.features \in Seq(FeatureOf) /\ Len(d.features) <= MaxFeatures
  BY <1>1 DEF PartOf, Whole
<1> QED BY <1>1, <1>2 DEF PartOf, PartEdited, Sketches

LEMMA EditedIs ==
  ASSUME NEW d, Whole(d), NEW ps \in Params, NEW sks \in Sketches,
         NEW fs \in Seq(FeatureOf)
  PROVE  LET new == PartEdited(d, ps, sks, fs) IN
         /\ \E W : new \in PartOf(W)
         /\ new.params = ps /\ new.sketches = sks /\ new.features = fs
         /\ new.shape = d.shape /\ new.cache = d.cache
         /\ new.sheet = d.sheet
<1>1. PICK W : d \in PartOf(W)
  BY DEF Whole
<1>2. PartEdited(d, ps, sks, fs) \in PartOf(W)
  BY <1>1 DEF PartOf, PartEdited, Sketches
<1> QED BY <1>2 DEF PartEdited

LEMMA EditedWhole ==
  ASSUME NEW d, Whole(d), NEW ps \in Params, NEW sks \in Sketches,
         NEW fs \in Seq(FeatureOf), Len(fs) = Len(d.features),
         Refs(PartEdited(d, ps, sks, fs), fs),
         \A i \in 1..Len(fs) : SourceStands(fs, i)
  PROVE  Whole(PartEdited(d, ps, sks, fs))
<1> DEFINE new == PartEdited(d, ps, sks, fs)
<1>1. /\ \E W : new \in PartOf(W)
      /\ new.features = fs /\ new.shape = d.shape /\ new.cache = d.cache
  BY EditedIs
<1>2. /\ Len(d.features) <= MaxFeatures /\ Len(d.cache) = Len(d.features)
      /\ Tip(d)
  BY DEF Whole
<1> HIDE DEF new
<1>3. Tip(new)
  BY <1>1, <1>2 DEF Tip
<1>4. Refs(new, new.features)
  BY <1>1 DEF new
<1> QED BY <1>1, <1>2, <1>3, <1>4 DEF Whole, new

(* Outcomes of the three kinds.                                            *)
LEMMA PlainOutcome ==
  ASSUME NEW d, Whole(d), NEW partly \in BOOLEAN,
         ~stale /\ ~partly => History(d)
  PROVE  Outcome(Plain(d), partly)
<1>1. Plain(d).d = d /\ Plain(d).full = FALSE /\ Plain(d).ok = TRUE
  BY DEF Plain
<1> QED BY <1>1 DEF Outcome

LEMMA RaisesOutcome ==
  ASSUME NEW d, Whole(d), NEW partly
  PROVE  Outcome(Raises(d), partly)
<1>1. Raises(d).d = d /\ Raises(d).full = FALSE /\ Raises(d).ok = FALSE
  BY DEF Raises
<1> QED BY <1>1 DEF Outcome

LEMMA SoundOutcome ==
  ASSUME NEW r, NEW d, NEW fs, NEW start, Sound(r, d, fs, start),
         NEW partly \in BOOLEAN,
         ~stale /\ ~partly /\ r.ok => History(r.d)
  PROVE  Outcome(r, partly)
<1>1. Whole(r.d) /\ r.ok \in BOOLEAN /\ r.full \in BOOLEAN
      /\ (r.ok /\ r.full => History(r.d))
  BY DEF Sound
<1> QED BY <1>1 DEF Outcome

(* The flanges of a part that is what its history says.                    *)
LEMMA HistorySheet ==
  ASSUME NEW d, Whole(d), History(d)
  PROVE  /\ Admits(d.features, Len(d.features))
         /\ SheetAt(d.features, Len(d.features)) = d.sheet
<1> DEFINE fs == d.features
           e == Effects(d, fs)
           X == {e[i] : i \in 1..Len(fs)}
           none == Scratch(Nothing)
<1>1. fs \in Seq(FeatureOf) /\ Len(fs) \in Nat
  BY PartIs
<1>2. PICK W0 : d \in PartOf(W0)
  BY DEF Whole
<1>3. PICK W : d \in PartOf(W) /\ X \subseteq W
  <2> HIDE DEF X
  <2> QED BY <1>2, PartOfMore
<1>4. \A i \in 1..Len(fs) : e[i] \in W
  <2> HIDE DEF e, fs
  <2> QED BY <1>3
<1>5. Replays(fs, e, none)[Len(fs)].ok
      /\ Replays(fs, e, none)[Len(fs)].sheet = d.sheet
  BY DEF History, Replay
<1> HIDE DEF e, fs
<1>6. Run(W, fs, e, none)
  BY <1>1, <1>4, ScratchRuns
<1>7. Len(fs) \in 0..Len(fs)
  BY <1>1
<1>8. SheetAt(fs, Len(fs)) = d.sheet /\ Admits(fs, Len(fs))
  BY <1>5, <1>6, <1>7, SheetOfReplay DEF none
<1> QED BY <1>8 DEF fs

(* All of it replayed.                                                     *)
LEMMA FullOutcome ==
  ASSUME NEW d, \E W : d \in PartOf(W), NEW fs \in Seq(FeatureOf),
         Len(fs) <= MaxFeatures, Refs(d, fs), NEW partly \in BOOLEAN
  PROVE  /\ Outcome(Rebuild(d, fs, 0), partly)
         /\ Sound(Rebuild(d, fs, 0), d, fs, 0)
<1> DEFINE r == Rebuild(d, fs, 0)
<1>1. \A i \in 1..Len(fs) : i <= 0 => SourceStands(fs, i)
  OBVIOUS
<1>2. Sound(r, d, fs, 0)
  BY <1>1, RebuildSound
<1> HIDE DEF r
<1>3. r.ok => History(r.d)
  BY <1>2 DEF Sound
<1> QED BY <1>2, <1>3, SoundOutcome DEF r

(* What is defined stays defined.                                          *)
LEMMA RefsKept ==
  ASSUME NEW d, NEW d2, NEW fs, Refs(d, fs), d2.sketches = d.sketches,
         \A x \in Param : d.params[x] # Nothing => d2.params[x] # Nothing
  PROVE  Refs(d2, fs)
BY DEF Refs

(* A feature without a changed number is built as before.                  *)
LEMMA AlikeUnaffected ==
  ASSUME NEW d, NEW d2, d.params \in Params, d2.params \in Params,
         d.sketches \in Sketches, d2.sketches = d.sketches,
         NEW p \in Param, \A x \in Param \ {p} : d2.params[x] = d.params[x],
         NEW f \in FeatureOf,
         Names(d2, f) \cap DependentClosure(d2.params, p) = {}
  PROVE  BuiltAlike(d, d2, f, f)
<1> DEFINE names == Names(d2, f)
<1>1. ASSUME NEW x \in Expr, x \in names
      PROVE  SameNumber(d.params, d2.params, x)
  <2>1. x \notin DependentClosure(d2.params, p)
    BY <1>1
  <2> QED BY <2>1, ValueUnaffected
<1>2. f.size \in names
  BY DEF Names
<1>3. f.kind = "extrude" /\ d.sketches[f.of] # Nothing =>
        d.sketches[f.of].r \in names
  BY DEF Names
<1>4. f.kind \in {"box", "fillet", "extrude"} => f.size \in Expr
  BY DEF FeatureOf
<1>5. ASSUME f.kind = "extrude", d.sketches[f.of] # Nothing,
             d.sketches[f.of].sound
      PROVE  d.sketches[f.of].r \in Expr
  <2>1. f.of \in Sketch
    BY <1>5 DEF FeatureOf
  <2>2. d.sketches[f.of] \in SketchOf
    BY <1>5, <2>1 DEF Sketches
  <2> QED BY <1>5, <2>2 DEF SketchOf
<1> HIDE DEF names
<1> QED BY <1>1, <1>2, <1>3, <1>4, <1>5 DEF BuiltAlike

----------------------------------------------------------------------------
(* The commands of parameters.                                             *)

(* What a command keeps, if it is settled.                                 *)
PartKept(label) ==
  /\ Whole(part') /\ stale' \in BOOLEAN /\ did' \in {label, "refused"}
  /\ ~stale' => History(part')

LEMMA Keeps ==
  ASSUME PartInv, NEW r, NEW partly \in BOOLEAN, NEW label \in {"done", "set"},
         Outcome(r, partly), Settle(r, partly, label)
  PROVE  PartKept(label)
BY SettleInv DEF PartKept

(* The part with one parameter changed.                                    *)
LEMMA SetToIs ==
  ASSUME NEW d, Whole(d), NEW p \in Param, NEW e \in Expr
  PROVE  LET new == SetTo(d, p, e) IN
         /\ \E W : new \in PartOf(W)
         /\ new.params \in Params /\ new.params[p] = e
         /\ \A x \in Param \ {p} : new.params[x] = d.params[x]
         /\ new.sketches = d.sketches /\ new.features = d.features
         /\ new.shape = d.shape /\ new.cache = d.cache
         /\ new.sheet = d.sheet
         /\ Refs(new, d.features) /\ Whole(new)
<1> DEFINE new == SetTo(d, p, e)
           ps == [d.params EXCEPT ![p] = e]
<1>1. /\ d = PartEdited(d, d.params, d.sketches, d.features)
      /\ d.params \in Params /\ d.sketches \in Sketches
      /\ d.features \in Seq(FeatureOf)
  BY PartIs
<1>2. ps \in Params
  BY <1>1 DEF Params
<1>3. new = PartEdited(d, ps, d.sketches, d.features)
  <2>1. new = [d EXCEPT !.params = ps]
    BY DEF SetTo
  <2> HIDE DEF new, ps
  <2>2. [PartEdited(d, d.params, d.sketches, d.features) EXCEPT !.params = ps]
          = PartEdited(d, ps, d.sketches, d.features)
    BY DEF PartEdited
  <2> QED BY <1>1, <2>1, <2>2
<1>4. /\ ps[p] = e /\ \A x \in Param \ {p} : ps[x] = d.params[x]
      /\ \A x \in Param : d.params[x] # Nothing => ps[x] # Nothing
  BY <1>1, PartAssumption DEF Params, Expr
<1> HIDE DEF new, ps
<1>5. /\ \E W : new \in PartOf(W)
      /\ new.params = ps /\ new.sketches = d.sketches
      /\ new.features = d.features /\ new.shape = d.shape
      /\ new.cache = d.cache /\ new.sheet = d.sheet
  BY <1>1, <1>2, <1>3, EditedIs
<1>6. /\ Refs(d, d.features)
      /\ \A i \in 1..Len(d.features) : SourceStands(d.features, i)
  BY DEF Whole
<1>7. Refs(new, d.features)
  BY <1>4, <1>5, <1>6, RefsKept
<1>8. Whole(new)
  BY <1>1, <1>2, <1>3, <1>6, <1>7, EditedWhole
<1> QED BY <1>2, <1>4, <1>5, <1>7, <1>8 DEF new

LEMMA CreateParameterKeeps ==
  ASSUME PartInv, NEW p \in Param, NEW e \in Expr, CreateParameter(p, e)
  PROVE  PartKept("done")
<1> DEFINE d == SetTo(part, p, e)
           r == Rebuild(d, d.features, 0)
           c == CreateIn(d)
<1>1. /\ \E W : d \in PartOf(W)
      /\ d.features = part.features /\ Refs(d, part.features)
      /\ part.features \in Seq(FeatureOf) /\ Len(part.features) <= MaxFeatures
  BY SetToIs, PartIs DEF PartInv
<1>2. c = [r EXCEPT !.ok = @ /\ Resolves(d.params)]
  BY DEF CreateIn
<1> HIDE DEF d
<1>3. Sound(r, d, d.features, 0)
  BY <1>1, FullOutcome
<1> HIDE DEF r, c
<1>4. r = [ok |-> r.ok, full |-> r.full, d |-> r.d] /\ r.ok \in BOOLEAN
      /\ (r.ok => History(r.d)) /\ Whole(r.d) /\ r.full \in BOOLEAN
  BY <1>3 DEF Sound
<1>5. Resolves(d.params) \in BOOLEAN
  BY DEF Resolves
<1>6. c.d = r.d /\ c.full = r.full /\ c.ok = (r.ok /\ Resolves(d.params))
  BY <1>2, <1>4
<1>7. Outcome(c, FALSE)
  <2>1. c.ok \in BOOLEAN /\ (c.ok => r.ok)
    BY <1>4, <1>5, <1>6, Zenon
  <2> QED BY <1>4, <1>6, <2>1 DEF Outcome
<1>8. Settle(c, FALSE, "done")
  BY DEF CreateParameter, c, d
<1> QED BY <1>7, <1>8, Keeps

(* The features that depend on a parameter are as if built now.            *)
Arrived(d, p) ==
  \A i \in Affected(d, p) : ~d.features[i].off =>
    Last(d.cache[i]) = Effects(d, d.features)[i]

LEMMA SetOutcome ==
  ASSUME PartInv, NEW p \in Param, NEW e \in Expr
  PROVE  LET d == SetTo(part, p, e)
             r == SetIn(d, p)
         IN  /\ Outcome(r, FALSE)
             /\ r.ok => r.d.params = d.params /\ Arrived(r.d, p)
<1> DEFINE d == SetTo(part, p, e)
           fs == part.features
           first == Rebuild(d, fs, 0)
           start == SuffixOf(d, p)
           then == Rebuild(d, fs, start)
           r == SetIn(d, p)
           Good(x) == /\ Outcome(x, FALSE)
                      /\ x.ok => x.d.params = d.params /\ Arrived(x.d, p)
<1>1. /\ \E W : d \in PartOf(W)
      /\ d.params \in Params
      /\ \A x \in Param \ {p} : d.params[x] = part.params[x]
      /\ d.sketches = part.sketches /\ d.features = fs
      /\ d.shape = part.shape /\ d.cache = part.cache
      /\ d.sheet = part.sheet
      /\ Refs(d, fs) /\ Whole(d)
  BY SetToIs DEF PartInv
<1>2. /\ part.params \in Params /\ part.sketches \in Sketches
      /\ fs \in Seq(FeatureOf) /\ Len(fs) \in Nat /\ Len(fs) <= MaxFeatures
      /\ \A i \in 1..Len(fs) : fs[i] \in FeatureOf
  BY PartIs DEF PartInv
<1>3. \A i \in 1..Len(fs) : SourceStands(fs, i)
  BY DEF PartInv, Whole
<1> HIDE DEF d, fs
<1>4. /\ Affected(d, p) \subseteq 1..Len(fs)
      /\ \A i \in 1..Len(fs) : i \notin Affected(d, p) =>
           BuiltAlike(part, d, fs[i], fs[i])
  <2>1. Affected(d, p) =
          {i \in 1..Len(fs) :
             Names(d, fs[i]) \cap DependentClosure(d.params, p) # {}}
    BY <1>1, <1>2 DEF Affected
  <2>2. ASSUME NEW i \in 1..Len(fs), i \notin Affected(d, p)
        PROVE  BuiltAlike(part, d, fs[i], fs[i])
    <3>1. Names(d, fs[i]) \cap DependentClosure(d.params, p) = {}
      BY <2>1, <2>2
    <3>2. fs[i] \in FeatureOf
      BY <1>2
    <3> QED BY <1>1, <1>2, <3>1, <3>2, AlikeUnaffected
  <2> QED BY <2>1, <2>2
<1>5. ASSUME NEW x, NEW from, Sound(x, d, fs, from), x.ok,
             \A i \in Affected(d, p) : i > from
      PROVE  x.d.params = d.params /\ Arrived(x.d, p)
  <2>1. /\ x.d.params = d.params /\ x.d.sketches = d.sketches
        /\ x.d.features = fs
        /\ \A i \in 1..Len(fs) : i > from /\ ~fs[i].off =>
             Last(x.d.cache[i]) = Effects(x.d, fs)[i]
    BY <1>5 DEF Sound
  <2>2. Affected(x.d, p) = Affected(d, p)
    <3>1. \A f : Names(x.d, f) = Names(d, f)
      BY <2>1 DEF Names
    <3> QED BY <1>1, <2>1, <3>1, Zenon DEF Affected
  <2>3. \A i \in Affected(d, p) : i \in 1..Len(fs) /\ i > from
    BY <1>4, <1>5
  <2> QED BY <2>1, <2>2, <2>3 DEF Arrived
<1>6. Outcome(first, FALSE) /\ Sound(first, d, fs, 0)
  BY <1>1, <1>2, FullOutcome
<1>7. CASE ~Resolves(d.params)
  <2>1. r = Raises(d)
    BY <1>7 DEF SetIn
  <2>2. Outcome(Raises(d), FALSE) /\ ~Raises(d).ok
    BY <1>1, RaisesOutcome DEF Raises
  <2> QED BY <2>1, <2>2 DEF d
<1>8. CASE Resolves(d.params)
  <2>0. r = IF first.ok THEN first
            ELSE IF Affected(d, p) = {} THEN Plain(d)
            ELSE IF start = 0 THEN Raises(d) ELSE then
    BY <1>1, <1>8, Zenon DEF SetIn, OrSuffix
  <2>1. CASE first.ok
    <3>1. \A i \in Affected(d, p) : i > 0
      BY <1>2, <1>4
    <3> HIDE DEF first
    <3>2. first.d.params = d.params /\ Arrived(first.d, p)
      BY <1>5, <1>6, <2>1, <3>1
    <3> QED BY <1>6, <2>0, <2>1, <3>2 DEF d
  <2>2. CASE ~first.ok /\ Affected(d, p) = {}
    <3>1. Plain(d).d = d
      BY DEF Plain
    <3>2. Arrived(d, p)
      BY <2>2 DEF Arrived
    <3>3. ~stale => History(d)
      <4> SUFFICES ASSUME ~stale PROVE History(d)
        OBVIOUS
      <4>1. \A i \in 1..Len(d.features) :
              BuiltAlike(part, d, part.features[i], d.features[i])
        BY <1>1, <1>4, <2>2 DEF fs
      <4>2. History(part) /\ \E W : part \in PartOf(W)
        BY DEF PartInv, Whole
      <4> QED BY <1>1, <4>1, <4>2, PlainHistory DEF fs
    <3>4. Outcome(Plain(d), FALSE)
      BY <1>1, <3>3, PlainOutcome
    <3>5. r = Plain(d)
      BY <2>0, <2>2, Zenon
    <3> QED BY <3>1, <3>2, <3>4, <3>5 DEF d
  <2>3. CASE ~first.ok /\ Affected(d, p) # {} /\ start = 0
    <3>1. r = Raises(d)
      BY <2>0, <2>3, Zenon
    <3>2. Outcome(Raises(d), FALSE) /\ ~Raises(d).ok
      BY <1>1, RaisesOutcome DEF Raises
    <3> QED BY <3>1, <3>2 DEF d
  <2>4. CASE ~first.ok /\ Affected(d, p) # {} /\ start # 0
    <3>1. r = then
      BY <2>0, <2>4, Zenon
    <3>2. /\ start \in Nat /\ start <= Len(fs)
          /\ \A i \in Affected(d, p) : i > start
      <4>1. Affected(d, p) \in SUBSET Nat
        BY <1>2, <1>4
      <4>2. /\ Min(Affected(d, p)) \in Affected(d, p)
            /\ \A y \in Affected(d, p) : Min(Affected(d, p)) <= y
        BY <2>4, <4>1, MinOf
      <4>3. start = Min(Affected(d, p)) - 1
        BY DEF SuffixOf
      <4> HIDE DEF start
      <4> QED BY <1>2, <1>4, <4>1, <4>2, <4>3
    <3> HIDE DEF start
    <3>3. Sound(then, d, fs, start)
      <4>1. \A i \in 1..Len(fs) : i <= start => SourceStands(fs, i)
        BY <1>3
      <4> QED BY <1>1, <1>2, <3>2, <4>1, RebuildSound
    <3>4. ~stale /\ ~FALSE /\ then.ok => History(then.d)
      <4> SUFFICES ASSUME ~stale, then.ok PROVE History(then.d)
        OBVIOUS
      <4>1. History(part) /\ Whole(part)
        BY DEF PartInv
      <4>2. Admits(fs, Len(fs)) /\ SheetAt(fs, Len(fs)) = part.sheet
        BY <4>1, HistorySheet DEF fs
      <4>3. \A i \in 1..start : i \in 1..Len(fs) /\ i \notin Affected(d, p)
        BY <1>2, <3>2
      <4>4. \A i \in 1..start : /\ BuiltAlike(part, d, part.features[i], fs[i])
                                /\ SourceStands(fs, i)
        BY <1>3, <1>4, <4>3 DEF fs
      <4>5. start <= Len(part.features)
        BY <3>2 DEF fs
      <4> QED BY <1>1, <1>2, <3>2, <4>1, <4>2, <4>4, <4>5, RebuildHistory
    <3> HIDE DEF then
    <3>5. Outcome(then, FALSE)
      BY <3>3, <3>4, SoundOutcome
    <3>6. then.ok => then.d.params = d.params /\ Arrived(then.d, p)
      BY <1>5, <3>2, <3>3
    <3> QED BY <3>1, <3>5, <3>6 DEF d
  <2> QED BY <2>1, <2>2, <2>3, <2>4
<1> QED BY <1>7, <1>8

(* Setting a parameter to another value reaches the features.              *)
LEMMA SetParameterKeeps ==
  ASSUME PartInv, NEW p \in Param, NEW e \in Expr, SetParameter(p, e)
  PROVE  /\ PartKept("set")
         /\ did' = "set" =>
              /\ \A q \in Param \ {p} : part'.params[q] = part.params[q]
              /\ Arrived(part', p)
<1> DEFINE d == SetTo(part, p, e)
           r == SetIn(d, p)
<1>1. /\ Outcome(r, FALSE)
      /\ r.ok => r.d.params = d.params /\ Arrived(r.d, p)
  BY SetOutcome
<1>2. Settle(r, FALSE, "set")
  BY DEF SetParameter
<1>3. \A x \in Param \ {p} : d.params[x] = part.params[x]
  BY SetToIs DEF PartInv
<1> HIDE DEF d, r
<1>4. PartKept("set") /\ (did' = "set" => part' = r.d /\ r.ok)
  BY <1>1, <1>2, Keeps, SettleInv
<1> QED BY <1>1, <1>3, <1>4

LEMMA RenameParameterKeeps ==
  ASSUME PartInv, NEW p \in Param, NEW q \in Param, RenameParameter(p, q)
  PROVE  PartKept("done")
<1> DEFINE new(e) == IF e = p THEN q ELSE e
           ps == [x \in Param |-> IF x = p THEN Nothing
                    ELSE new(part.params[IF x = q THEN p ELSE x])]
           sks == [s \in Sketch |->
                     IF part.sketches[s] = Nothing THEN Nothing
                     ELSE [part.sketches[s] EXCEPT !.r = new(@)]]
           d == [part EXCEPT
                   !.params = [x \in Param |-> IF x = p THEN Nothing
                                 ELSE new(part.params[IF x = q THEN p ELSE x])],
                   !.sketches =
                     [s \in Sketch |->
                        IF part.sketches[s] = Nothing THEN Nothing
                        ELSE [part.sketches[s] EXCEPT !.r = new(@)]]]
           fs == [i \in DOMAIN part.features |->
                    [part.features[i] EXCEPT !.size = new(@)]]
<1>1. /\ p \in Defined(part.params) /\ q \notin Defined(part.params)
      /\ Settle(Rebuild(d, fs, 0), FALSE, "done")
  BY Zenon DEF RenameParameter
<1>2. /\ part = PartEdited(part, part.params, part.sketches, part.features)
      /\ part.params \in Params /\ part.sketches \in Sketches
      /\ part.features \in Seq(FeatureOf)
      /\ Len(part.features) <= MaxFeatures /\ Len(part.features) \in Nat
      /\ \A i \in 1..Len(part.features) : part.features[i] \in FeatureOf
  BY PartIs DEF PartInv
<1>3. \A e \in Expr \cup {Nothing} : /\ new(e) \in Expr \cup {Nothing}
                                     /\ new(e) = Nothing <=> e = Nothing
                                     /\ e \in Expr => new(e) \in Expr
  BY PartAssumption DEF Expr
<1>4. part.params[p] # Nothing /\ part.params[q] = Nothing
  BY <1>1, <1>2 DEF Defined
<1>5. ps \in Params
  <2>1. \A x \in Param : part.params[IF x = q THEN p ELSE x]
                           \in Expr \cup {Nothing}
    BY <1>2 DEF Params
  <2> HIDE DEF new
  <2> QED BY <1>3, <2>1 DEF Params
<1>6. \A x \in Param : part.params[x] # Nothing =>
        new(x) \in Param /\ ps[new(x)] # Nothing
  <2> SUFFICES ASSUME NEW x \in Param, part.params[x] # Nothing
               PROVE  new(x) \in Param /\ ps[new(x)] # Nothing
    OBVIOUS
  <2>1. \A y \in Param : part.params[y] \in Expr \cup {Nothing}
    BY <1>2 DEF Params
  <2>2. CASE x = p
    <3>1. q # p /\ new(x) = q
      BY <1>4, <2>2
    <3>2. ps[q] = new(part.params[p])
      BY <3>1
    <3> HIDE DEF ps, new
    <3> QED BY <1>3, <1>4, <2>1, <3>1, <3>2
  <2>3. CASE x # p
    <3>1. x # q /\ new(x) = x
      BY <1>4, <2>3
    <3>2. ps[x] = new(part.params[x])
      BY <2>3, <3>1
    <3> HIDE DEF ps, new
    <3> QED BY <1>3, <2>1, <3>1, <3>2
  <2> QED BY <2>2, <2>3
<1>7. \A e \in Expr \cup {Nothing} : new(e) \in Param => e \in Param
  BY PartAssumption DEF Expr
<1>8. ASSUME NEW s \in Sketch, part.sketches[s] # Nothing
      PROVE  /\ sks[s] \in SketchOf /\ sks[s].r = new(part.sketches[s].r)
             /\ part.sketches[s].r \in Expr \cup {Nothing}
  <2>1. part.sketches[s] \in SketchOf
    BY <1>2, <1>8 DEF Sketches
  <2>2. sks[s] = [part.sketches[s] EXCEPT !.r = new(@)]
    BY <1>8
  <2> HIDE DEF sks, new
  <2> QED BY <1>3, <2>1, <2>2 DEF SketchOf
<1>9. ASSUME NEW s \in Sketch, part.sketches[s] = Nothing
      PROVE  sks[s] = Nothing
  BY <1>9
<1>10. sks \in Sketches
  <2>1. \A s \in Sketch : sks[s] \in SketchOf \cup {Nothing}
    <3> HIDE DEF sks
    <3> QED BY <1>8, <1>9
  <2> QED BY <2>1 DEF Sketches
<1>11. ASSUME NEW i \in 1..Len(part.features)
       PROVE  /\ fs[i] \in FeatureOf /\ fs[i].size = new(part.features[i].size)
              /\ fs[i].kind = part.features[i].kind
              /\ fs[i].of = part.features[i].of
              /\ part.features[i].size \in Expr \cup {Nothing}
  <2>1. part.features[i] \in FeatureOf /\ i \in DOMAIN part.features
    BY <1>2
  <2>2. fs[i] = [part.features[i] EXCEPT !.size = new(@)]
    BY <2>1
  <2> HIDE DEF fs, new
  <2>3. part.features[i].size \in Expr \cup {Nothing}
    BY <2>1 DEF FeatureOf
  <2> QED BY <1>3, <2>1, <2>2, <2>3 DEF FeatureOf
<1>12. fs \in Seq(FeatureOf) /\ Len(fs) = Len(part.features)
  <2>1. DOMAIN part.features = 1..Len(part.features)
    BY <1>2
  <2>2. fs = [i \in 1..Len(part.features) |-> fs[i]]
    BY <2>1
  <2>3. \A i \in 1..Len(part.features) : fs[i] \in FeatureOf
    BY <1>11
  <2>4. Len(part.features) \in Nat
    BY <1>2
  <2> HIDE DEF fs
  <2> QED BY <2>2, <2>3, <2>4
<1>13. d = PartEdited(part, ps, sks, part.features)
  <2> DEFINE old == PartEdited(part, part.params, part.sketches, part.features)
             mid == PartEdited(part, ps, part.sketches, part.features)
  <2>1. d = [part EXCEPT !.params = ps, !.sketches = sks]
    OBVIOUS
  <2> HIDE DEF ps, sks, d
  <2>2. [old EXCEPT !.params = ps] = mid
    BY DEF PartEdited
  <2>3. [mid EXCEPT !.sketches = sks]
          = PartEdited(part, ps, sks, part.features)
    BY DEF PartEdited
  <2>4. [part EXCEPT !.params = ps, !.sketches = sks]
          = [[part EXCEPT !.params = ps] EXCEPT !.sketches = sks]
    OBVIOUS
  <2> QED BY <1>2, <2>1, <2>2, <2>3, <2>4
<1> HIDE DEF d, fs, ps, sks, new
<1>14. /\ \E W : d \in PartOf(W)
       /\ d.params = ps /\ d.sketches = sks
  BY <1>2, <1>5, <1>10, <1>13, EditedIs DEF PartInv
<1>15. Refs(part, part.features)
  BY DEF PartInv, Whole
<1>16. Refs(d, fs)
  <2>1. ASSUME NEW i \in 1..Len(fs), fs[i].size \in Param
        PROVE  d.params[fs[i].size] # Nothing
    <3>1. part.features[i].size \in Param
      BY <1>7, <1>11, <1>12, <2>1
    <3> QED BY <1>6, <1>11, <1>12, <1>14, <1>15, <3>1 DEF Refs
  <2>2. ASSUME NEW i \in 1..Len(fs), fs[i].kind = "extrude"
        PROVE  d.sketches[fs[i].of] # Nothing
    <3>1. /\ fs[i].of = part.features[i].of /\ fs[i].of \in Sketch
          /\ part.sketches[fs[i].of] # Nothing
      BY <1>11, <1>12, <1>15, <2>2 DEF Refs, FeatureOf
    <3>2. sks[fs[i].of] # Nothing
      <4>1. sks[fs[i].of] \in SketchOf
        BY <1>8, <3>1
      <4>2. PICK r \in Expr \cup {Nothing}, sound \in BOOLEAN :
                sks[fs[i].of] = [r |-> r, sound |-> sound]
        BY <4>1 DEF SketchOf
      <4> QED BY <4>2, PartAssumption DEF Expr
    <3> QED BY <1>14, <3>2
  <2>3. ASSUME NEW s \in Sketch, d.sketches[s] # Nothing,
               d.sketches[s].r \in Param
        PROVE  d.params[d.sketches[s].r] # Nothing
    <3>1. part.sketches[s] # Nothing
      BY <1>9, <1>14, <2>3
    <3>2. part.sketches[s].r \in Param
      BY <1>7, <1>8, <1>14, <2>3, <3>1
    <3> QED BY <1>6, <1>8, <1>14, <1>15, <3>1, <3>2 DEF Refs
  <2> QED BY <2>1, <2>2, <2>3 DEF Refs
<1>17. Outcome(Rebuild(d, fs, 0), FALSE)
  BY <1>2, <1>12, <1>14, <1>16, FullOutcome
<1> QED BY <1>1, <1>17, Keeps

LEMMA DeleteParameterKeeps ==
  ASSUME PartInv, NEW p \in Param, DeleteParameter(p)
  PROVE  PartKept("done")
<1> DEFINE ps == [part.params EXCEPT ![p] = Nothing]
           d == [part EXCEPT !.params[p] = Nothing]
           fs == part.features
<1>1. /\ \A q \in Param \ {p} : part.params[q] # p
      /\ \A s \in Sketch : part.sketches[s] # Nothing =>
                             part.sketches[s].r # p
      /\ \A i \in DOMAIN fs : fs[i].size # p
      /\ Settle(Plain(d), FALSE, "done")
  BY Zenon DEF DeleteParameter, SketchesOf
<1>2. /\ part = PartEdited(part, part.params, part.sketches, fs)
      /\ part.params \in Params /\ part.sketches \in Sketches
      /\ fs \in Seq(FeatureOf)
      /\ Len(fs) \in Nat /\ \A i \in 1..Len(fs) : fs[i] \in FeatureOf
  BY PartIs DEF PartInv
<1>3. ps \in Params /\ ps[p] = Nothing
      /\ \A x \in Param \ {p} : ps[x] = part.params[x]
  BY <1>2 DEF Params
<1>4. d = PartEdited(part, ps, part.sketches, fs)
  <2>1. d = [part EXCEPT !.params = ps]
    OBVIOUS
  <2> HIDE DEF d, ps, fs
  <2>2. [PartEdited(part, part.params, part.sketches, fs) EXCEPT !.params = ps]
          = PartEdited(part, ps, part.sketches, fs)
    BY DEF PartEdited
  <2> QED BY <1>2, <2>1, <2>2
<1> HIDE DEF ps, d
<1>5. /\ \E W : d \in PartOf(W)
      /\ d.params = ps /\ d.sketches = part.sketches /\ d.features = fs
      /\ d.shape = part.shape /\ d.cache = part.cache
      /\ d.sheet = part.sheet
  BY <1>2, <1>3, <1>4, EditedIs DEF PartInv
<1>6. /\ Refs(part, fs) /\ \A i \in 1..Len(fs) : SourceStands(fs, i)
      /\ Whole(part)
  BY DEF PartInv, Whole
<1>7. \A i \in 1..Len(fs) : fs[i].size # p
  BY <1>1, <1>2
<1>8. Refs(d, fs)
  BY <1>1, <1>3, <1>5, <1>6, <1>7 DEF Refs
<1>9. Whole(d)
  <2>1. Len(fs) = Len(part.features)
    OBVIOUS
  <2> HIDE DEF fs
  <2> QED BY <1>2, <1>3, <1>4, <1>6, <1>8, <2>1, EditedWhole
<1>10. DependentClosure(ps, p) \subseteq {p}
  <2>1. \A x \in Param : ps[x] \in {p} => x \in {p}
    BY <1>1, <1>3
  <2>2. p \in {p} /\ {p} \in SUBSET Param
    OBVIOUS
  <2> QED BY <2>1, <2>2 DEF DependentClosure
<1>11. ~stale => History(d)
  <2> SUFFICES ASSUME ~stale PROVE History(d)
    OBVIOUS
  <2>1. ASSUME NEW i \in 1..Len(fs) PROVE BuiltAlike(part, d, fs[i], fs[i])
    <3>1. p \notin Names(d, fs[i])
      <4>1. fs[i] \in FeatureOf
        BY <1>2
      <4>2. fs[i].kind = "extrude" => fs[i].of \in Sketch
        BY <4>1 DEF FeatureOf
      <4> QED BY <1>1, <1>5, <1>7, <4>2 DEF Names
    <3>2. Names(d, fs[i]) \cap DependentClosure(d.params, p) = {}
      BY <1>5, <1>10, <3>1
    <3>3. fs[i] \in FeatureOf
      BY <1>2
    <3> QED BY <1>2, <1>3, <1>5, <3>2, <3>3, AlikeUnaffected
  <2>2. History(part) /\ \E W : part \in PartOf(W)
    BY DEF PartInv, Whole
  <2> QED BY <1>5, <2>1, <2>2, PlainHistory
<1>12. Outcome(Plain(d), FALSE)
  BY <1>9, <1>11, PlainOutcome
<1> QED BY <1>1, <1>12, Keeps

----------------------------------------------------------------------------
(* The commands of sketches.                                               *)

(* A feature is built as before if its numbers and its sketch are.         *)
LEMMA AlikeKept ==
  ASSUME NEW d, NEW d2, d.sketches \in Sketches,
         \A e \in Expr : SameNumber(d.params, d2.params, e),
         NEW f \in FeatureOf,
         f.kind = "extrude" => d2.sketches[f.of] = d.sketches[f.of]
  PROVE  BuiltAlike(d, d2, f, f)
<1>1. f.kind \in {"box", "fillet", "extrude"} => f.size \in Expr
  BY DEF FeatureOf
<1>2. ASSUME f.kind = "extrude", d.sketches[f.of] # Nothing,
             d.sketches[f.of].sound
      PROVE  d.sketches[f.of].r \in Expr
  <2>1. f.of \in Sketch
    BY <1>2 DEF FeatureOf
  <2>2. d.sketches[f.of] \in SketchOf
    BY <1>2, <2>1 DEF Sketches
  <2> QED BY <1>2, <2>2 DEF SketchOf
<1> QED BY <1>1, <1>2 DEF BuiltAlike

LEMMA SameParams ==
  ASSUME NEW ps
  PROVE  \A e : SameNumber(ps, ps, e)
BY DEF SameNumber

(* A new parameter changes no number.                                      *)
LEMMA FreshKeeps ==
  ASSUME NEW ps \in Params, NEW ps2 \in Params, NEW p \in Param,
         ps[p] = Nothing, \A x \in Param \ {p} : ps2[x] = ps[x]
  PROVE  \A e \in Expr : SameNumber(ps, ps2, e)
<1>1. \A x \in Expr \cap Param :
        ps[x] # Nothing => ps[x] \in Expr /\ ps2[x] = ps[x]
  BY DEF Params
<1> QED BY <1>1, ValueKept

(* The part with one sketch changed.                                       *)
LEMMA SketchSet ==
  ASSUME NEW d, Whole(d), NEW s \in Sketch, NEW v \in SketchOf,
         v.r \in Param => d.params[v.r] # Nothing
  PROVE  LET new == [d EXCEPT !.sketches[s] = v] IN
         /\ \E W : new \in PartOf(W)
         /\ new.params = d.params /\ new.sketches[s] = v
         /\ \A t \in Sketch \ {s} : new.sketches[t] = d.sketches[t]
         /\ new.features = d.features /\ new.shape = d.shape
         /\ new.cache = d.cache /\ new.sheet = d.sheet
         /\ Whole(new)
<1> DEFINE new == [d EXCEPT !.sketches[s] = v]
           sks == [d.sketches EXCEPT ![s] = v]
<1>1. /\ d = PartEdited(d, d.params, d.sketches, d.features)
      /\ d.params \in Params /\ d.sketches \in Sketches
      /\ d.features \in Seq(FeatureOf)
  BY PartIs
<1>2. /\ sks \in Sketches /\ sks[s] = v
      /\ \A t \in Sketch \ {s} : sks[t] = d.sketches[t]
  BY <1>1 DEF Sketches
<1>3. new = PartEdited(d, d.params, sks, d.features)
  <2>1. new = [d EXCEPT !.sketches = sks]
    OBVIOUS
  <2> HIDE DEF new, sks
  <2>2. [PartEdited(d, d.params, d.sketches, d.features) EXCEPT !.sketches = sks]
          = PartEdited(d, d.params, sks, d.features)
    BY DEF PartEdited
  <2> QED BY <1>1, <2>1, <2>2
<1> HIDE DEF new, sks
<1>4. /\ \E W : new \in PartOf(W)
      /\ new.params = d.params /\ new.sketches = sks
      /\ new.features = d.features /\ new.shape = d.shape
      /\ new.cache = d.cache /\ new.sheet = d.sheet
  BY <1>1, <1>2, <1>3, EditedIs
<1>5. /\ Refs(d, d.features)
      /\ \A i \in 1..Len(d.features) : SourceStands(d.features, i)
  BY DEF Whole
<1>6. v # Nothing
  <2>1. PICK r \in Expr \cup {Nothing}, sound \in BOOLEAN :
          v = [r |-> r, sound |-> sound]
    BY DEF SketchOf
  <2> QED BY <2>1, PartAssumption DEF Expr
<1>7. Refs(new, d.features)
  <2>1. ASSUME NEW i \in 1..Len(d.features), d.features[i].kind = "extrude"
        PROVE  new.sketches[d.features[i].of] # Nothing
    <3>1. d.features[i].of \in Sketch
      BY <1>1, <2>1 DEF FeatureOf
    <3>2. d.sketches[d.features[i].of] # Nothing
      BY <1>5, <2>1 DEF Refs
    <3> QED BY <1>2, <1>4, <1>6, <3>1, <3>2
  <2>2. ASSUME NEW t \in Sketch, new.sketches[t] # Nothing,
               new.sketches[t].r \in Param
        PROVE  new.params[new.sketches[t].r] # Nothing
    BY <1>2, <1>4, <1>5, <2>2 DEF Refs
  <2> QED BY <1>4, <1>5, <2>1, <2>2 DEF Refs
<1>8. Whole(new)
  BY <1>1, <1>2, <1>3, <1>5, <1>7, EditedWhole
<1> QED BY <1>2, <1>4, <1>8 DEF new

(* The features that use a sketch.                                         *)
LEMMA UsersAre ==
  ASSUME NEW d, Len(d.features) \in Nat,
         DOMAIN d.features = 1..Len(d.features), NEW s
  PROVE  /\ Users(d, s) = {i \in 1..Len(d.features) :
                             /\ d.features[i].kind = "extrude"
                             /\ d.features[i].of = s}
         /\ Users(d, s) # {} =>
              /\ Min(Users(d, s)) \in Users(d, s)
              /\ \A i \in Users(d, s) : Min(Users(d, s)) <= i
<1>1. Users(d, s) = {i \in 1..Len(d.features) :
                       /\ d.features[i].kind = "extrude"
                       /\ d.features[i].of = s}
  BY DEF Users
<1>2. Users(d, s) \in SUBSET Nat
  BY <1>1
<1> QED BY <1>1, <1>2, MinOf

(* Drawing into a sketch replays nothing.                                  *)
LEMMA DrawnOutcome ==
  ASSUME PartInv, NEW s \in Sketch, NEW v \in SketchOf, v.r \notin Param
  PROVE  Outcome(Plain([part EXCEPT !.sketches[s] = v]), Users(part, s) # {})
<1> DEFINE d == [part EXCEPT !.sketches[s] = v]
           fs == part.features
<1>1. /\ \E W : d \in PartOf(W)
      /\ d.params = part.params
      /\ \A t \in Sketch \ {s} : d.sketches[t] = part.sketches[t]
      /\ d.features = fs /\ d.shape = part.shape
      /\ d.cache = part.cache /\ d.sheet = part.sheet
      /\ Whole(d)
  BY SketchSet DEF PartInv
<1> HIDE DEF d
<1>2. /\ part.sketches \in Sketches /\ Len(fs) \in Nat
      /\ fs \in Seq(FeatureOf) /\ \A i \in 1..Len(fs) : fs[i] \in FeatureOf
  BY PartIs DEF PartInv
<1>3. ASSUME ~stale, Users(part, s) = {} PROVE History(d)
  <2>1. ASSUME NEW i \in 1..Len(fs) PROVE BuiltAlike(part, d, fs[i], fs[i])
    <3>1. fs[i].kind = "extrude" => fs[i].of # s
      <4>1. Users(part, s) = {j \in 1..Len(fs) : /\ fs[j].kind = "extrude"
                                                 /\ fs[j].of = s}
        BY <1>2, UsersAre
      <4> HIDE DEF fs
      <4> QED BY <1>3, <4>1
    <3>2. fs[i] \in FeatureOf
      BY <1>2
    <3>3. fs[i].kind = "extrude" =>
            d.sketches[fs[i].of] = part.sketches[fs[i].of]
      BY <1>1, <3>1, <3>2 DEF FeatureOf
    <3>4. \A e \in Expr : SameNumber(part.params, d.params, e)
      BY <1>1, SameParams
    <3> QED BY <1>2, <3>2, <3>3, <3>4, AlikeKept
  <2>2. History(part) /\ \E W : part \in PartOf(W)
    BY <1>3 DEF PartInv, Whole
  <2> QED BY <1>1, <2>1, <2>2, PlainHistory
<1>4. Outcome(Plain(d), Users(part, s) # {})
  <2>1. (Users(part, s) # {}) \in BOOLEAN
    OBVIOUS
  <2>2. ~stale /\ ~(Users(part, s) # {}) => History(d)
    BY <1>3
  <2> QED BY <1>1, <2>1, <2>2, PlainOutcome
<1> QED BY <1>4 DEF d

LEMMA CreateSketchKeeps ==
  ASSUME PartInv, CreateSketch
  PROVE  PartKept("done")
<1> DEFINE s == Cardinality(SketchesOf(part)) + 1
           v == [r |-> Nothing, sound |-> FALSE]
           d == [part EXCEPT !.sketches[s] = v]
<1>1. s \in Sketch /\ Settle(Plain(d), Users(part, s) # {}, "done")
  BY DEF CreateSketch
<1>2. v \in SketchOf /\ v.r \notin Param
  BY PartAssumption DEF SketchOf
<1> HIDE DEF s, v
<1>3. Outcome(Plain(d), Users(part, s) # {})
  BY <1>1, <1>2, DrawnOutcome
<1> QED BY <1>1, <1>3, Keeps

LEMMA DrawKeeps ==
  ASSUME PartInv, NEW s \in Sketch, NEW e \in Literal, NEW sound \in BOOLEAN,
         Draw(s, e, sound)
  PROVE  PartKept("done")
<1> DEFINE v == [r |-> e, sound |-> sound]
           d == [part EXCEPT !.sketches[s] = v]
<1>1. Settle(Plain(d), Users(part, s) # {}, "done")
  BY DEF Draw
<1>2. v \in SketchOf /\ v.r \notin Param
  BY PartAssumption DEF SketchOf, Expr
<1> HIDE DEF v
<1>3. Outcome(Plain(d), Users(part, s) # {})
  BY <1>2, DrawnOutcome
<1> QED BY <1>1, <1>3, Keeps

LEMMA AddDimensionKeeps ==
  ASSUME PartInv, NEW s \in Sketch, NEW e \in Literal, AddDimension(s, e)
  PROVE  PartKept("done")
<1> DEFINE p == FreshParam(part)
           fs == part.features
           ps == [part.params EXCEPT ![p] = e]
           sks == [part.sketches EXCEPT ![s].r = p]
           d == [part EXCEPT !.params[p] = e, !.sketches[s].r = p]
           used == Users(part, s) # {}
           r == IF Resolves(part.params) THEN Plain(d) ELSE Raises(part)
<1>1. /\ s \in SketchesOf(part) /\ Defined(part.params) # Param
      /\ Settle(r, used, "done")
  BY DEF AddDimension
<1>2. /\ part = PartEdited(part, part.params, part.sketches, fs)
      /\ part.params \in Params /\ part.sketches \in Sketches
      /\ fs \in Seq(FeatureOf) /\ Len(fs) \in Nat
      /\ \A i \in 1..Len(fs) : fs[i] \in FeatureOf
  BY PartIs DEF PartInv
<1>3. p \in Param /\ part.params[p] = Nothing
  <2>1. \E x : x \in Param \ Defined(part.params)
    BY <1>1 DEF Defined
  <2>2. p \in Param \ Defined(part.params)
    BY <2>1, Zenon DEF FreshParam
  <2> QED BY <2>2 DEF Defined
<1> HIDE DEF p
<1>4. /\ ps \in Params /\ ps[p] = e
      /\ \A x \in Param \ {p} : ps[x] = part.params[x]
      /\ e # Nothing
  BY <1>2, <1>3, PartAssumption DEF Params, Expr
<1>5. part.sketches[s] # Nothing /\ part.sketches[s] \in SketchOf
  BY <1>1, <1>2 DEF SketchesOf, Sketches
<1>6. /\ sks[s] \in SketchOf /\ sks[s].r = p
      /\ \A t \in Sketch \ {s} : sks[t] = part.sketches[t]
  <2>1. sks[s] = [part.sketches[s] EXCEPT !.r = p]
    BY <1>2 DEF Sketches
  <2>2. p \in Expr \cup {Nothing} /\ p # Nothing
    BY <1>3, PartAssumption DEF Expr
  <2>3. \A t \in Sketch \ {s} : sks[t] = part.sketches[t]
    BY <1>2 DEF Sketches
  <2> HIDE DEF sks
  <2> QED BY <1>5, <2>1, <2>2, <2>3 DEF SketchOf
<1>7. sks \in Sketches
  <2>1. sks = [t \in Sketch |-> sks[t]]
    BY <1>2 DEF Sketches
  <2>2. \A t \in Sketch : sks[t] \in SketchOf \cup {Nothing}
    <3> HIDE DEF sks
    <3> QED BY <1>2, <1>6 DEF Sketches
  <2> HIDE DEF sks
  <2> QED BY <2>1, <2>2 DEF Sketches
<1>8. d = PartEdited(part, ps, sks, fs)
  <2> DEFINE old == PartEdited(part, part.params, part.sketches, fs)
             mid == PartEdited(part, ps, part.sketches, fs)
  <2>1. d = [part EXCEPT !.params = ps, !.sketches = sks]
    OBVIOUS
  <2> HIDE DEF ps, sks, d, fs
  <2>2. [old EXCEPT !.params = ps] = mid
    BY DEF PartEdited
  <2>3. [mid EXCEPT !.sketches = sks] = PartEdited(part, ps, sks, fs)
    BY DEF PartEdited
  <2>4. [part EXCEPT !.params = ps, !.sketches = sks]
          = [[part EXCEPT !.params = ps] EXCEPT !.sketches = sks]
    OBVIOUS
  <2> QED BY <1>2, <2>1, <2>2, <2>3, <2>4
<1> HIDE DEF d, ps, sks, r
<1>9. /\ \E W : d \in PartOf(W)
      /\ d.params = ps /\ d.sketches = sks /\ d.features = fs
      /\ d.shape = part.shape /\ d.cache = part.cache
      /\ d.sheet = part.sheet
  BY <1>2, <1>4, <1>7, <1>8, EditedIs DEF PartInv
<1>10. /\ Whole(part) /\ Refs(part, fs)
       /\ \A i \in 1..Len(fs) : SourceStands(fs, i)
  BY DEF PartInv, Whole
<1>11. Refs(d, fs)
  <2>1. \A x \in Param : part.params[x] # Nothing => ps[x] # Nothing
    BY <1>4
  <2>2. ASSUME NEW i \in 1..Len(fs), fs[i].kind = "extrude"
        PROVE  sks[fs[i].of] # Nothing
    <3>1. fs[i].of \in Sketch /\ part.sketches[fs[i].of] # Nothing
      BY <1>2, <1>10, <2>2 DEF Refs, FeatureOf
    <3>2. sks[s] # Nothing
      <4>1. PICK a \in Expr \cup {Nothing}, sound \in BOOLEAN :
              sks[s] = [r |-> a, sound |-> sound]
        BY <1>6 DEF SketchOf
      <4> QED BY <4>1, PartAssumption DEF Expr
    <3> QED BY <1>6, <3>1, <3>2
  <2>3. ASSUME NEW t \in Sketch, sks[t] # Nothing, sks[t].r \in Param
        PROVE  ps[sks[t].r] # Nothing
    <3>1. CASE t = s
      BY <1>4, <1>6, <3>1
    <3>2. CASE t # s
      BY <1>6, <1>10, <2>1, <2>3, <3>2 DEF Refs
    <3> QED BY <3>1, <3>2
  <2> QED BY <1>9, <1>10, <2>1, <2>2, <2>3 DEF Refs
<1>12. Whole(d)
  <2>1. Len(fs) = Len(part.features)
    OBVIOUS
  <2> HIDE DEF fs
  <2> QED BY <1>2, <1>4, <1>7, <1>8, <1>10, <1>11, <2>1, EditedWhole
<1>13. ASSUME ~stale, ~used PROVE History(d)
  <2>1. ASSUME NEW i \in 1..Len(fs) PROVE BuiltAlike(part, d, fs[i], fs[i])
    <3>1. fs[i].kind = "extrude" => fs[i].of # s
      <4>1. Users(part, s) = {j \in 1..Len(fs) : /\ fs[j].kind = "extrude"
                                                 /\ fs[j].of = s}
        BY <1>2, UsersAre
      <4> HIDE DEF fs
      <4> QED BY <1>13, <4>1
    <3>2. fs[i] \in FeatureOf
      BY <1>2
    <3>3. fs[i].kind = "extrude" =>
            d.sketches[fs[i].of] = part.sketches[fs[i].of]
      BY <1>6, <1>9, <3>1, <3>2 DEF FeatureOf
    <3>4. \A x \in Expr : SameNumber(part.params, d.params, x)
      BY <1>2, <1>3, <1>4, <1>9, FreshKeeps
    <3> QED BY <1>2, <3>2, <3>3, <3>4, AlikeKept
  <2>2. History(part) /\ \E W : part \in PartOf(W)
    BY <1>13 DEF PartInv, Whole
  <2> QED BY <1>9, <2>1, <2>2, PlainHistory
<1> HIDE DEF fs
<1>14. used \in BOOLEAN
  OBVIOUS
<1> HIDE DEF used
<1>15. Outcome(Plain(d), used) /\ Outcome(Raises(part), used)
  BY <1>10, <1>12, <1>13, <1>14, PlainOutcome, RaisesOutcome
<1>16. Outcome(r, used)
  BY <1>15 DEF r
<1> QED BY <1>1, <1>14, <1>16, Keeps

(* A replay from a feature on, of features that are alike before it.       *)
LEMMA SuffixOutcome ==
  ASSUME PartInv, NEW d, \E W : d \in PartOf(W), d.cache = part.cache,
         d.sheet = part.sheet,
         NEW fs \in Seq(FeatureOf), Len(fs) <= MaxFeatures, Refs(d, fs),
         NEW start \in Nat, start <= Len(fs), start <= Len(part.features),
         \A i \in 1..start : SourceStands(fs, i),
         NEW partly \in BOOLEAN,
         ~stale /\ ~partly /\ start # 0 =>
           /\ \A i \in 1..start : BuiltAlike(part, d, part.features[i], fs[i])
           /\ Admits(fs, Len(fs)) /\ SheetAt(fs, Len(fs)) = part.sheet
  PROVE  Outcome(Rebuild(d, fs, start), partly)
<1> DEFINE r == Rebuild(d, fs, start)
<1>1. Sound(r, d, fs, start)
  <2>1. \A i \in 1..Len(fs) : i <= start => SourceStands(fs, i)
    OBVIOUS
  <2> QED BY <2>1, RebuildSound
<1>2. ASSUME ~stale, ~partly, r.ok PROVE History(r.d)
  <2>1. CASE start = 0
    <3> HIDE DEF r
    <3> QED BY <1>1, <1>2, <2>1 DEF Sound
  <2>2. CASE start # 0
    <3>1. History(part) /\ Whole(part)
      BY <1>2 DEF PartInv
    <3> QED BY <1>2, <2>2, <3>1, RebuildHistory
  <2> QED BY <2>1, <2>2
<1> HIDE DEF r
<1>3. Outcome(r, partly)
  BY <1>1, <1>2, SoundOutcome
<1> QED BY <1>3 DEF r

(* After an edit of a sketch: d is the part with it.                       *)
LEMMA AfterSketchOutcome ==
  ASSUME PartInv, NEW d, Whole(d), d.features = part.features,
         d.shape = part.shape, d.cache = part.cache, d.sheet = part.sheet,
         NEW s, NEW partly \in BOOLEAN,
         ~stale /\ ~partly =>
           \A i \in 1..Len(part.features) :
             (\A j \in Users(d, s) : i < j) =>
               BuiltAlike(part, d, part.features[i], part.features[i])
  PROVE  Outcome(AfterSketch(d, s), partly)
<1> DEFINE fs == part.features
           start == Min(Users(d, s)) - 1
           then == Rebuild(d, fs, start)
           r == AfterSketch(d, s)
<1>1. /\ fs \in Seq(FeatureOf) /\ Len(fs) \in Nat /\ Len(fs) <= MaxFeatures
  BY PartIs DEF PartInv
<1>2. /\ \E W : d \in PartOf(W)
      /\ Refs(d, fs) /\ \A i \in 1..Len(fs) : SourceStands(fs, i)
  BY DEF Whole
<1>3. r = IF ~Resolves(d.params) THEN Raises(d)
          ELSE IF Users(d, s) = {} THEN Plain(d) ELSE then
  BY Zenon DEF AfterSketch
<1>4. Outcome(Raises(d), partly)
  BY RaisesOutcome
<1>5. CASE Users(d, s) = {}
  <2>1. ASSUME ~stale, ~partly PROVE History(d)
    <3>1. \A i \in 1..Len(fs) : BuiltAlike(part, d, fs[i], fs[i])
      BY <1>5, <2>1
    <3>2. History(part) /\ \E W : part \in PartOf(W)
      BY <2>1 DEF PartInv, Whole
    <3> QED BY <1>2, <3>1, <3>2, PlainHistory
  <2>2. Outcome(Plain(d), partly)
    BY <2>1, PlainOutcome
  <2> HIDE DEF r
  <2> QED BY <1>3, <1>4, <1>5, <2>2, Zenon DEF r
<1>6. CASE Users(d, s) # {}
  <2>1. /\ start \in Nat /\ start <= Len(fs)
        /\ \A i \in 1..start : i \in 1..Len(fs)
                                 /\ \A j \in Users(d, s) : i < j
    <3>1. /\ Users(d, s) = {i \in 1..Len(fs) : /\ fs[i].kind = "extrude"
                                               /\ fs[i].of = s}
          /\ Min(Users(d, s)) \in Users(d, s)
          /\ \A i \in Users(d, s) : Min(Users(d, s)) <= i
      BY <1>1, <1>6, UsersAre
    <3> DEFINE m == Min(Users(d, s))
    <3>2. m \in 1..Len(fs) /\ Users(d, s) \subseteq Nat
      BY <3>1
    <3>3. start = m - 1 /\ \A i \in Users(d, s) : m <= i
      BY <3>1
    <3> HIDE DEF m, fs, start
    <3> QED BY <1>1, <3>2, <3>3
  <2> HIDE DEF start
  <2>2. ASSUME ~stale, ~partly
        PROVE  /\ \A i \in 1..start :
                    BuiltAlike(part, d, part.features[i], fs[i])
               /\ Admits(fs, Len(fs)) /\ SheetAt(fs, Len(fs)) = part.sheet
    <3>1. Whole(part) /\ History(part)
      BY <2>2 DEF PartInv
    <3>2. Admits(fs, Len(fs)) /\ SheetAt(fs, Len(fs)) = part.sheet
      BY <3>1, HistorySheet
    <3> QED BY <2>1, <2>2, <3>2
  <2>3. Outcome(then, partly)
    <3>1. \A i \in 1..start : SourceStands(fs, i)
      BY <1>2, <2>1
    <3>2. start <= Len(part.features)
      BY <2>1
    <3> HIDE DEF fs
    <3> QED BY <1>1, <1>2, <2>1, <2>2, <3>1, <3>2, SuffixOutcome
  <2> HIDE DEF r, then
  <2> QED BY <1>3, <1>4, <1>6, <2>3, Zenon DEF r
<1> QED BY <1>5, <1>6

LEMMA EditSketchKeeps ==
  ASSUME PartInv, NEW s \in Sketch, NEW e \in Literal, EditSketch(s, e)
  PROVE  PartKept("done")
<1> DEFINE p == part.sketches[s].r
           bound == Bound(part, p)
           v == [part.sketches[s] EXCEPT !.r = e]
           d == IF bound THEN SetTo(part, p, e)
                ELSE [part EXCEPT !.sketches[s].r = e]
           first == IF Users(d, s) = {} THEN MaxFeatures + 1
                    ELSE Min(Users(d, s))
           partly == bound /\ \E i \in Affected(d, p) : i < first
           fs == part.features
<1>1. /\ part.sketches[s] # Nothing /\ p # Nothing
      /\ Settle(AfterSketch(d, s), partly, "done")
  BY Zenon DEF EditSketch, SketchesOf
<1>2. /\ part.sketches \in Sketches /\ part.params \in Params
      /\ fs \in Seq(FeatureOf) /\ Len(fs) \in Nat
      /\ Len(fs) <= MaxFeatures
      /\ DOMAIN fs = 1..Len(fs)
      /\ \A i \in 1..Len(fs) : fs[i] \in FeatureOf
  BY PartIs DEF PartInv
<1>3. MaxFeatures \in Nat
  BY PartAssumption
<1>4. partly \in BOOLEAN
  BY DEF Bound
<1>5. /\ Whole(d) /\ d.features = fs /\ d.shape = part.shape
      /\ d.cache = part.cache /\ d.sheet = part.sheet
      /\ IF bound
         THEN /\ p \in Param /\ d.params \in Params
              /\ d.sketches = part.sketches
              /\ \A x \in Param \ {p} : d.params[x] = part.params[x]
         ELSE /\ d.params = part.params
              /\ \A t \in Sketch \ {s} : d.sketches[t] = part.sketches[t]
  <2>1. CASE bound
    <3>1. d = SetTo(part, p, e)
      BY <2>1
    <3>2. p \in Param /\ e \in Expr
      BY <2>1 DEF Bound, Expr
    <3> HIDE DEF d, p, bound
    <3> QED BY <2>1, <3>1, <3>2, SetToIs DEF PartInv
  <2>2. CASE ~bound
    <3>1. d = [part EXCEPT !.sketches[s] = v]
      BY <2>2
    <3>2. part.sketches[s] \in SketchOf
      BY <1>1, <1>2 DEF Sketches
    <3>3. v \in SketchOf /\ v.r = e
      BY <3>2, PartAssumption DEF SketchOf, Expr
    <3>4. e \notin Param
      BY PartAssumption
    <3> HIDE DEF d, v, bound
    <3> QED BY <2>2, <3>1, <3>3, <3>4, SketchSet DEF PartInv
  <2> QED BY <2>1, <2>2
<1> HIDE DEF d, bound, p
<1>6. ASSUME ~stale, ~partly, NEW i \in 1..Len(fs),
             \A j \in Users(d, s) : i < j
      PROVE  BuiltAlike(part, d, fs[i], fs[i])
  <2>0. fs[i] \in FeatureOf
    BY <1>2
  <2>u. /\ Users(d, s) = {j \in 1..Len(fs) : /\ fs[j].kind = "extrude"
                                             /\ fs[j].of = s}
        /\ Users(d, s) # {} => Min(Users(d, s)) \in Users(d, s)
    BY <1>2, <1>5, UsersAre
  <2>1. CASE bound
    <3>1. i < first
      <4> HIDE DEF fs
      <4> QED BY <1>2, <1>3, <1>6, <2>u
    <3>2. i \notin Affected(d, p)
      <4> HIDE DEF first
      <4> QED BY <1>6, <2>1, <3>1
    <3>3. Names(d, fs[i]) \cap DependentClosure(d.params, p) = {}
      BY <1>2, <1>5, <3>2 DEF Affected
    <3> HIDE DEF fs
    <3> QED BY <1>2, <1>5, <2>0, <2>1, <3>3, AlikeUnaffected
  <2>2. CASE ~bound
    <3>1. i \notin Users(d, s)
      BY <1>6
    <3>2. fs[i].kind = "extrude" => fs[i].of \in Sketch \ {s}
      BY <2>0, <2>u, <3>1 DEF FeatureOf
    <3>3. fs[i].kind = "extrude" =>
            d.sketches[fs[i].of] = part.sketches[fs[i].of]
      BY <1>5, <2>2, <3>2
    <3>4. \A x \in Expr : SameNumber(part.params, d.params, x)
      BY <1>5, <2>2, SameParams
    <3> HIDE DEF fs
    <3> QED BY <1>2, <2>0, <3>3, <3>4, AlikeKept
  <2> QED BY <2>1, <2>2
<1> HIDE DEF partly
<1>7. Outcome(AfterSketch(d, s), partly)
  BY <1>4, <1>5, <1>6, AfterSketchOutcome
<1> QED BY <1>1, <1>4, <1>7, Keeps

LEMMA DeleteEntityKeeps ==
  ASSUME PartInv, NEW s \in Sketch, DeleteEntity(s)
  PROVE  PartKept("done")
<1> DEFINE v == [part.sketches[s] EXCEPT !.sound = TRUE]
           d == [part EXCEPT !.sketches[s].sound = TRUE]
           fs == part.features
<1>1. /\ part.sketches[s] # Nothing /\ part.sketches[s].r # Nothing
      /\ Settle(AfterSketch(d, s), FALSE, "done")
  BY Zenon DEF DeleteEntity, SketchesOf
<1>2. /\ part.sketches \in Sketches /\ Len(fs) \in Nat
      /\ DOMAIN fs = 1..Len(fs) /\ \A i \in 1..Len(fs) : fs[i] \in FeatureOf
  BY PartIs DEF PartInv
<1>3. /\ Whole(d) /\ d.features = fs /\ d.shape = part.shape
      /\ d.cache = part.cache /\ d.sheet = part.sheet
      /\ d.params = part.params
      /\ \A t \in Sketch \ {s} : d.sketches[t] = part.sketches[t]
  <2>1. d = [part EXCEPT !.sketches[s] = v]
    OBVIOUS
  <2>2. part.sketches[s] \in SketchOf
    BY <1>1, <1>2 DEF Sketches
  <2>3. v \in SketchOf /\ v.r = part.sketches[s].r
    BY <1>1, <2>2 DEF SketchOf
  <2>4. v.r \in Param => part.params[v.r] # Nothing
    <3> HIDE DEF v
    <3> QED BY <1>1, <2>3 DEF PartInv, Whole, Refs
  <2> HIDE DEF d, v
  <2> QED BY <2>1, <2>3, <2>4, SketchSet DEF PartInv
<1> HIDE DEF d
<1>4. ASSUME NEW i \in 1..Len(fs), \A j \in Users(d, s) : i < j
      PROVE  BuiltAlike(part, d, fs[i], fs[i])
  <2>0. fs[i] \in FeatureOf
    BY <1>2
  <2>1. i \notin Users(d, s)
    BY <1>4
  <2>2. Users(d, s) = {j \in 1..Len(fs) : /\ fs[j].kind = "extrude"
                                          /\ fs[j].of = s}
    BY <1>2, <1>3, UsersAre
  <2>3. fs[i].kind = "extrude" => fs[i].of \in Sketch \ {s}
    BY <2>0, <2>1, <2>2 DEF FeatureOf
  <2>4. fs[i].kind = "extrude" =>
          d.sketches[fs[i].of] = part.sketches[fs[i].of]
    BY <1>3, <2>3
  <2>5. \A x \in Expr : SameNumber(part.params, d.params, x)
    BY <1>3, SameParams
  <2> HIDE DEF fs
  <2> QED BY <1>2, <2>0, <2>4, <2>5, AlikeKept
<1>5. Outcome(AfterSketch(d, s), FALSE)
  BY <1>3, <1>4, AfterSketchOutcome
<1> QED BY <1>1, <1>5, Keeps

LEMMA RenameSketchKeeps ==
  ASSUME PartInv, NEW s \in Sketch, NEW t \in Sketch, RenameSketch(s, t)
  PROVE  PartKept("done")
<1> DEFINE fs == part.features
           fs2 == [i \in DOMAIN fs |->
                     IF i \in Users(part, s) THEN [fs[i] EXCEPT !.of = t]
                     ELSE fs[i]]
           sks == [part.sketches EXCEPT ![s] = Nothing,
                                        ![t] = part.sketches[s]]
           d == [part EXCEPT
                   !.sketches[s] = Nothing, !.sketches[t] = part.sketches[s],
                   !.features = [i \in DOMAIN @ |->
                      IF i \in Users(part, s) THEN [@[i] EXCEPT !.of = t]
                      ELSE @[i]]]
<1>1. /\ part.sketches[s] # Nothing /\ part.sketches[t] = Nothing
      /\ Settle(Plain(d), FALSE, "done")
  BY DEF RenameSketch, SketchesOf
<1>2. /\ part = PartEdited(part, part.params, part.sketches, fs)
      /\ part.params \in Params /\ part.sketches \in Sketches
      /\ fs \in Seq(FeatureOf) /\ Len(fs) \in Nat
      /\ DOMAIN fs = 1..Len(fs) /\ \A i \in 1..Len(fs) : fs[i] \in FeatureOf
  BY PartIs DEF PartInv
<1>3. s # t
  BY <1>1
<1>4. /\ sks[s] = Nothing /\ sks[t] = part.sketches[s]
      /\ \A x \in Sketch \ {s, t} : sks[x] = part.sketches[x]
  BY <1>2, <1>3 DEF Sketches
<1>5. sks \in Sketches
  <2>1. sks = [x \in Sketch |-> sks[x]]
    BY <1>2 DEF Sketches
  <2>2. \A x \in Sketch : sks[x] \in SketchOf \cup {Nothing}
    <3> HIDE DEF sks
    <3> QED BY <1>2, <1>4 DEF Sketches
  <2> HIDE DEF sks
  <2> QED BY <2>1, <2>2 DEF Sketches
<1>6. ASSUME NEW i \in 1..Len(fs)
      PROVE  /\ fs2[i] \in FeatureOf
             /\ fs2[i].kind = fs[i].kind /\ fs2[i].name = fs[i].name
             /\ fs2[i].off = fs[i].off /\ fs2[i].size = fs[i].size
             /\ fs2[i].of = IF fs[i].kind = "extrude" /\ fs[i].of = s THEN t
                            ELSE fs[i].of
  <2>0. Users(part, s) = {j \in 1..Len(fs) : /\ fs[j].kind = "extrude"
                                             /\ fs[j].of = s}
    BY <1>2, UsersAre
  <2>1. fs[i] \in FeatureOf
    BY <1>2
  <2>2. CASE i \in Users(part, s)
    <3>1. fs2[i] = [fs[i] EXCEPT !.of = t]
      BY <1>2, <2>2
    <3>2. fs[i].kind = "extrude" /\ fs[i].of = s
      BY <2>0, <2>2
    <3>3. t \in Target
      BY DEF Target
    <3> HIDE DEF fs2, fs
    <3> QED BY <2>1, <3>1, <3>2, <3>3 DEF FeatureOf
  <2>3. CASE i \notin Users(part, s)
    <3>1. fs2[i] = fs[i]
      BY <1>2, <2>3
    <3>2. ~(fs[i].kind = "extrude" /\ fs[i].of = s)
      BY <2>0, <2>3
    <3> HIDE DEF fs2, fs
    <3> QED BY <2>1, <3>1, <3>2
  <2> QED BY <2>2, <2>3
<1>7. fs2 \in Seq(FeatureOf) /\ Len(fs2) = Len(fs)
  <2>1. fs2 = [i \in 1..Len(fs) |-> fs2[i]]
    BY <1>2
  <2>2. \A i \in 1..Len(fs) : fs2[i] \in FeatureOf
    BY <1>6
  <2> HIDE DEF fs2
  <2> QED BY <1>2, <2>1, <2>2
<1>8. d = PartEdited(part, part.params, sks, fs2)
  <2> DEFINE old == PartEdited(part, part.params, part.sketches, fs)
             mid == PartEdited(part, part.params, sks, fs)
  <2>1. d = [part EXCEPT !.sketches = sks, !.features = fs2]
    OBVIOUS
  <2> HIDE DEF sks, d, fs, fs2
  <2>2. [old EXCEPT !.sketches = sks] = mid
    BY DEF PartEdited
  <2>3. [mid EXCEPT !.features = fs2] = PartEdited(part, part.params, sks, fs2)
    BY DEF PartEdited
  <2>4. [part EXCEPT !.sketches = sks, !.features = fs2]
          = [[part EXCEPT !.sketches = sks] EXCEPT !.features = fs2]
    OBVIOUS
  <2> QED BY <1>2, <2>1, <2>2, <2>3, <2>4
<1> HIDE DEF d, sks, fs2
<1>9. /\ \E W : d \in PartOf(W)
      /\ d.params = part.params /\ d.sketches = sks /\ d.features = fs2
      /\ d.shape = part.shape /\ d.cache = part.cache
      /\ d.sheet = part.sheet
  BY <1>2, <1>5, <1>7, <1>8, EditedIs DEF PartInv
<1>10. /\ Whole(part) /\ Refs(part, fs)
       /\ \A i \in 1..Len(fs) : SourceStands(fs, i)
  BY DEF PartInv, Whole
<1>11. ASSUME NEW i \in 1..Len(fs), fs[i].kind = "extrude"
       PROVE  /\ fs2[i].of \in Sketch /\ part.sketches[fs[i].of] # Nothing
              /\ sks[fs2[i].of] = part.sketches[fs[i].of]
  <2>1. fs[i].of \in Sketch /\ part.sketches[fs[i].of] # Nothing
    BY <1>2, <1>10, <1>11 DEF Refs, FeatureOf
  <2>2. fs[i].of # t
    BY <1>1, <2>1
  <2> HIDE DEF fs
  <2> QED BY <1>4, <1>6, <1>11, <2>1, <2>2
<1> HIDE DEF fs
<1>12. Refs(d, fs2)
  <2>1. ASSUME NEW i \in 1..Len(fs2), fs2[i].size \in Param
        PROVE  d.params[fs2[i].size] # Nothing
    BY <1>6, <1>7, <1>9, <1>10, <2>1 DEF Refs
  <2>2. ASSUME NEW i \in 1..Len(fs2), fs2[i].kind = "extrude"
        PROVE  d.sketches[fs2[i].of] # Nothing
    BY <1>6, <1>7, <1>9, <1>11, <2>2
  <2>3. ASSUME NEW x \in Sketch, d.sketches[x] # Nothing,
               d.sketches[x].r \in Param
        PROVE  d.params[d.sketches[x].r] # Nothing
    <3>1. CASE x = t
      BY <1>1, <1>4, <1>9, <1>10, <2>3, <3>1 DEF Refs
    <3>2. CASE x # t
      BY <1>4, <1>9, <1>10, <2>3, <3>2 DEF Refs
    <3> QED BY <3>1, <3>2
  <2> QED BY <2>1, <2>2, <2>3 DEF Refs
<1>13. \A i \in 1..Len(fs2) : SourceStands(fs2, i)
  <2> SUFFICES ASSUME NEW i \in 1..Len(fs2), fs2[i].kind = "pattern",
                      ~fs2[i].off
               PROVE  \E j \in 1..(i - 1) : fs2[j].name = fs2[i].of
    BY DEF SourceStands
  <2>1. fs[i].kind = "pattern" /\ ~fs[i].off /\ fs2[i].of = fs[i].of
    BY <1>6, <1>7
  <2>2. PICK j \in 1..(i - 1) : fs[j].name = fs[i].of
    BY <1>7, <1>10, <2>1 DEF SourceStands
  <2>3. j \in 1..Len(fs)
    BY <1>2, <1>7, <2>2
  <2>4. fs2[j].name = fs[j].name
    BY <1>6, <2>3
  <2> QED BY <2>1, <2>2, <2>4
<1>14. Whole(d)
  <2>1. Len(fs2) = Len(part.features)
    BY <1>7 DEF fs
  <2> QED BY <1>2, <1>5, <1>7, <1>8, <1>10, <1>12, <1>13, <2>1, EditedWhole
<1>15. ASSUME ~stale PROVE History(d)
  <2>1. ASSUME NEW i \in 1..Len(fs) PROVE BuiltAlike(part, d, fs[i], fs2[i])
    <3>1. \A e : SameNumber(part.params, d.params, e)
      BY <1>9, SameParams
    <3> QED BY <1>6, <1>9, <1>11, <3>1 DEF BuiltAlike
  <2>2. History(part) /\ \E W : part \in PartOf(W)
    BY <1>15 DEF PartInv, Whole
  <2>3. \A i \in 1..Len(d.features) :
          BuiltAlike(part, d, part.features[i], d.features[i])
    BY <1>7, <1>9, <2>1 DEF fs
  <2>4. Len(d.features) = Len(part.features)
    BY <1>7, <1>9 DEF fs
  <2> QED BY <1>9, <2>2, <2>3, <2>4, PlainHistory
<1>16. Outcome(Plain(d), FALSE)
  BY <1>14, <1>15, PlainOutcome
<1> QED BY <1>1, <1>16, Keeps

(* Features that are the same for the sheet-metal state.                   *)
SameMetal(f, g) ==
  /\ g.kind = f.kind /\ (OfSheetMetal(f) => g.off = f.off)
  /\ f.kind = "flange" => g.of = f.of

(* The sheet-metal state is one of the features up to a point.             *)
LEMMA SameSheet ==
  ASSUME NEW fs, NEW gs, NEW k \in Nat,
         \A i \in 1..k : SameMetal(fs[i], gs[i]), NEW n \in 0..k
  PROVE  SheetAt(gs, n) = SheetAt(fs, n) /\ (Admits(fs, n) => Admits(gs, n))
<1>1. \A i \in 1..k : /\ IsBase(gs, i) <=> IsBase(fs, i)
                      /\ IsFlange(gs, i) <=> IsFlange(fs, i)
                      /\ IsFlange(fs, i) => gs[i].of = fs[i].of
  BY DEF SameMetal, OfSheetMetal, IsBase, IsFlange
<1>2. ASSUME NEW m \in 0..k
      PROVE  SheetAt(gs, m) = SheetAt(fs, m)
  <2>1. \A j \in 0..m : BaseIn(gs, j, m) <=> BaseIn(fs, j, m)
    <3>1. \A j \in 0..m : \A b \in (j + 1)..m : b \in 1..k
      OBVIOUS
    <3> QED BY <1>1, <3>1 DEF BaseIn
  <2>2. FlangesOn(gs, m) = FlangesOn(fs, m)
    <3>1. \A j \in 1..m : j \in 1..k /\ j \in 0..m
      OBVIOUS
    <3> QED BY <1>1, <2>1, <3>1 DEF FlangesOn
  <2>3. \A j \in FlangesOn(fs, m) : gs[j].of = fs[j].of
    <3>1. \A j \in 1..m : j \in 1..k
      OBVIOUS
    <3> QED BY <1>1, <3>1 DEF FlangesOn
  <2>4. {gs[j].of : j \in FlangesOn(gs, m)}
          = {fs[j].of : j \in FlangesOn(fs, m)}
    BY <2>2, <2>3
  <2>5. BaseIn(gs, 0, m) <=> BaseIn(fs, 0, m)
    <3>1. 0 \in 0..m
      OBVIOUS
    <3> QED BY <2>1, <3>1
  <2> QED BY <2>4, <2>5, Zenon DEF SheetAt
<1>3. ASSUME Admits(fs, n) PROVE Admits(gs, n)
  <2> SUFFICES ASSUME NEW j \in 1..n, IsFlange(gs, j)
               PROVE  /\ SheetAt(gs, j - 1) # Nothing
                      /\ gs[j].of \notin SheetAt(gs, j - 1)
    BY DEF Admits
  <2>1. j \in 1..k /\ j - 1 \in 0..k
    OBVIOUS
  <2>2. IsFlange(fs, j) /\ gs[j].of = fs[j].of
    BY <1>1, <2>1
  <2>3. SheetAt(gs, j - 1) = SheetAt(fs, j - 1)
    BY <1>2, <2>1
  <2>4. /\ SheetAt(fs, j - 1) # Nothing
        /\ fs[j].of \notin SheetAt(fs, j - 1)
    BY <1>3, <2>2 DEF Admits
  <2> QED BY <2>2, <2>3, <2>4
<1> QED BY <1>2, <1>3

(* No base or flange after it changes it.                                  *)
LEMMA SheetStays ==
  ASSUME NEW fs, NEW k \in Nat, NEW n \in Nat, k <= n,
         \A i \in (k + 1)..n : fs[i].off \/ ~OfSheetMetal(fs[i])
  PROVE  SheetAt(fs, n) = SheetAt(fs, k) /\ (Admits(fs, n) <=> Admits(fs, k))
<1>1. \A i \in (k + 1)..n : ~IsBase(fs, i) /\ ~IsFlange(fs, i)
  BY DEF OfSheetMetal, IsBase, IsFlange
<1>2. \A j \in 0..k : BaseIn(fs, j, n) <=> BaseIn(fs, j, k)
  <2> SUFFICES ASSUME NEW j \in 0..k
               PROVE  BaseIn(fs, j, n) <=> BaseIn(fs, j, k)
    OBVIOUS
  <2>1. \A b \in (j + 1)..n : b \in (j + 1)..k \/ b \in (k + 1)..n
    OBVIOUS
  <2>2. \A b \in (j + 1)..k : b \in (j + 1)..n
    OBVIOUS
  <2> QED BY <1>1, <2>1, <2>2, Zenon DEF BaseIn
<1>3. FlangesOn(fs, n) = FlangesOn(fs, k)
  <2>1. \A j \in 1..n : j \in 1..k \/ j \in (k + 1)..n
    OBVIOUS
  <2>2. \A j \in 1..k : j \in 1..n /\ j \in 0..k
    OBVIOUS
  <2> QED BY <1>1, <1>2, <2>1, <2>2, Zenon DEF FlangesOn
<1>4. BaseIn(fs, 0, n) <=> BaseIn(fs, 0, k)
  <2>1. 0 \in 0..k
    OBVIOUS
  <2> QED BY <1>2, <2>1
<1>5. SheetAt(fs, n) = SheetAt(fs, k)
  BY <1>3, <1>4, Zenon DEF SheetAt
<1>6. Admits(fs, n) <=> Admits(fs, k)
  <2>1. \A j \in 1..n : j \in 1..k \/ j \in (k + 1)..n
    OBVIOUS
  <2>2. \A j \in 1..k : j \in 1..n
    OBVIOUS
  <2> QED BY <1>1, <2>1, <2>2, Zenon DEF Admits
<1> QED BY <1>5, <1>6

LEMMA DeleteSketchKeeps ==
  ASSUME PartInv, NEW s \in Sketch, NEW dependents, DeleteSketch(s, dependents)
  PROVE  PartKept("done")
<1> DEFINE fs == part.features
           d == [part EXCEPT !.sketches[s] = Nothing]
           sks == [part.sketches EXCEPT ![s] = Nothing]
           users == Users(part, s)
           kept == IF users = {} THEN 0 ELSE Min(users) - 1
           gs == IF users = {} THEN fs ELSE SubSeq(fs, 1, kept)
           partly == \E i \in DOMAIN fs :
                       kept > 0 /\ i > kept /\ OfSheetMetal(fs[i])
<1>1. /\ part = PartEdited(part, part.params, part.sketches, fs)
      /\ part.params \in Params /\ part.sketches \in Sketches
      /\ fs \in Seq(FeatureOf) /\ Len(fs) \in Nat /\ Len(fs) <= MaxFeatures
      /\ DOMAIN fs = 1..Len(fs) /\ \A i \in 1..Len(fs) : fs[i] \in FeatureOf
  BY PartIs DEF PartInv
<1>2. /\ sks \in Sketches /\ sks[s] = Nothing
      /\ \A t \in Sketch \ {s} : sks[t] = part.sketches[t]
  BY <1>1 DEF Sketches
<1>3. d = PartEdited(part, part.params, sks, fs)
  <2>1. d = [part EXCEPT !.sketches = sks]
    OBVIOUS
  <2> HIDE DEF sks, d, fs
  <2>2. [PartEdited(part, part.params, part.sketches, fs) EXCEPT !.sketches = sks]
          = PartEdited(part, part.params, sks, fs)
    BY DEF PartEdited
  <2> QED BY <1>1, <2>1, <2>2
<1> HIDE DEF d, sks
<1>4. /\ \E W : d \in PartOf(W)
      /\ d.params = part.params /\ d.sketches = sks /\ d.features = fs
      /\ d.cache = part.cache /\ d.sheet = part.sheet
  BY <1>1, <1>2, <1>3, EditedIs DEF PartInv
<1>5. Settle(Rebuild(d, gs, kept), partly, "done")
  <2>1. d.features = fs
    BY <1>4
  <2> QED BY <2>1 DEF DeleteSketch, d
<1>6. /\ Refs(part, fs) /\ \A i \in 1..Len(fs) : SourceStands(fs, i)
      /\ Whole(part)
  BY DEF PartInv, Whole
<1>7. /\ kept \in Nat /\ kept <= Len(fs) /\ (users = {} => kept = 0)
      /\ users # {} => kept < Len(fs)
      /\ \A i \in 1..Len(fs) : i \notin users \/ i > kept
      /\ \A i \in users : i \in 1..Len(fs)
      /\ users = {i \in 1..Len(fs) : fs[i].kind = "extrude" /\ fs[i].of = s}
  <2>1. /\ users = {i \in 1..Len(fs) : fs[i].kind = "extrude" /\ fs[i].of = s}
        /\ users # {} => /\ Min(users) \in users
                         /\ \A i \in users : Min(users) <= i
    BY <1>1, UsersAre
  <2> DEFINE m == Min(users)
  <2>2. kept = IF users = {} THEN 0 ELSE m - 1
    OBVIOUS
  <2>3. users # {} => m \in 1..Len(fs) /\ \A i \in users : m <= i
    BY <2>1
  <2> HIDE DEF m, users, kept, fs
  <2> QED BY <1>1, <2>1, <2>2, <2>3
<1>8. /\ gs \in Seq(FeatureOf) /\ Len(gs) <= Len(fs) /\ kept <= Len(gs)
      /\ kept # 0 => Len(gs) = kept
      /\ \A i \in 1..Len(gs) : gs[i] = fs[i] /\ i \in 1..Len(fs)
                               /\ i \notin users
  <2> HIDE DEF users, kept, fs
  <2>1. CASE users = {}
    <3>1. gs = fs
      BY <2>1
    <3> HIDE DEF gs
    <3>2. kept = 0 /\ Len(fs) \in Nat /\ fs \in Seq(FeatureOf)
      BY <1>1, <1>7, <2>1
    <3>3. \A i \in 1..Len(gs) : gs[i] = fs[i] /\ i \in 1..Len(fs)
                                /\ i \notin users
      BY <2>1, <3>1
    <3> QED BY <3>1, <3>2, <3>3
  <2>2. CASE users # {}
    <3>1. gs = SubSeq(fs, 1, kept)
      BY <2>2
    <3> HIDE DEF gs
    <3>0. fs \in Seq(FeatureOf) /\ kept \in 0..Len(fs)
      BY <1>1, <1>7
    <3>2. /\ gs \in Seq(FeatureOf) /\ Len(gs) = kept
          /\ \A i \in 1..kept : gs[i] = fs[i]
      BY <3>0, <3>1
    <3> QED BY <1>1, <1>7, <2>2, <3>2
  <2> QED BY <2>1, <2>2
<1> HIDE DEF gs, kept, users, fs
<1>9. ASSUME NEW i \in 1..Len(gs), gs[i].kind = "extrude"
      PROVE  /\ gs[i].of \in Sketch \ {s}
             /\ sks[gs[i].of] = part.sketches[gs[i].of]
             /\ part.sketches[gs[i].of] # Nothing
  <2>1. gs[i] = fs[i] /\ i \in 1..Len(fs) /\ i \notin users
    BY <1>8
  <2>2. fs[i].of \in Sketch /\ fs[i].of # s
    BY <1>1, <1>7, <1>9, <2>1 DEF FeatureOf
  <2> QED BY <1>2, <1>6, <1>9, <2>1, <2>2 DEF Refs
<1>10. Refs(d, gs)
  <2>1. ASSUME NEW i \in 1..Len(gs), gs[i].size \in Param
        PROVE  d.params[gs[i].size] # Nothing
    BY <1>4, <1>6, <1>8, <2>1 DEF Refs
  <2>2. ASSUME NEW t \in Sketch, d.sketches[t] # Nothing,
               d.sketches[t].r \in Param
        PROVE  d.params[d.sketches[t].r] # Nothing
    BY <1>2, <1>4, <1>6, <2>2 DEF Refs
  <2> QED BY <1>4, <1>9, <2>1, <2>2 DEF Refs
<1>11. \A i \in 1..kept : i \in 1..Len(gs) /\ i \in 1..Len(fs)
  BY <1>1, <1>7, <1>8
<1>12. \A i \in 1..kept : SourceStands(gs, i)
  <2> SUFFICES ASSUME NEW i \in 1..kept, gs[i].kind = "pattern", ~gs[i].off
               PROVE  \E j \in 1..(i - 1) : gs[j].name = gs[i].of
    BY DEF SourceStands
  <2>1. fs[i] = gs[i]
    BY <1>8, <1>11
  <2>2. PICK j \in 1..(i - 1) : fs[j].name = fs[i].of
    BY <1>6, <1>11, <2>1 DEF SourceStands
  <2>3. j \in 1..kept
    BY <1>7, <2>2
  <2> QED BY <1>8, <1>11, <2>1, <2>2, <2>3
<1>13. partly \in BOOLEAN
  OBVIOUS
<1>14. ASSUME ~stale, ~partly, kept # 0
       PROVE  /\ \A i \in 1..kept : BuiltAlike(part, d, fs[i], gs[i])
              /\ Admits(gs, Len(gs)) /\ SheetAt(gs, Len(gs)) = part.sheet
  <2>1. ASSUME NEW i \in 1..kept PROVE BuiltAlike(part, d, fs[i], gs[i])
    <3>1. gs[i] = fs[i] /\ fs[i] \in FeatureOf
      BY <1>1, <1>8, <1>11
    <3>2. fs[i].kind = "extrude" =>
            d.sketches[fs[i].of] = part.sketches[fs[i].of]
      BY <1>4, <1>9, <1>11, <3>1
    <3>3. \A e \in Expr : SameNumber(part.params, d.params, e)
      BY <1>4, SameParams
    <3> QED BY <1>1, <3>1, <3>2, <3>3, AlikeKept
  <2>2. Admits(fs, Len(fs)) /\ SheetAt(fs, Len(fs)) = part.sheet
    <3>1. Whole(part) /\ History(part)
      BY <1>14 DEF PartInv
    <3> QED BY <3>1, HistorySheet DEF fs
  <2>3. \A i \in (kept + 1)..Len(fs) : fs[i].off \/ ~OfSheetMetal(fs[i])
    <3>1. \A i \in (kept + 1)..Len(fs) : i \in 1..Len(fs) /\ i > kept
      BY <1>1, <1>7
    <3>2. kept > 0
      BY <1>7, <1>14
    <3> QED BY <1>1, <1>14, <3>1, <3>2
  <2>4. SheetAt(fs, Len(fs)) = SheetAt(fs, kept) /\ Admits(fs, kept)
    <3> HIDE DEF partly
    <3> QED BY <1>1, <1>7, <2>2, <2>3, SheetStays
  <2>5. \A i \in 1..kept : SameMetal(fs[i], gs[i])
    BY <1>8, <1>11 DEF SameMetal
  <2>6. kept \in 0..kept /\ Len(gs) = kept
    BY <1>7, <1>8, <1>14
  <2>7. SheetAt(gs, kept) = SheetAt(fs, kept) /\ Admits(gs, kept)
    BY <1>7, <2>4, <2>5, <2>6, SameSheet
  <2> QED BY <2>1, <2>2, <2>4, <2>6, <2>7
<1> HIDE DEF partly
<1>15. Outcome(Rebuild(d, gs, kept), partly)
  <2>1. Len(gs) <= MaxFeatures /\ kept <= Len(part.features)
    BY <1>1, <1>7, <1>8, PartAssumption DEF fs
  <2> QED BY <1>4, <1>7, <1>8, <1>10, <1>12, <1>13, <1>14, <2>1, SuffixOutcome
          DEF fs
<1> QED BY <1>5, <1>13, <1>15, Keeps

----------------------------------------------------------------------------
(* The commands of features.                                               *)

(* The part with other features.                                           *)
LEMMA FeaturesSet ==
  ASSUME NEW d, Whole(d), NEW fs \in Seq(FeatureOf)
  PROVE  LET new == [d EXCEPT !.features = fs] IN
         /\ \E W : new \in PartOf(W)
         /\ new.params = d.params /\ new.sketches = d.sketches
         /\ new.features = fs /\ new.shape = d.shape
         /\ new.cache = d.cache /\ new.sheet = d.sheet
<1> DEFINE new == [d EXCEPT !.features = fs]
<1>1. /\ d = PartEdited(d, d.params, d.sketches, d.features)
      /\ d.params \in Params /\ d.sketches \in Sketches
  BY PartIs
<1>2. new = PartEdited(d, d.params, d.sketches, fs)
  <2>1. [PartEdited(d, d.params, d.sketches, d.features) EXCEPT !.features = fs]
          = PartEdited(d, d.params, d.sketches, fs)
    BY DEF PartEdited
  <2> QED BY <1>1, <2>1
<1> HIDE DEF new
<1>3. /\ \E W : new \in PartOf(W)
      /\ new.params = d.params /\ new.sketches = d.sketches
      /\ new.features = fs /\ new.shape = d.shape
      /\ new.cache = d.cache /\ new.sheet = d.sheet
  BY <1>1, <1>2, EditedIs
<1> QED BY <1>3 DEF new

(* Features that are found in the part refer to what is there.             *)
LEMMA RefsOfSame ==
  ASSUME NEW d, Whole(d), NEW gs, Len(gs) \in Nat,
         \A i \in 1..Len(gs) : \E j \in 1..Len(d.features) :
           /\ gs[i].kind = d.features[j].kind
           /\ gs[i].size \notin Param \/ gs[i].size = d.features[j].size
           /\ gs[i].kind = "extrude" => gs[i].of = d.features[j].of
  PROVE  Refs(d, gs)
<1>1. Refs(d, d.features)
  BY DEF Whole
<1> QED BY <1>1 DEF Refs

(* A change of the i-th feature: the ones before it are as they were, and  *)
(* those after it are of the same kinds.                                   *)
LEMMA ChangedOutcome ==
  ASSUME PartInv, NEW i \in 1..Len(part.features), NEW partly \in BOOLEAN,
         NEW gs \in Seq(FeatureOf), Len(gs) = Len(part.features),
         Refs(part, gs),
         NEW d, \E W : d \in PartOf(W), d.params = part.params,
         d.sketches = part.sketches,
         d.cache = part.cache, d.sheet = part.sheet,
         \A j \in 1..(i - 1) : gs[j] = part.features[j],
         ~partly => \A j \in 1..Len(gs) : SameMetal(part.features[j], gs[j])
  PROVE  Outcome(Rebuild(d, gs, i - 1), partly)
<1> DEFINE fs == part.features
           start == i - 1
<1>1. /\ part.sketches \in Sketches /\ Len(fs) \in Nat
      /\ Len(fs) <= MaxFeatures
      /\ \A j \in 1..Len(fs) : fs[j] \in FeatureOf
  BY PartIs DEF PartInv
<1>2. /\ start \in Nat /\ start <= Len(gs) /\ start <= Len(fs)
      /\ \A j \in 1..start : gs[j] = fs[j] /\ j \in 1..Len(fs)
                             /\ \A x \in 1..(j - 1) : x \in 1..start
  BY <1>1
<1>3. \A j \in 1..Len(fs) : SourceStands(fs, j)
  BY DEF PartInv, Whole
<1> HIDE DEF start
<1>4. \A j \in 1..start : SourceStands(gs, j)
  BY <1>2, <1>3 DEF SourceStands
<1>5. Refs(d, gs)
  BY DEF Refs
<1>6. ASSUME ~stale, ~partly
      PROVE  /\ \A j \in 1..start : BuiltAlike(part, d, fs[j], gs[j])
             /\ Admits(gs, Len(gs)) /\ SheetAt(gs, Len(gs)) = part.sheet
  <2>1. Admits(fs, Len(fs)) /\ SheetAt(fs, Len(fs)) = part.sheet
    <3>1. Whole(part) /\ History(part)
      BY <1>6 DEF PartInv
    <3> QED BY <3>1, HistorySheet
  <2>2. SheetAt(gs, Len(fs)) = SheetAt(fs, Len(fs)) /\ Admits(gs, Len(fs))
    <3>1. \A j \in 1..Len(fs) : SameMetal(fs[j], gs[j])
      BY <1>6
    <3>2. Len(fs) \in 0..Len(fs)
      BY <1>1
    <3> HIDE DEF fs
    <3> QED BY <1>1, <2>1, <3>1, <3>2, SameSheet
  <2>3. ASSUME NEW j \in 1..start PROVE BuiltAlike(part, d, fs[j], gs[j])
    <3>1. gs[j] = fs[j] /\ fs[j] \in FeatureOf
      BY <1>1, <1>2
    <3>2. \A e \in Expr : SameNumber(part.params, d.params, e)
      BY SameParams
    <3> HIDE DEF fs
    <3> QED BY <1>1, <3>1, <3>2, AlikeKept
  <2> QED BY <2>1, <2>2, <2>3
<1>7. Outcome(Rebuild(d, gs, start), partly)
  <2>1. Len(gs) <= MaxFeatures /\ start <= Len(part.features)
    BY <1>1, <1>2
  <2> QED BY <1>2, <1>4, <1>5, <1>6, <2>1, SuffixOutcome
<1> QED BY <1>7 DEF start

LEMMA EditFeatureKeeps ==
  ASSUME PartInv, NEW i, NEW e \in Literal, EditFeature(i, e)
  PROVE  PartKept("done")
<1> DEFINE fs == part.features
           p == fs[i].size
           bound == Bound(part, p)
           d == IF bound THEN SetTo(part, p, e)
                ELSE [part EXCEPT !.features[i].size = e]
           partly == bound /\ \E j \in Affected(d, p) : j < i
           r == Rebuild(d, d.features, i - 1)
<1>1. /\ i \in DOMAIN fs /\ p # Nothing
      /\ Settle(r, partly, "done")
  BY Zenon DEF EditFeature, FirstNamed
<1>2. /\ part.params \in Params /\ part.sketches \in Sketches
      /\ fs \in Seq(FeatureOf) /\ Len(fs) \in Nat /\ Len(fs) <= MaxFeatures
      /\ DOMAIN fs = 1..Len(fs) /\ \A j \in 1..Len(fs) : fs[j] \in FeatureOf
  BY PartIs DEF PartInv
<1>3. /\ Whole(part) /\ Refs(part, fs)
      /\ \A j \in 1..Len(fs) : SourceStands(fs, j)
  BY DEF PartInv, Whole
<1>4. i \in 1..Len(fs) /\ i - 1 \in Nat /\ i - 1 <= Len(fs)
      /\ \A j \in 1..(i - 1) : j \in 1..Len(fs)
  BY <1>1, <1>2
<1>5. partly \in BOOLEAN
  BY DEF Bound
<1>6. CASE bound
  <2>0. d = SetTo(part, p, e) /\ p \in Param /\ e \in Expr
    BY <1>6 DEF Bound, Expr
  <2> HIDE DEF p, d
  <2>1. /\ \E W : d \in PartOf(W)
        /\ d.params \in Params
        /\ \A x \in Param \ {p} : d.params[x] = part.params[x]
        /\ d.sketches = part.sketches /\ d.features = fs
        /\ d.cache = part.cache /\ d.sheet = part.sheet
        /\ Refs(d, fs)
    BY <1>3, <2>0, SetToIs
  <2>2. ASSUME ~stale, ~partly
        PROVE  /\ \A j \in 1..(i - 1) : BuiltAlike(part, d, fs[j], fs[j])
               /\ Admits(fs, Len(fs)) /\ SheetAt(fs, Len(fs)) = part.sheet
    <3>1. Admits(fs, Len(fs)) /\ SheetAt(fs, Len(fs)) = part.sheet
      <4>1. History(part)
        BY <2>2 DEF PartInv
      <4> QED BY <1>3, <4>1, HistorySheet
    <3>2. ASSUME NEW j \in 1..(i - 1) PROVE BuiltAlike(part, d, fs[j], fs[j])
      <4>1. j \in 1..Len(fs) /\ j < i
        BY <1>4
      <4>2. j \notin Affected(d, p)
        BY <1>6, <2>2, <4>1
      <4>3. Names(d, fs[j]) \cap DependentClosure(d.params, p) = {}
        BY <1>2, <2>1, <4>1, <4>2 DEF Affected
      <4>4. fs[j] \in FeatureOf
        BY <1>2, <4>1
      <4> HIDE DEF fs
      <4> QED BY <1>2, <2>0, <2>1, <4>3, <4>4, AlikeUnaffected
    <3> QED BY <3>1, <3>2
  <2> HIDE DEF partly, r
  <2>3. Outcome(Rebuild(d, fs, i - 1), partly)
    <3>1. \A j \in 1..(i - 1) : SourceStands(fs, j)
      BY <1>3, <1>4
    <3>2. /\ part.features = fs
          /\ ~stale /\ ~partly /\ i - 1 # 0 =>
              /\ \A j \in 1..(i - 1) :
                   BuiltAlike(part, d, part.features[j], fs[j])
              /\ Admits(fs, Len(fs)) /\ SheetAt(fs, Len(fs)) = part.sheet
      BY <2>2
    <3> HIDE DEF fs
    <3> QED BY <1>2, <1>4, <1>5, <2>1, <3>1, <3>2, SuffixOutcome
  <2>4. r = Rebuild(d, fs, i - 1)
    BY <2>1 DEF r
  <2> QED BY <1>1, <1>5, <2>3, <2>4, Keeps
<1>7. CASE ~bound
  <2> DEFINE gs == [fs EXCEPT ![i].size = e]
  <2>1. ~partly
    BY <1>7
  <2>2. /\ gs[i] = [fs[i] EXCEPT !.size = e]
        /\ \A j \in 1..Len(fs) : j # i => gs[j] = fs[j]
        /\ gs = [j \in 1..Len(fs) |-> gs[j]]
    BY <1>2, <1>4
  <2>3. d = [part EXCEPT !.features = gs]
    BY <1>7
  <2> HIDE DEF gs, d, bound
  <2>4. /\ gs[i] \in FeatureOf /\ gs[i].kind = fs[i].kind
        /\ gs[i].of = fs[i].of /\ gs[i].off = fs[i].off
        /\ gs[i].size = e
    <3>1. e \in Expr /\ fs[i] \in FeatureOf
      BY <1>2, <1>4 DEF Expr
    <3> HIDE DEF fs
    <3> QED BY <2>2, <3>1 DEF FeatureOf
  <2>5. \A j \in 1..Len(fs) : gs[j] \in FeatureOf
    BY <1>2, <2>2, <2>4
  <2>6. gs \in Seq(FeatureOf) /\ Len(gs) = Len(fs)
    <3> HIDE DEF fs
    <3> QED BY <1>2, <2>2, <2>5
  <2>7. /\ \E W : d \in PartOf(W)
        /\ d.params = part.params /\ d.sketches = part.sketches
        /\ d.features = gs /\ d.cache = part.cache /\ d.sheet = part.sheet
    BY <1>3, <2>3, <2>6, FeaturesSet
  <2>8. Refs(part, gs)
    <3>1. e \notin Param
      BY PartAssumption
    <3>2. \A j \in 1..Len(gs) : \E x \in 1..Len(fs) :
            /\ gs[j].kind = fs[x].kind
            /\ gs[j].size \notin Param \/ gs[j].size = fs[x].size
            /\ gs[j].kind = "extrude" => gs[j].of = fs[x].of
      BY <2>2, <2>4, <2>6, <3>1
    <3>3. Len(gs) \in Nat
      BY <1>2, <2>6
    <3> QED BY <1>3, <3>2, <3>3, RefsOfSame
  <2>9. /\ \A j \in 1..(i - 1) : gs[j] = fs[j]
        /\ \A j \in 1..Len(gs) : SameMetal(fs[j], gs[j])
    <3>1. \A j \in 1..(i - 1) : j # i
      BY <1>4
    <3> QED BY <1>4, <2>2, <2>4, <2>6, <3>1 DEF SameMetal
  <2>10. Outcome(Rebuild(d, gs, i - 1), partly)
    <3> HIDE DEF partly, p
    <3>1. /\ i \in 1..Len(part.features) /\ Len(gs) = Len(part.features)
          /\ \A j \in 1..(i - 1) : gs[j] = part.features[j]
          /\ \A j \in 1..Len(gs) : SameMetal(part.features[j], gs[j])
      BY <1>4, <2>6, <2>9
    <3> HIDE DEF fs
    <3> QED BY <1>5, <2>6, <2>7, <2>8, <3>1, ChangedOutcome
  <2> HIDE DEF partly, r
  <2>11. r = Rebuild(d, gs, i - 1)
    BY <2>7 DEF r
  <2> QED BY <1>1, <1>5, <2>10, <2>11, Keeps
<1> QED BY <1>6, <1>7

LEMMA RenameFeatureKeeps ==
  ASSUME PartInv, NEW i, NEW n \in Nat, RenameFeature(i, n)
  PROVE  PartKept("done")
<1> DEFINE fs == part.features
           name == <<fs[i].kind, n>>
           old == fs[i].name
           gs == [j \in DOMAIN fs |->
                    IF j = i THEN [fs[j] EXCEPT !.name = name]
                    ELSE IF /\ j > i /\ fs[j].kind = "pattern"
                            /\ fs[j].of = old
                    THEN [fs[j] EXCEPT !.of = name]
                    ELSE fs[j]]
<1>1. /\ i \in DOMAIN fs
      /\ Settle(Rebuild(part, gs, i - 1), FALSE, "done")
  BY Zenon DEF RenameFeature, FirstNamed
<1>2. /\ fs \in Seq(FeatureOf) /\ Len(fs) \in Nat
      /\ DOMAIN fs = 1..Len(fs) /\ \A j \in 1..Len(fs) : fs[j] \in FeatureOf
  BY PartIs DEF PartInv
<1>3. Whole(part) /\ \E W : part \in PartOf(W)
  BY DEF PartInv, Whole
<1>4. i \in 1..Len(fs) /\ i \in Nat
  BY <1>1, <1>2
<1>5. /\ gs[i] = [fs[i] EXCEPT !.name = name]
      /\ \A j \in 1..Len(fs) : j # i =>
           gs[j] = fs[j] \/ (/\ j > i /\ fs[j].kind = "pattern"
                             /\ gs[j] = [fs[j] EXCEPT !.of = name])
      /\ gs = [j \in 1..Len(fs) |-> gs[j]]
  BY <1>2, <1>4
<1>6. name \in Kinds \X Nat
  <2>1. fs[i] \in FeatureOf
    BY <1>2, <1>4
  <2> QED BY <2>1 DEF FeatureOf
<1> HIDE DEF gs, name
<1>7. ASSUME NEW j \in 1..Len(fs)
      PROVE  /\ gs[j] \in FeatureOf /\ gs[j].kind = fs[j].kind
             /\ gs[j].off = fs[j].off /\ gs[j].size = fs[j].size
             /\ fs[j].kind # "pattern" => gs[j].of = fs[j].of
             /\ j < i => gs[j] = fs[j]
  <2>1. fs[j] \in FeatureOf /\ j \in Nat
    BY <1>2
  <2>2. name \in Target
    BY <1>6 DEF Target
  <2> HIDE DEF fs
  <2>3. CASE j = i
    BY <1>5, <1>6, <2>1, <2>3 DEF FeatureOf
  <2>4. CASE gs[j] = fs[j]
    BY <2>1, <2>4
  <2>5. CASE /\ j > i /\ fs[j].kind = "pattern"
             /\ gs[j] = [fs[j] EXCEPT !.of = name]
    <3>1. ~(j < i)
      BY <1>4, <2>1, <2>5
    <3> QED BY <2>1, <2>2, <2>5, <3>1 DEF FeatureOf
  <2> QED BY <1>5, <2>3, <2>4, <2>5
<1>8. gs \in Seq(FeatureOf) /\ Len(gs) = Len(fs)
  <2>1. \A j \in 1..Len(fs) : gs[j] \in FeatureOf
    BY <1>7
  <2> HIDE DEF fs
  <2> QED BY <1>2, <1>5, <2>1
<1>9. Refs(part, gs)
  <2>1. \A j \in 1..Len(gs) : \E x \in 1..Len(fs) :
          /\ gs[j].kind = fs[x].kind
          /\ gs[j].size \notin Param \/ gs[j].size = fs[x].size
          /\ gs[j].kind = "extrude" => gs[j].of = fs[x].of
    BY <1>7, <1>8
  <2>2. Len(gs) \in Nat
    BY <1>2, <1>8
  <2> QED BY <1>3, <2>1, <2>2, RefsOfSame
<1>10. /\ \A j \in 1..(i - 1) : gs[j] = fs[j]
       /\ \A j \in 1..Len(gs) : SameMetal(fs[j], gs[j])
  <2>1. \A j \in 1..(i - 1) : j \in 1..Len(fs) /\ j < i
    BY <1>2, <1>4
  <2> QED BY <1>7, <1>8, <2>1 DEF SameMetal
<1>11. Outcome(Rebuild(part, gs, i - 1), FALSE)
  <2>1. /\ i \in 1..Len(part.features) /\ Len(gs) = Len(part.features)
        /\ \A j \in 1..(i - 1) : gs[j] = part.features[j]
        /\ \A j \in 1..Len(gs) : SameMetal(part.features[j], gs[j])
    BY <1>4, <1>8, <1>10
  <2> HIDE DEF fs
  <2> QED BY <1>3, <1>8, <1>9, <2>1, ChangedOutcome
<1> QED BY <1>1, <1>11, Keeps

LEMMA SuppressKeeps ==
  ASSUME PartInv, NEW i, NEW off \in BOOLEAN, Suppress(i, off)
  PROVE  PartKept("done")
<1> DEFINE fs == part.features
           gs == [fs EXCEPT ![i].off = off]
           partly == OfSheetMetal(fs[i])
<1>1. /\ i \in DOMAIN fs
      /\ Settle(Rebuild(part, gs, i - 1), partly, "done")
  BY Zenon DEF Suppress, FirstNamed
<1>2. /\ fs \in Seq(FeatureOf) /\ Len(fs) \in Nat
      /\ DOMAIN fs = 1..Len(fs) /\ \A j \in 1..Len(fs) : fs[j] \in FeatureOf
  BY PartIs DEF PartInv
<1>3. Whole(part) /\ \E W : part \in PartOf(W)
  BY DEF PartInv, Whole
<1>4. i \in 1..Len(fs) /\ i \in Nat
  BY <1>1, <1>2
<1>5. /\ gs[i] = [fs[i] EXCEPT !.off = off]
      /\ \A j \in 1..Len(fs) : j # i => gs[j] = fs[j]
      /\ gs = [j \in 1..Len(fs) |-> gs[j]]
  BY <1>2, <1>4
<1> HIDE DEF gs
<1>6. /\ gs[i] \in FeatureOf /\ gs[i].kind = fs[i].kind
      /\ gs[i].of = fs[i].of /\ gs[i].size = fs[i].size
  <2>1. fs[i] \in FeatureOf
    BY <1>2, <1>4
  <2> HIDE DEF fs
  <2> QED BY <1>5, <2>1 DEF FeatureOf
<1>7. gs \in Seq(FeatureOf) /\ Len(gs) = Len(fs)
  <2>1. \A j \in 1..Len(fs) : gs[j] \in FeatureOf
    BY <1>2, <1>5, <1>6
  <2> HIDE DEF fs
  <2> QED BY <1>2, <1>5, <2>1
<1>8. Refs(part, gs)
  <2>1. \A j \in 1..Len(gs) : \E x \in 1..Len(fs) :
          /\ gs[j].kind = fs[x].kind
          /\ gs[j].size \notin Param \/ gs[j].size = fs[x].size
          /\ gs[j].kind = "extrude" => gs[j].of = fs[x].of
    BY <1>5, <1>6, <1>7
  <2>2. Len(gs) \in Nat
    BY <1>2, <1>7
  <2> QED BY <1>3, <2>1, <2>2, RefsOfSame
<1>9. \A j \in 1..(i - 1) : gs[j] = fs[j]
  <2>1. \A j \in 1..(i - 1) : j \in 1..Len(fs) /\ j # i
    BY <1>2, <1>4
  <2> QED BY <1>5, <2>1
<1>10. ~partly => \A j \in 1..Len(gs) : SameMetal(fs[j], gs[j])
  BY <1>5, <1>6, <1>7 DEF SameMetal
<1>11. partly \in BOOLEAN
  BY DEF OfSheetMetal
<1> HIDE DEF partly
<1>12. Outcome(Rebuild(part, gs, i - 1), partly)
  <2>1. /\ i \in 1..Len(part.features) /\ Len(gs) = Len(part.features)
        /\ \A j \in 1..(i - 1) : gs[j] = part.features[j]
        /\ ~partly => \A j \in 1..Len(gs) : SameMetal(part.features[j], gs[j])
    BY <1>4, <1>7, <1>9, <1>10
  <2> HIDE DEF fs
  <2> QED BY <1>3, <1>7, <1>8, <1>11, <2>1, ChangedOutcome
<1> QED BY <1>1, <1>11, <1>12, Keeps

LEMMA RemovedIs ==
  ASSUME NEW V, NEW fs \in Seq(V), NEW i \in 1..Len(fs)
  PROVE  LET gs == RemoveAt(fs, i) IN
         /\ gs \in Seq(V) /\ Len(gs) = Len(fs) - 1
         /\ \A j \in 1..Len(gs) : gs[j] = IF j < i THEN fs[j] ELSE fs[j + 1]
<1> DEFINE a == SubSeq(fs, 1, i - 1)
           b == SubSeq(fs, i + 1, Len(fs))
           gs == RemoveAt(fs, i)
<1>0. Len(fs) \in Nat /\ i \in Nat /\ 1 <= i /\ i <= Len(fs)
  OBVIOUS
<1>1. /\ a \in Seq(V) /\ Len(a) = i - 1
      /\ \A j \in 1..(i - 1) : a[j] = fs[j]
  BY <1>0
<1>2. /\ b \in Seq(V) /\ Len(b) = Len(fs) - i
      /\ \A j \in 1..(Len(fs) - i) : b[j] = fs[i + j]
  <2>1. \A j \in 1..(Len(fs) - i) : (i + 1) + j - 1 = i + j
    BY <1>0
  <2>2. b \in Seq(V) /\ Len(b) = Len(fs) - i
    BY <1>0
  <2>3. \A j \in 1..(Len(fs) - i) : b[j] = fs[(i + 1) + j - 1]
    BY <1>0
  <2> QED BY <2>1, <2>2, <2>3
<1>3. gs = a \o b
  BY DEF RemoveAt
<1> HIDE DEF a, b, gs
<1>4. /\ gs \in Seq(V) /\ Len(gs) = Len(fs) - 1
      /\ \A j \in 1..Len(gs) : gs[j] = IF j <= Len(a) THEN a[j]
                                       ELSE b[j - Len(a)]
  BY <1>0, <1>1, <1>2, <1>3
<1>5. ASSUME NEW j \in 1..Len(gs)
      PROVE  gs[j] = IF j < i THEN fs[j] ELSE fs[j + 1]
  <2>1. CASE j < i
    <3>1. j \in 1..(i - 1) /\ j <= Len(a)
      BY <1>0, <1>1, <2>1
    <3> QED BY <1>1, <1>4, <2>1, <3>1
  <2>2. CASE ~(j < i)
    <3>1. /\ j - Len(a) \in 1..(Len(fs) - i) /\ ~(j <= Len(a))
          /\ i + (j - Len(a)) = j + 1
      BY <1>0, <1>1, <1>4, <2>2
    <3>2. b[j - Len(a)] = fs[j + 1]
      BY <1>2, <3>1
    <3> QED BY <1>4, <2>2, <3>1, <3>2
  <2> QED BY <2>1, <2>2
<1> QED BY <1>4, <1>5 DEF gs

(* Every element of hs is x or one of gs.                                  *)
MadeOf(hs, gs, x) ==
  \A j \in 1..Len(hs) : hs[j] = x \/ \E k \in 1..Len(gs) : hs[j] = gs[k]

LEMMA InsertedIs ==
  ASSUME NEW V, NEW fs \in Seq(V), NEW i \in 1..(Len(fs) + 1), NEW x \in V
  PROVE  LET gs == InsertAt(fs, i, x) IN
         gs \in Seq(V) /\ Len(gs) = Len(fs) + 1 /\ MadeOf(gs, fs, x)
<1> DEFINE a == SubSeq(fs, 1, i - 1)
           b == SubSeq(fs, i, Len(fs))
           c == a \o <<x>>
           gs == InsertAt(fs, i, x)
<1>0. Len(fs) \in Nat /\ i \in Nat /\ 1 <= i /\ i <= Len(fs) + 1
  OBVIOUS
<1>1. /\ a \in Seq(V) /\ Len(a) = i - 1
      /\ \A j \in 1..(i - 1) : a[j] = fs[j]
  BY <1>0
<1>2. /\ b \in Seq(V) /\ Len(b) = Len(fs) + 1 - i
      /\ \A j \in 1..(Len(fs) + 1 - i) : b[j] = fs[i + j - 1]
  BY <1>0
<1>3. gs = c \o b
  BY DEF InsertAt
<1>4. /\ c \in Seq(V) /\ Len(c) = i
      /\ \A j \in 1..i : c[j] = IF j < i THEN a[j] ELSE x
  <2> HIDE DEF a
  <2> QED BY <1>0, <1>1
<1> HIDE DEF a, b, c, gs
<1>5. /\ gs \in Seq(V) /\ Len(gs) = Len(fs) + 1
      /\ \A j \in 1..Len(gs) : gs[j] = IF j <= Len(c) THEN c[j]
                                       ELSE b[j - Len(c)]
  <2>1. c \in Seq(V) /\ b \in Seq(V)
    BY <1>2, <1>4
  <2>2. gs \in Seq(V) /\ Len(gs) = Len(c) + Len(b)
        /\ \A j \in 1..(Len(c) + Len(b)) :
             gs[j] = IF j <= Len(c) THEN c[j] ELSE b[j - Len(c)]
    BY <1>3, <2>1
  <2>3. Len(c) + Len(b) = Len(fs) + 1
    BY <1>0, <1>2, <1>4
  <2> QED BY <2>2, <2>3
<1>6. ASSUME NEW j \in 1..Len(gs)
      PROVE  gs[j] = x \/ \E k \in 1..Len(fs) : gs[j] = fs[k]
  <2>1. CASE j < i
    <3>1. j \in 1..i /\ j \in 1..(i - 1) /\ j <= Len(c) /\ j \in 1..Len(fs)
      BY <1>0, <1>4, <2>1
    <3> QED BY <1>1, <1>4, <1>5, <2>1, <3>1
  <2>2. CASE j = i
    <3>1. j \in 1..i /\ j <= Len(c) /\ ~(j < i)
      BY <1>0, <1>4, <2>2
    <3> QED BY <1>4, <1>5, <3>1
  <2>3. CASE j > i
    <3>1. /\ j - Len(c) \in 1..(Len(fs) + 1 - i) /\ ~(j <= Len(c))
          /\ i + (j - Len(c)) - 1 \in 1..Len(fs)
      BY <1>0, <1>4, <1>5, <2>3
    <3> QED BY <1>2, <1>5, <3>1
  <2> QED BY <1>0, <2>1, <2>2, <2>3
<1> QED BY <1>5, <1>6 DEF gs, MadeOf

(* Without a feature that is not of sheet metal, the state is the same.    *)
LEMMA SheetRemoved ==
  ASSUME NEW fs, NEW gs, NEW n \in Nat, NEW i \in 1..n,
         ~OfSheetMetal(fs[i]), Admits(fs, n),
         \A j \in 1..(n - 1) : gs[j] = IF j < i THEN fs[j] ELSE fs[j + 1]
  PROVE  SheetAt(gs, n - 1) = SheetAt(fs, n) /\ Admits(gs, n - 1)
<1> DEFINE Good(m) == SheetAt(gs, m - 1) = SheetAt(fs, m)
                      /\ Admits(gs, m - 1)
           T == {k \in Nat : i + k <= n => Good(i + k)}
<1>0. i \in Nat /\ i - 1 \in Nat /\ i - 1 <= i
  OBVIOUS
<1>1. \A m \in 0..n : Admits(fs, m)
  <2>1. \A m \in 0..n : \A j \in 1..m : j \in 1..n
    OBVIOUS
  <2> QED BY <2>1, Zenon DEF Admits
<1>2. 0 \in T
  <2>1. \A j \in 1..(i - 1) : SameMetal(fs[j], gs[j])
    <3>1. \A j \in 1..(i - 1) : j \in 1..(n - 1) /\ j < i
      OBVIOUS
    <3> QED BY <3>1 DEF SameMetal
  <2>2. i - 1 \in 0..(i - 1) /\ i - 1 \in 0..n /\ i + 0 = i
    BY <1>0
  <2>3. SheetAt(gs, i - 1) = SheetAt(fs, i - 1) /\ Admits(gs, i - 1)
    BY <1>0, <1>1, <2>1, <2>2, SameSheet
  <2>4. \A j \in ((i - 1) + 1)..i : fs[j].off \/ ~OfSheetMetal(fs[j])
    <3>1. \A j \in ((i - 1) + 1)..i : j = i
      BY <1>0
    <3> QED BY <3>1
  <2>5. SheetAt(fs, i) = SheetAt(fs, i - 1)
    BY <1>0, <2>4, SheetStays
  <2> QED BY <2>2, <2>3, <2>5
<1>3. ASSUME NEW k \in Nat, k \in T PROVE k + 1 \in T
  <2> DEFINE m == i + k
  <2> SUFFICES ASSUME m + 1 <= n PROVE Good(m + 1)
    BY <1>0
  <2>1. /\ m \in Nat \ {0} /\ m + 1 \in Nat \ {0} /\ m <= n
        /\ m + 1 \in 1..n /\ m \in 1..(n - 1) /\ ~(m < i)
        /\ (m + 1) - 1 = m /\ m + 1 \in 1..(m + 1) /\ m + 1 \in 0..n
    BY <1>0
  <2>2. Good(m)
    BY <1>3, <2>1
  <2> HIDE DEF m
  <2>3. gs[m] = fs[m + 1]
    BY <2>1
  <2>4. IsFlange(fs, m + 1) => /\ SheetAt(fs, m) # Nothing
                               /\ fs[m + 1].of \notin SheetAt(fs, m)
    BY <1>1, <2>1 DEF Admits
  <2>5. IsFlange(gs, m) => /\ SheetAt(gs, m - 1) # Nothing
                           /\ gs[m].of \notin SheetAt(gs, m - 1)
    BY <2>2, <2>3, <2>4 DEF IsFlange
  <2>6. SheetAt(gs, m) = IF gs[m].off THEN SheetAt(gs, m - 1)
                         ELSE SheetAfter(gs[m], SheetAt(gs, m - 1))
    BY <2>1, <2>5, SheetGoes
  <2>7. SheetAt(fs, m + 1) = IF fs[m + 1].off THEN SheetAt(fs, m)
                             ELSE SheetAfter(fs[m + 1], SheetAt(fs, m))
    BY <2>1, <2>4, SheetGoes
  <2>8. SheetAt(gs, m) = SheetAt(fs, m + 1)
    BY <2>2, <2>3, <2>6, <2>7
  <2>9. Admits(gs, m)
    <3>1. \A j \in 1..m : j = m \/ j \in 1..(m - 1)
      BY <2>1
    <3> QED BY <2>2, <2>5, <3>1 DEF Admits
  <2> QED BY <2>1, <2>8, <2>9
<1>4. Nat \subseteq T
  <2> HIDE DEF T
  <2> QED BY <1>2, <1>3, Induction
<1>5. n - i \in Nat /\ i + (n - i) = n /\ i + (n - i) <= n
  BY <1>0
<1>6. Good(i + (n - i))
  <2> HIDE DEF Good
  <2> QED BY <1>4, <1>5
<1> QED BY <1>5, <1>6

LEMMA DeleteFeatureKeeps ==
  ASSUME PartInv, NEW i, DeleteFeature(i)
  PROVE  PartKept("done")
<1> DEFINE fs == part.features
           gs == RemoveAt(fs, i)
           partly == OfSheetMetal(fs[i])
<1>1. /\ i \in DOMAIN fs
      /\ Settle(Rebuild(part, gs, i - 1), partly, "done")
  BY Zenon DEF DeleteFeature, FirstNamed
<1>2. /\ part.sketches \in Sketches
      /\ fs \in Seq(FeatureOf) /\ Len(fs) \in Nat /\ Len(fs) <= MaxFeatures
      /\ DOMAIN fs = 1..Len(fs) /\ \A j \in 1..Len(fs) : fs[j] \in FeatureOf
  BY PartIs DEF PartInv
<1>3. /\ Whole(part) /\ \E W : part \in PartOf(W)
      /\ \A j \in 1..Len(fs) : SourceStands(fs, j)
  BY DEF PartInv, Whole
<1>4. i \in 1..Len(fs) /\ i \in Nat /\ i - 1 \in Nat /\ i - 1 <= Len(fs)
      /\ i - 1 <= Len(fs) - 1 /\ Len(fs) - 1 \in Nat
  BY <1>1, <1>2
<1> HIDE DEF fs
<1>5. /\ gs \in Seq(FeatureOf) /\ Len(gs) = Len(fs) - 1
      /\ \A j \in 1..Len(gs) : gs[j] = IF j < i THEN fs[j] ELSE fs[j + 1]
  BY <1>2, <1>4, RemovedIs
<1> HIDE DEF gs
<1>6. \A j \in 1..(i - 1) : /\ gs[j] = fs[j] /\ j \in 1..Len(fs)
                            /\ \A x \in 1..(j - 1) : x \in 1..(i - 1)
  <2>1. \A j \in 1..(i - 1) : j \in 1..Len(gs) /\ j < i /\ j \in 1..Len(fs)
    BY <1>2, <1>4, <1>5
  <2> QED BY <1>4, <1>5, <2>1
<1>7. Refs(part, gs)
  <2>1. \A j \in 1..Len(gs) : \E x \in 1..Len(fs) : gs[j] = fs[x]
    <3>1. \A j \in 1..Len(gs) : j \in 1..Len(fs) /\ j + 1 \in 1..Len(fs)
      BY <1>2, <1>5
    <3> QED BY <1>5, <3>1
  <2>2. Len(gs) \in Nat
    BY <1>4, <1>5
  <2> QED BY <1>3, <2>1, <2>2, RefsOfSame DEF fs
<1>8. \A j \in 1..(i - 1) : SourceStands(gs, j)
  BY <1>3, <1>6 DEF SourceStands
<1>9. partly \in BOOLEAN
  BY DEF OfSheetMetal
<1>10. ASSUME ~stale, ~partly
       PROVE  /\ \A j \in 1..(i - 1) : BuiltAlike(part, part, fs[j], gs[j])
              /\ Admits(gs, Len(gs)) /\ SheetAt(gs, Len(gs)) = part.sheet
  <2>1. Admits(fs, Len(fs)) /\ SheetAt(fs, Len(fs)) = part.sheet
    <3>1. History(part)
      BY <1>10 DEF PartInv
    <3> QED BY <1>3, <3>1, HistorySheet DEF fs
  <2>2. SheetAt(gs, Len(fs) - 1) = SheetAt(fs, Len(fs))
        /\ Admits(gs, Len(fs) - 1)
    BY <1>2, <1>4, <1>5, <1>10, <2>1, SheetRemoved
  <2>3. ASSUME NEW j \in 1..(i - 1) PROVE BuiltAlike(part, part, fs[j], gs[j])
    <3>1. gs[j] = fs[j] /\ fs[j] \in FeatureOf
      BY <1>2, <1>6
    <3>2. \A e \in Expr : SameNumber(part.params, part.params, e)
      BY SameParams
    <3> QED BY <1>2, <3>1, <3>2, AlikeKept
  <2> QED BY <1>5, <2>1, <2>2, <2>3
<1> HIDE DEF partly
<1>11. Outcome(Rebuild(part, gs, i - 1), partly)
  <2>1. /\ Len(gs) <= MaxFeatures /\ i - 1 <= Len(gs)
        /\ i - 1 <= Len(part.features)
    BY <1>2, <1>4, <1>5, PartAssumption DEF fs
  <2> QED BY <1>3, <1>4, <1>5, <1>7, <1>8, <1>9, <1>10, <2>1, SuffixOutcome
          DEF fs
<1> QED BY <1>1, <1>9, <1>11, Keeps

LEMMA RepositionKeeps ==
  ASSUME PartInv, NEW i, NEW dest, Reposition(i, dest)
  PROVE  PartKept("done")
<1> DEFINE fs == part.features
           gs == RemoveAt(fs, i)
           hs == InsertAt(gs, dest, fs[i])
<1>s. /\ i \in DOMAIN fs /\ dest \in DOMAIN fs \ {i}
      /\ Settle(OrBack(Rebuild(part, hs, 0)), FALSE, "done")
  BY Zenon DEF Reposition, FirstNamed
<1>1. i \in DOMAIN fs /\ dest \in DOMAIN fs
  BY <1>s
<1>2. /\ fs \in Seq(FeatureOf) /\ Len(fs) \in Nat /\ Len(fs) <= MaxFeatures
      /\ DOMAIN fs = 1..Len(fs) /\ \A j \in 1..Len(fs) : fs[j] \in FeatureOf
  BY PartIs DEF PartInv
<1>3. Whole(part) /\ \E W : part \in PartOf(W)
  BY DEF PartInv, Whole
<1> HIDE DEF fs
<1>4. /\ gs \in Seq(FeatureOf) /\ Len(gs) = Len(fs) - 1
      /\ \A j \in 1..Len(gs) : gs[j] = IF j < i THEN fs[j] ELSE fs[j + 1]
  BY <1>1, <1>2, RemovedIs
<1> HIDE DEF gs
<1>5. /\ hs \in Seq(FeatureOf) /\ Len(hs) = Len(gs) + 1
      /\ MadeOf(hs, gs, fs[i])
  <2>1. dest \in 1..(Len(gs) + 1) /\ fs[i] \in FeatureOf
    BY <1>1, <1>2, <1>4
  <2> QED BY <1>4, <2>1, InsertedIs
<1> HIDE DEF hs
<1>6. Refs(part, hs)
  <2>1. \A k \in 1..Len(gs) : \E x \in 1..Len(fs) : gs[k] = fs[x]
    <3>1. \A k \in 1..Len(gs) : k \in 1..Len(fs) /\ k + 1 \in 1..Len(fs)
      BY <1>2, <1>4
    <3> QED BY <1>4, <3>1
  <2>2. \A j \in 1..Len(hs) : \E x \in 1..Len(fs) : hs[j] = fs[x]
    BY <1>1, <1>2, <1>5, <2>1 DEF MadeOf
  <2>3. Len(hs) \in Nat
    BY <1>2, <1>4, <1>5
  <2> QED BY <1>3, <2>2, <2>3, RefsOfSame DEF fs
<1>7. Outcome(Rebuild(part, hs, 0), FALSE)
        /\ Sound(Rebuild(part, hs, 0), part, hs, 0)
  <2>1. Len(hs) <= MaxFeatures
    BY <1>2, <1>4, <1>5
  <2> QED BY <1>3, <1>5, <1>6, <2>1, FullOutcome
<1>8. Outcome(OrBack(Rebuild(part, hs, 0)), FALSE)
  <2> DEFINE r == Rebuild(part, hs, 0)
             b == Rebuild(r.d, fs, 0)
  <2>1. CASE r.ok
    BY <1>7, <2>1 DEF OrBack
  <2>2. CASE ~r.ok
    <3>1. /\ \E W : r.d \in PartOf(W)
          /\ r.d.params = part.params /\ r.d.sketches = part.sketches
      BY <1>7 DEF Sound, Whole
    <3>2. Refs(r.d, fs)
      BY <1>3, <3>1 DEF Whole, Refs, fs
    <3>3. Sound(b, r.d, fs, 0)
      BY <1>2, <3>1, <3>2, FullOutcome
    <3>4. Whole(b.d)
      BY <3>3 DEF Sound
    <3>5. OrBack(r) = Raises(b.d)
      BY <2>2 DEF OrBack, fs
    <3> QED BY <3>4, <3>5, RaisesOutcome
  <2> QED BY <2>1, <2>2
<1> QED BY <1>s, <1>8, Keeps

(* d is the part, or the part with one more parameter.                     *)
LEMMA AddOutcome ==
  ASSUME PartInv, NEW d, Whole(d), d.features = part.features,
         d.shape = part.shape, d.cache = part.cache, d.sheet = part.sheet,
         d.sketches = part.sketches,
         \A e \in Expr : SameNumber(part.params, d.params, e),
         Len(part.features) < MaxFeatures,
         NEW f \in FeatureOf, ~f.off,
         f.size \in Param => d.params[f.size] # Nothing,
         f.kind = "extrude" => d.sketches[f.of] # Nothing
  PROVE  Outcome(AddFeature(d, f), FALSE)
<1> DEFINE fs == part.features
           n == Len(fs)
           gs == Append(fs, f)
           e == Effects(d, gs)
           x == e[n + 1]
           X == {e[i] : i \in 1..Len(gs)}
           s == AtHand(d)
           at == Apply(f, Last(e), s)
           new == [d EXCEPT !.features = gs, !.shape = at.shape,
                            !.sheet = at.sheet, !.cache = at.cache]
           r == AddFeature(d, f)
<1>1. /\ fs \in Seq(FeatureOf) /\ n \in Nat
      /\ \A i \in 1..n : fs[i] \in FeatureOf
      /\ part.sketches \in Sketches
  BY PartIs DEF PartInv
<1>2. /\ gs \in Seq(FeatureOf) /\ Len(gs) = n + 1 /\ gs[n + 1] = f
      /\ \A i \in 1..n : gs[i] = fs[i]
  <2> HIDE DEF fs
  <2> QED BY <1>1, AppendIs
<1>3. PICK W0 : d \in PartOf(W0)
  BY DEF Whole
<1>4. PICK W : d \in PartOf(W) /\ X \subseteq W
  <2> HIDE DEF X
  <2> QED BY <1>3, PartOfMore
<1>5. \A i \in 1..Len(gs) : e[i] \in W
  <2> HIDE DEF e, gs
  <2> QED BY <1>4
<1>6. Last(e) = x /\ x \in W
  <2>1. e = [i \in 1..Len(gs) |-> EffectOf(d, gs, i, e)]
    <3>1. Len(gs) \in Nat
      BY <1>1, <1>2
    <3> HIDE DEF gs
    <3> QED BY <3>1, EffectsAre DEF AreEffects
  <2> HIDE DEF e, gs
  <2>2. DOMAIN e = 1..(n + 1) /\ e = [i \in 1..(n + 1) |-> e[i]]
    BY <1>2, <2>1
  <2>3. e \in Seq(W) /\ Len(e) = n + 1
    <3> DEFINE m == n + 1
    <3>1. m \in Nat /\ e = [i \in 1..m |-> e[i]] /\ \A i \in 1..m : e[i] \in W
      <4>1. m \in Nat /\ Len(gs) = m
        BY <1>1, <1>2
      <4>2. e = [i \in 1..m |-> e[i]]
        BY <2>2
      <4> HIDE DEF m
      <4>3. \A i \in 1..m : e[i] \in W
        BY <1>5, <4>1
      <4> QED BY <4>1, <4>2, <4>3
    <3> HIDE DEF m
    <3>2. e \in Seq(W) /\ Len(e) = m
      BY <3>1
    <3> QED BY <3>2 DEF m
  <2>4. n + 1 \in 1..(n + 1)
    BY <1>1
  <2> QED BY <1>2, <1>5, <2>3, <2>4 DEF Last
<1> HIDE DEF X
<1>7. /\ Len(d.cache) = n /\ Tip(d) /\ Refs(d, fs)
      /\ \A i \in 1..n : SourceStands(fs, i)
      /\ d.shape \in Seq(W) /\ d.cache \in Seq(Seq(W))
      /\ d.sheet \in (SUBSET Edge) \cup {Nothing}
      /\ d.params \in Params /\ d.sketches \in Sketches
  <2>1. /\ Len(d.cache) = n /\ Tip(d) /\ Refs(d, fs)
        /\ \A i \in 1..n : SourceStands(fs, i)
    BY DEF Whole
  <2> HIDE DEF fs
  <2> QED BY <1>4, <2>1 DEF PartOf, Sketches
<1> HIDE DEF fs, n, gs, e, x
<1>8. s = [ok |-> TRUE, full |-> FALSE, shape |-> d.shape,
           sheet |-> d.sheet, cache |-> d.cache]
  BY DEF AtHand
<1> HIDE DEF s
<1>9. s \in State(W) /\ s.ok
  BY <1>7, <1>8 DEF State
<1>10. /\ Fails(f, x, s) => at = Stopped(s)
       /\ ~Fails(f, x, s) => at = Built(f, x, s)
  BY <1>6, <1>9, ApplyIs
<1>11. r = Appended(d, f, at)
  BY Zenon DEF AddFeature, fs, gs, e, s
<1> HIDE DEF at, r
<1>12. CASE Fails(f, x, s)
  <2>1. ~at.ok
    BY <1>8, <1>10, <1>12 DEF Stopped
  <2>2. r = Raises(d)
    BY <1>11, <2>1, Zenon DEF Appended
  <2> QED BY <2>2, RaisesOutcome DEF r
<1>13. CASE ~Fails(f, x, s)
  <2> DEFINE shape == Append(d.shape, x)
             sheet == SheetAfter(f, d.sheet)
             cache == Append(d.cache, shape)
  <2>1. at = [ok |-> TRUE, full |-> FALSE, shape |-> shape,
              sheet |-> sheet, cache |-> cache]
    BY <1>8, <1>10, <1>13 DEF Built, With
  <2>2. /\ shape \in Seq(W)
        /\ cache \in Seq(Seq(W)) /\ cache # <<>> /\ Len(cache) = n + 1
        /\ Last(cache) = shape
    <3>1. shape \in Seq(W)
      BY <1>6, <1>7
    <3> HIDE DEF shape
    <3> QED BY <1>7, <3>1, AppendIs
  <2>3. sheet \in (SUBSET Edge) \cup {Nothing}
    <3>1. f.kind = "flange" => f.of \in Edge
      BY DEF FeatureOf
    <3>2. f.kind = "flange" => d.sheet # Nothing
      BY <1>8, <1>13 DEF Fails
    <3> QED BY <1>7, <3>1, <3>2 DEF SheetAfter
  <2> HIDE DEF shape, sheet, cache
  <2>4. new = [params |-> d.params, sketches |-> d.sketches,
               features |-> gs, shape |-> shape, cache |-> cache,
               sheet |-> sheet]
    <3>1. d = PartEdited(d, d.params, d.sketches, d.features)
      BY PartIs
    <3>2. at.shape = shape /\ at.sheet = sheet /\ at.cache = cache
      BY <2>1
    <3> DEFINE with(fs1, a, b, c) ==
                 [params |-> d.params, sketches |-> d.sketches,
                  features |-> fs1, shape |-> a, cache |-> b, sheet |-> c]
    <3>3. d = with(d.features, d.shape, d.cache, d.sheet)
      BY <3>1 DEF PartEdited
    <3> DEFINE a == [d EXCEPT !.features = gs]
               b == [a EXCEPT !.shape = shape]
               c == [b EXCEPT !.sheet = sheet]
    <3>4. a = with(gs, d.shape, d.cache, d.sheet)
      BY <3>3
    <3>5. new = [c EXCEPT !.cache = cache]
      <4> HIDE DEF with
      <4> QED BY <3>2
    <3> HIDE DEF a
    <3>6. b = with(gs, shape, d.cache, d.sheet)
      BY <3>4
    <3> HIDE DEF b
    <3>7. c = with(gs, shape, d.cache, sheet)
      BY <3>6
    <3> HIDE DEF c, new
    <3> QED BY <3>5, <3>7
  <2>5. r = Plain(new)
    <3>1. at.ok
      BY <2>1
    <3> QED BY <1>11, <3>1, Zenon DEF Appended, new, gs, fs
  <2> HIDE DEF new
  <2>6. new \in PartOf(W)
    BY <1>2, <1>7, <2>2, <2>3, <2>4 DEF PartOf, Sketches
  <2>7. Tip(new) /\ Len(new.cache) = Len(new.features)
        /\ Len(new.features) <= MaxFeatures
    <3>1. Tip(new)
      BY <2>2, <2>4 DEF Tip
    <3>2. Len(gs) <= MaxFeatures
      BY <1>1, <1>2, PartAssumption DEF n, fs
    <3> QED BY <1>2, <2>2, <2>4, <3>1, <3>2
  <2>8. \A i \in 1..(n + 1) : i \in 1..n \/ i = n + 1
    BY <1>1
  <2>9. Refs(new, gs)
    <3>1. \A i \in 1..Len(gs) : /\ gs[i].size \in Param =>
                                     d.params[gs[i].size] # Nothing
                                /\ gs[i].kind = "extrude" =>
                                     d.sketches[gs[i].of] # Nothing
      BY <1>2, <1>7, <2>8 DEF Refs, n
    <3> QED BY <1>7, <2>4, <3>1 DEF Refs
  <2>10. \A i \in 1..Len(gs) : SourceStands(gs, i)
    <3>1. ASSUME NEW i \in 1..n PROVE SourceStands(gs, i)
      <4>1. \A j \in 1..(i - 1) : j \in 1..n
        BY <1>1
      <4> QED BY <1>2, <1>7, <4>1 DEF SourceStands
    <3>2. SourceStands(gs, n + 1)
      <4>1. x # Refused
        BY <1>13 DEF Fails
      <4>2. n + 1 \in 1..Len(gs) /\ Len(gs) \in Nat
        BY <1>1, <1>2
      <4> QED BY <4>1, <4>2, PatternFound DEF x, e
    <3> QED BY <1>2, <2>8, <3>1, <3>2
  <2>11. Whole(new)
    BY <2>4, <2>6, <2>7, <2>9, <2>10 DEF Whole
  <2>12. ASSUME ~stale PROVE History(new)
    <3> DEFINE none == Scratch(Nothing)
               now == Replays(gs, e, none)
               t == now[n]
    <3>1. \A i \in 1..n : BuiltAlike(part, d, fs[i], gs[i])
      <4> SUFFICES ASSUME NEW i \in 1..n PROVE BuiltAlike(part, d, fs[i], gs[i])
        OBVIOUS
      <4>1. fs[i] \in FeatureOf /\ gs[i] = fs[i]
        BY <1>1, <1>2
      <4> QED BY <1>1, <4>1, AlikeKept
    <3>2. History(part) /\ \E W1 : part \in PartOf(W1)
      BY <2>12 DEF PartInv, Whole
    <3>3. Carried(part, n, t)
      <4>1. n <= Len(part.features) /\ n <= Len(gs)
        BY <1>1, <1>2 DEF n, fs
      <4> QED BY <1>1, <1>2, <1>4, <3>1, <3>2, <4>1, PrefixCarries
              DEF fs, e, none, now, t
    <3>4. t = [ok |-> TRUE, full |-> TRUE, shape |-> d.shape,
               sheet |-> d.sheet, cache |-> d.cache]
      BY <3>3 DEF Carried, n, fs
    <3>5. Run(W, gs, e, none) /\ Len(none.cache) = 0
      BY <1>2, <1>5, ScratchRuns
    <3>6. now[n + 1] = Go(gs, e, n + 1, t)
      <4>1. n + 1 \in (Len(none.cache) + 1)..Len(gs) /\ (n + 1) - 1 = n
        BY <1>1, <1>2, <3>5
      <4>2. \A k \in (Len(none.cache) + 1)..Len(gs) :
              now[k] = Go(gs, e, k, now[k - 1])
        BY <3>5, ReplayGoes
      <4> HIDE DEF now
      <4> QED BY <4>1, <4>2
    <3> HIDE DEF t, now
    <3>7. t \in State(W) /\ t.ok
      BY <1>7, <3>4 DEF State
    <3>8. ~Fails(f, x, t)
      BY <1>8, <1>13, <3>4 DEF Fails
    <3>9. now[n + 1] = Built(f, x, t)
      <4>1. Apply(f, x, t) = Built(f, x, t)
        BY <1>6, <3>7, <3>8, ApplyIs
      <4> QED BY <1>2, <3>6, <3>7, <4>1 DEF Go, x
    <3>10. Built(f, x, t) = [ok |-> TRUE, full |-> TRUE, shape |-> shape,
                             sheet |-> sheet, cache |-> cache]
      BY <3>4 DEF Built, With, shape, sheet, cache
    <3>11. Effects(new, gs) = e
      <4>1. Len(gs) \in Nat /\ new.params = d.params
            /\ new.sketches = d.sketches
        BY <1>1, <1>2, <2>4
      <4> QED BY <4>1, EffectsOfSame DEF e
    <3>12. Replay(gs, e, none) = now[n + 1]
      BY <1>2 DEF Replay, now
    <3>13. new.features = gs /\ new.shape = shape /\ new.sheet = sheet
           /\ new.cache = cache
      BY <2>4
    <3> QED BY <3>9, <3>10, <3>11, <3>12, <3>13 DEF History
  <2>13. Outcome(Plain(new), FALSE)
    BY <2>11, <2>12, PlainOutcome
  <2> QED BY <2>5, <2>13 DEF r
<1> QED BY <1>12, <1>13

LEMMA AddKeeps ==
  ASSUME PartInv, NEW k \in Kinds, Add(k)
  PROVE  PartKept("done")
<1>1. k # "extrude" /\ Len(part.features) < MaxFeatures
  BY DEF Add
<1>2. PICK size \in IF k \in {"box", "fillet"}
                    THEN Literal \cup Defined(part.params) ELSE {Nothing},
           of \in CASE k = "pattern" ->
                       {part.features[i].name : i \in DOMAIN part.features}
                  [] k = "flange" -> Edge
                  [] OTHER -> {Nothing} :
        Settle(AddFeature(part, Feature(part, k, size, of)), FALSE, "done")
  BY Zenon DEF Add
<1> DEFINE f == Feature(part, k, size, of)
<1>3. /\ Len(part.features) \in Nat /\ part.params \in Params
      /\ DOMAIN part.features = 1..Len(part.features)
      /\ \A i \in 1..Len(part.features) : part.features[i] \in FeatureOf
  BY PartIs DEF PartInv
<1>4. /\ f.kind = k /\ f.name = <<k, Len(part.features) + 1>>
      /\ f.size = size /\ f.of = of /\ f.off = FALSE
      /\ f = [kind |-> f.kind, name |-> f.name, size |-> f.size,
              of |-> f.of, off |-> f.off]
  BY DEF Feature
<1>5. /\ size \in Expr \cup {Nothing}
      /\ k \in {"box", "fillet"} => size \in Expr
      /\ size \in Param => part.params[size] # Nothing
  <2>1. CASE k \in {"box", "fillet"}
    BY <1>2, <2>1, PartAssumption DEF Expr, Defined
  <2>2. CASE k \notin {"box", "fillet"}
    BY <1>2, <2>2, PartAssumption
  <2> QED BY <2>1, <2>2
<1>6. of \in Target /\ (k = "flange" => of \in Edge)
  <2>1. CASE k = "pattern"
    <3>1. PICK i \in 1..Len(part.features) : of = part.features[i].name
      BY <1>2, <1>3, <2>1
    <3>2. of \in Kinds \X Nat
      BY <1>3, <3>1 DEF FeatureOf
    <3> QED BY <2>1, <3>2 DEF Target
  <2>2. CASE k = "flange"
    BY <1>2, <2>2 DEF Target
  <2>3. CASE k # "pattern" /\ k # "flange"
    BY <1>2, <2>3 DEF Target
  <2> QED BY <2>1, <2>2, <2>3
<1>7. f.name \in Kinds \X Nat
  BY <1>3, <1>4
<1> HIDE DEF f
<1>8. f \in FeatureOf
  BY <1>1, <1>4, <1>5, <1>6, <1>7 DEF FeatureOf
<1>9. Outcome(AddFeature(part, f), FALSE)
  <2>1. Whole(part)
    BY DEF PartInv
  <2>2. \A e \in Expr : SameNumber(part.params, part.params, e)
    BY SameParams
  <2> QED BY <1>1, <1>4, <1>5, <1>8, <2>1, <2>2, AddOutcome
<1>10. Settle(AddFeature(part, f), FALSE, "done")
  BY <1>2 DEF f
<1> QED BY <1>9, <1>10, Keeps

LEMMA AddExtrudeKeeps ==
  ASSUME PartInv, "extrude" \in Kinds, NEW s \in Sketch, NEW e \in Literal,
         AddExtrude(s, e)
  PROVE  PartKept("done")
<1> DEFINE p == FreshParam(part)
           d == SetTo(part, p, e)
           f == Feature(part, "extrude", p, s)
<1>1. /\ Len(part.features) < MaxFeatures /\ Defined(part.params) # Param
      /\ part.sketches[s] # Nothing
      /\ Settle(AddFeature(d, f), FALSE, "done")
  BY DEF AddExtrude, SketchesOf
<1>2. Len(part.features) \in Nat /\ part.params \in Params
  BY PartIs DEF PartInv
<1>3. p \in Param /\ part.params[p] = Nothing
  <2>1. \E x : x \in Param \ Defined(part.params)
    BY <1>1 DEF Defined
  <2>2. p \in Param \ Defined(part.params)
    BY <2>1, Zenon DEF FreshParam
  <2> QED BY <2>2 DEF Defined
<1>4. /\ f.kind = "extrude" /\ f.name = <<"extrude", Len(part.features) + 1>>
      /\ f.size = p /\ f.of = s /\ f.off = FALSE
      /\ f = [kind |-> f.kind, name |-> f.name, size |-> f.size,
              of |-> f.of, off |-> f.off]
  BY DEF Feature
<1> HIDE DEF p, f
<1>5. f \in FeatureOf
  <2>1. f.name \in Kinds \X Nat
    BY <1>2, <1>4
  <2> QED BY <1>3, <1>4, <2>1 DEF FeatureOf, Expr, Target
<1>6. e \in Expr /\ e # Nothing
  BY PartAssumption DEF Expr
<1>7. /\ Whole(d) /\ d.features = part.features /\ d.shape = part.shape
      /\ d.cache = part.cache /\ d.sheet = part.sheet
      /\ d.sketches = part.sketches /\ d.params \in Params
      /\ d.params[p] = e
      /\ \A x \in Param \ {p} : d.params[x] = part.params[x]
  BY <1>3, <1>6, SetToIs DEF PartInv
<1> HIDE DEF d
<1>8. \A x \in Expr : SameNumber(part.params, d.params, x)
  BY <1>2, <1>3, <1>7, FreshKeeps
<1>9. Outcome(AddFeature(d, f), FALSE)
  BY <1>1, <1>4, <1>5, <1>6, <1>7, <1>8, AddOutcome
<1> QED BY <1>1, <1>9, Keeps

----------------------------------------------------------------------------
(* The invariant.                                                          *)

LEMMA PartBegins ==
  ASSUME PartInit
  PROVE  PartInv
<1>1. /\ part = [params |-> [p \in Param |-> Nothing],
                 sketches |-> [s \in Sketch |-> Nothing],
                 features |-> <<>>, shape |-> <<>>, cache |-> <<>>,
                 sheet |-> Nothing]
      /\ stale = FALSE /\ did = "done" /\ count = 0
  BY DEF PartInit
<1>2. /\ part.features = <<>> /\ part.shape = <<>> /\ part.cache = <<>>
      /\ part.sheet = Nothing /\ Len(<<>>) = 0
      /\ part.params = [p \in Param |-> Nothing]
      /\ part.sketches = [s \in Sketch |-> Nothing]
  BY <1>1
<1>3. part \in PartOf({})
  BY <1>1 DEF PartOf, Params
<1>4. Tip(part) /\ Refs(part, part.features)
  BY <1>2 DEF Tip, Refs
<1>5. Whole(part)
  <2>1. /\ Len(part.features) <= MaxFeatures
        /\ Len(part.cache) = Len(part.features)
    BY <1>2, PartAssumption
  <2>2. \A i \in 1..Len(part.features) : SourceStands(part.features, i)
    BY <1>2
  <2> QED BY <1>3, <1>4, <2>1, <2>2 DEF Whole
<1>6. History(part)
  <2> DEFINE none == Scratch(Nothing)
             e == Effects(part, <<>>)
  <2>1. none.cache = <<>>
    BY DEF Scratch
  <2>2. Len(none.cache) = 0 /\ Len(<<>>) \in Nat
        /\ Len(none.cache) <= Len(<<>>)
    BY <1>2, <2>1
  <2> HIDE DEF none, e
  <2>3. Replays(<<>>, e, none)[Len(none.cache)] = none
    BY <1>2, <2>2, ReplaysAre
  <2>4. Replay(<<>>, e, none) = none
    BY <1>2, <2>2, <2>3 DEF Replay
  <2> QED BY <1>2, <2>4 DEF History, e, none, Scratch
<1>7. /\ stale \in BOOLEAN /\ did \in {"done", "set", "refused"}
      /\ count \in 0..MaxCommands
  <2>1. MaxCommands \in Nat
    BY PartAssumption
  <2>2. did = "done" /\ count = 0
    BY DEF PartInit
  <2>3. stale \in BOOLEAN
    BY Zenon DEF PartInit
  <2> QED BY <2>1, <2>2, <2>3
<1> QED BY <1>5, <1>6, <1>7 DEF PartInv

LEMMA StepKeeps ==
  ASSUME PartInv, PartNext
  PROVE  \/ PartKept("done")
         \/ \E p \in Param, e \in Expr : SetParameter(p, e) /\ PartKept("set")
<1>1. CASE ParameterStep
  <2>1. PICK p \in Param :
          \/ \E e \in Expr : CreateParameter(p, e) \/ SetParameter(p, e)
          \/ \E q \in Param : RenameParameter(p, q)
          \/ DeleteParameter(p)
    BY <1>1 DEF ParameterStep
  <2>2. CASE \E e \in Expr : CreateParameter(p, e)
    BY <2>2, CreateParameterKeeps
  <2>3. CASE \E e \in Expr : SetParameter(p, e)
    BY <2>3, SetParameterKeeps
  <2>4. CASE \E q \in Param : RenameParameter(p, q)
    BY <2>4, RenameParameterKeeps
  <2>5. CASE DeleteParameter(p)
    BY <2>5, DeleteParameterKeeps
  <2> QED BY <2>1, <2>2, <2>3, <2>4, <2>5
<1>2. CASE SketchStep
  <2>1. CASE CreateSketch
    BY <2>1, CreateSketchKeeps
  <2>2. ASSUME NEW s \in Sketch, NEW e \in Literal,
               AddDimension(s, e) \/ EditSketch(s, e)
        PROVE  PartKept("done")
    BY <2>2, AddDimensionKeeps, EditSketchKeeps
  <2>3. ASSUME NEW s \in Sketch, NEW e \in Literal, NEW sound \in BOOLEAN,
               Draw(s, e, sound)
        PROVE  PartKept("done")
    BY <2>3, DrawKeeps
  <2>4. ASSUME NEW s \in Sketch, NEW t \in Sketch, RenameSketch(s, t)
        PROVE  PartKept("done")
    BY <2>4, RenameSketchKeeps
  <2>5. ASSUME NEW s \in Sketch, NEW dependents, DeleteSketch(s, dependents)
        PROVE  PartKept("done")
    BY <2>5, DeleteSketchKeeps
  <2>6. ASSUME NEW s \in Sketch, DeleteEntity(s)
        PROVE  PartKept("done")
    BY <2>6, DeleteEntityKeeps
  <2> QED BY <1>2, <2>1, <2>2, <2>3, <2>4, <2>5, <2>6 DEF SketchStep
<1>3. CASE FeatureStep
  <2>1. ASSUME NEW k \in Kinds, Add(k)
        PROVE  PartKept("done")
    BY <2>1, AddKeeps
  <2>2. ASSUME NEW s \in Sketch, NEW e \in Literal,
               "extrude" \in Kinds /\ AddExtrude(s, e)
        PROVE  PartKept("done")
    BY <2>2, AddExtrudeKeeps
  <2>3. ASSUME NEW i, NEW e \in Literal, EditFeature(i, e)
        PROVE  PartKept("done")
    BY <2>3, EditFeatureKeeps
  <2>4. ASSUME NEW i, NEW n \in 1..MaxFeatures, RenameFeature(i, n)
        PROVE  PartKept("done")
    <3>1. n \in Nat
      OBVIOUS
    <3> QED BY <2>4, <3>1, RenameFeatureKeeps
  <2>5. ASSUME NEW i, NEW off \in BOOLEAN, Suppress(i, off)
        PROVE  PartKept("done")
    BY <2>5, SuppressKeeps
  <2>6. ASSUME NEW i, NEW dest, Reposition(i, dest)
        PROVE  PartKept("done")
    BY <2>6, RepositionKeeps
  <2>7. ASSUME NEW i, DeleteFeature(i)
        PROVE  PartKept("done")
    BY <2>7, DeleteFeatureKeeps
  <2> QED
    BY <1>3, <2>1, <2>2, <2>3, <2>4, <2>5, <2>6, <2>7 DEF FeatureStep
<1> QED BY <1>1, <1>2, <1>3 DEF PartNext

LEMMA PartStep ==
  ASSUME PartInv, [PartNext]_phVars
  PROVE  PartInv'
<1>1. CASE PartNext
  <2>1. \E label \in {"done", "set"} : PartKept(label)
    BY <1>1, StepKeeps
  <2>2. PICK label \in {"done", "set"} : PartKept(label)
    BY <2>1
  <2>3. count' \in 0..MaxCommands
    BY <1>1, PartAssumption DEF PartNext, PartInv
  <2> QED BY <2>2, <2>3 DEF PartKept, PartInv
<1>2. CASE UNCHANGED phVars
  <2>1. part' = part /\ stale' = stale /\ did' = did /\ count' = count
    BY <1>2 DEF phVars
  <2> QED BY <2>1 DEF PartInv
<1> QED BY <1>1, <1>2

(* The invariant that the properties follow from: whatever happened, the   *)
(* part is one whose cache goes with its features, whose features name what*)
(* is there and whose patterns have a source; and if no edit since the last*)
(* full replay reached only some features, it is a replay from nothing.    *)
THEOREM PartInvariant == PartSpec => []PartInv
<1>1. PartInit => PartInv
  BY PartBegins
<1>2. PartInv /\ [PartNext]_phVars => PartInv'
  BY PartStep
<1> QED BY <1>1, <1>2, PTL DEF PartSpec

(* The types of a part, and that its cache has the shape after each feature*)
(* (core/document.py, _rebuild_once, add_feature).                         *)
THEOREM PartTypeCorrect == PartSpec => []PartTypeOK
<1>1. PartInv => PartTypeOK
  <2> SUFFICES ASSUME PartInv PROVE PartTypeOK
    OBVIOUS
  <2>1. PICK W : part \in PartOf(W)
    BY DEF PartInv, Whole
  <2>2. /\ part.params \in [Param -> Expr \cup {Nothing}]
        /\ part.sheet \in (SUBSET Edge) \cup {Nothing}
        /\ part.features \in Seq(FeatureOf)
        /\ part.sketches \in [Sketch -> SketchOf \cup {Nothing}]
    BY <2>1 DEF PartOf, Params
  <2>3. part.sketches \in
          [Sketch -> [r : Expr \cup {Nothing}, sound : BOOLEAN] \cup {Nothing}]
    <3>1. SketchOf \subseteq [r : Expr \cup {Nothing}, sound : BOOLEAN]
      BY DEF SketchOf
    <3> HIDE DEF SketchOf
    <3> QED BY <2>2, <3>1
  <2>4. \A i \in DOMAIN part.features : part.features[i].kind \in Kinds
    <3>1. \A i \in DOMAIN part.features : part.features[i] \in FeatureOf
      BY <2>2
    <3> QED BY <3>1 DEF FeatureOf
  <2>5. /\ Len(part.features) <= MaxFeatures
        /\ Len(part.cache) = Len(part.features)
        /\ part.shape = IF part.cache = <<>> THEN <<>> ELSE Last(part.cache)
    BY DEF PartInv, Whole, Tip
  <2>6. stale \in BOOLEAN /\ did \in {"done", "set", "refused"}
        /\ count \in 0..MaxCommands
    BY DEF PartInv
  <2> QED BY <2>2, <2>3, <2>4, <2>5, <2>6 DEF PartTypeOK
<1> QED BY <1>1, PartInvariant, PTL

(* After any renaming, deleting and rolling back, what a feature refers to *)
(* is there (core/document.py, rename_parameter, rename_sketch,            *)
(* delete_sketch, delete_parameter).                                       *)
THEOREM ReferencesHold == PartSpec => []ReferencesResolve
<1>1. PartInv => ReferencesResolve
  <2> SUFFICES ASSUME PartInv, NEW i \in DOMAIN part.features
               PROVE  LET f == part.features[i] IN
                      /\ f.size \in Param => part.params[f.size] # Nothing
                      /\ f.kind = "extrude" => f.of \in SketchesOf(part)
                      /\ f.kind = "pattern" /\ ~f.off =>
                           \E j \in 1..(i - 1) : part.features[j].name = f.of
    BY DEF ReferencesResolve
  <2>1. i \in 1..Len(part.features) /\ part.features[i] \in FeatureOf
    BY PartIs DEF PartInv
  <2>2. /\ Refs(part, part.features) /\ SourceStands(part.features, i)
    BY <2>1 DEF PartInv, Whole
  <2> QED BY <2>1, <2>2 DEF Refs, SourceStands, SketchesOf, FeatureOf
<1> QED BY <1>1, PartInvariant, PTL

(* The shape, the cache and the sheet-metal state are those of a replay of *)
(* the whole history, though most commands replay only from a feature on   *)
(* (core/document.py, rebuild, _rebuild_once).                             *)
THEOREM ShapeFollowsHistory == PartSpec => []ShapeIsHistory
<1>1. PartInv => ShapeIsHistory
  BY LoadSound DEF PartInv, ShapeIsHistory
<1> QED BY <1>1, PartInvariant, PTL

(* A parameter that was set is in the shape, also when setting it replayed *)
(* only the features that depend on it (core/document.py, set_parameter).  *)
THEOREM ParameterArrives == PartSpec => ParameterReachesModel
<1>1. PartInv /\ [PartNext]_phVars =>
        [did' = "set" =>
           \A p \in Param, i \in DOMAIN part'.features :
             /\ part'.params[p] # part.params[p]
             /\ i \in Affected(part', p) /\ ~part'.features[i].off
             => Last(part'.cache[i]) = Effects(part', part'.features)[i]]_phVars
  <2> SUFFICES ASSUME PartInv, PartNext, did' = "set",
                      NEW p \in Param, NEW i \in DOMAIN part'.features,
                      part'.params[p] # part.params[p],
                      i \in Affected(part', p), ~part'.features[i].off
               PROVE  Last(part'.cache[i])
                        = Effects(part', part'.features)[i]
    OBVIOUS
  <2>1. PICK q \in Param, e \in Expr : SetParameter(q, e)
    BY StepKeeps DEF PartKept
  <2>2. /\ \A x \in Param \ {q} : part'.params[x] = part.params[x]
        /\ Arrived(part', q)
    BY <2>1, SetParameterKeeps
  <2>3. p = q
    BY <2>2
  <2> QED BY <2>2, <2>3 DEF Arrived
<1> QED BY <1>1, PartInvariant, PTL DEF PartSpec, ParameterReachesModel
=============================================================================
