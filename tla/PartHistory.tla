----------------------------- MODULE PartHistory -----------------------------
(***************************************************************************)
(* The feature history of one part (core/document.py): parameters,         *)
(* sketches and features that refer to each other by name, the shape that  *)
(* is replayed from them, the cache of the shape after every feature, and  *)
(* the roll-back of a command that raises (engine.py, execute).            *)
(*                                                                         *)
(* A shape is the sequence of the effects it was built by. A number is a   *)
(* Literal; the kernel refuses to build with one that is in Bad.           *)
(***************************************************************************)
EXTENDS Naturals, Sequences, FiniteSets, SequencesExt, FiniteSetsExt

CONSTANTS
  Literal, Bad,     \* numbers; those the kernel refuses
  Param,            \* names of parameters
  MaxSketches,      \* bound: sketches of a part
  MaxFeatures,      \* bound: features of a part
  Kinds,            \* the kinds of features that are added
  MaxCommands,      \* bound: commands that are run
  Edge,             \* edges of a sheet-metal base
  Nothing

ASSUME PartAssumption ==
  /\ Bad \subseteq Literal /\ IsFiniteSet(Param)
  /\ Literal \cap Param = {} /\ Nothing \notin Literal \cup Param
  /\ \A r \in Literal \cup Param \cup {Nothing}, sound \in BOOLEAN :
       [r |-> r, sound |-> sound] # Nothing
  /\ MaxSketches \in Nat \ {0} /\ MaxFeatures \in Nat \ {0}
  /\ MaxCommands \in Nat
  /\ Kinds \subseteq
       {"box", "extrude", "fillet", "pattern", "base", "flange"}

VARIABLES
  part,    \* the document: params, sketches, features, shape, cache, sheet
  stale,   \* an edit since the last full replay reached only some features
  did,     \* what the last command came to: "done", "set", "refused"
  count    \* commands run

phVars == <<part, stale, did, count>>

Expr == Literal \cup Param
Sketch == 1..MaxSketches
Unresolved == "unresolved"
Refused == <<"refused">>
Defined(ps) == {p \in Param : ps[p] # Nothing}
SketchesOf(d) == {s \in Sketch : d.sketches[s] # Nothing}

\* The types of the fields, and that the cache has the shape after each
\* feature: every incremental replay trusts its indices.
PartTypeOK ==
  /\ part.params \in [Param -> Expr \cup {Nothing}]
  /\ part.sketches \in
       [Sketch -> [r : Expr \cup {Nothing}, sound : BOOLEAN] \cup {Nothing}]
  /\ \A i \in DOMAIN part.features : part.features[i].kind \in Kinds
  /\ Len(part.features) <= MaxFeatures
  /\ part.sheet \in (SUBSET Edge) \cup {Nothing}
  /\ stale \in BOOLEAN /\ did \in {"done", "set", "refused"}
  /\ count \in 0..MaxCommands
  /\ Len(part.cache) = Len(part.features)
  /\ part.shape = IF part.cache = <<>> THEN <<>> ELSE Last(part.cache)

----------------------------------------------------------------------------
(* Values and effects.                                                     *)

\* numeric_params: what an expression comes to, through other parameters.
ValueOf(ps, e) ==
  LET chase[n \in 0..Cardinality(Param)] ==
        [x \in Expr |-> IF x \in Literal THEN x
                       ELSE IF n = 0 \/ ps[x] = Nothing THEN Unresolved
                       ELSE chase[n - 1][ps[x]]]
  IN  chase[Cardinality(Param)][e]

\* One unresolved or cyclic parameter makes every evaluation raise.
Resolves(ps) == \A p \in Defined(ps) : ValueOf(ps, p) # Unresolved

\* An effect of some numbers, if the kernel builds with all of them.
Builds(kind, numbers) ==
  IF ToSet(numbers) \cap (Bad \cup {Unresolved}) = {}
  THEN <<kind>> \o numbers ELSE Refused

\* An extrusion of what is drawn in a sketch (also revolve, loft, sweep).
Extruded(ps, sketch, f) ==
  IF sketch = Nothing \/ (sketch # Nothing /\ ~sketch.sound) THEN Refused
  ELSE Builds("extrude", <<ValueOf(ps, sketch.r), ValueOf(ps, f.size)>>)

\* A body of its own that is made of numbers: a box, and every other
\* primitive and machine element.
Solid(ps, f) == Builds("box", <<ValueOf(ps, f.size)>>)

\* A change of the body at hand: a fillet, and every hole, shell, draft...
Modified(ps, f) == Builds("fillet", <<ValueOf(ps, f.size)>>)

\* Feature i finds what it needs in the features before it, replayed in a
\* part of its own: a body, or a base whose edge is free.
Stands(fs, i) ==
  /\ fs[i].kind = "fillet" => \E j \in 1..(i - 1) : ~fs[j].off
  /\ fs[i].kind = "flange" =>
       \E b \in 1..(i - 1) :
         /\ fs[b].kind = "base" /\ ~fs[b].off
         /\ \A j \in (b + 1)..(i - 1) :
              fs[j].kind = "flange" /\ ~fs[j].off => fs[j].of # fs[i].of

\* A pattern of an earlier feature, whose effect (_feature_effect) is what it
\* adds to a replay from nothing of the features before it.
Patterned(fs, source, effect) ==
  IF \A j \in 1..source :
       \/ j # source /\ fs[j].off
       \/ effect[j] # Refused /\ Stands(fs, j)
  THEN <<"pattern", effect[source]>> ELSE Refused

\* The first of the features before i with a name, or 0.
Named(fs, i, name) ==
  LET those == {j \in 1..(i - 1) : fs[j].name = name}
  IN  IF those = {} THEN 0 ELSE Min(those)

\* What feature i adds, by itself: its kind and numbers, or Refused.
EffectOf(d, fs, i, effect) ==
  CASE fs[i].kind = "box" -> Solid(d.params, fs[i])
    [] fs[i].kind = "extrude" ->
         Extruded(d.params, d.sketches[fs[i].of], fs[i])
    [] fs[i].kind = "fillet" -> Modified(d.params, fs[i])
    [] fs[i].kind = "pattern" ->
         IF Named(fs, i, fs[i].of) = 0 THEN Refused
         ELSE Patterned(fs, Named(fs, i, fs[i].of), effect)
    [] fs[i].kind = "base" -> <<"base">>
    [] fs[i].kind = "flange" -> <<"flange", fs[i].of>>

\* What each feature of fs adds.
Effects(d, fs) ==
  LET effect[i \in 1..Len(fs)] == EffectOf(d, fs, i, effect) IN effect

\* The sheet-metal state after a feature.
SheetAfter(f, sheet) ==
  CASE f.kind = "base" -> {}
    [] f.kind = "flange" -> sheet \cup {f.of}
    [] OTHER -> sheet

\* _apply_feature: one feature on top of what is replayed so far.
Apply(f, effect, at) ==
  IF f.off THEN [at EXCEPT !.cache = Append(@, at.shape)]
  ELSE IF \/ effect = Refused
          \/ f.kind = "fillet" /\ at.shape = <<>>
          \/ f.kind = "flange" /\ (at.sheet = Nothing \/ f.of \in at.sheet)
  THEN [at EXCEPT !.ok = FALSE]
  ELSE [at EXCEPT !.shape = Append(@, effect), !.sheet = SheetAfter(f, @),
                  !.cache = Append(@, Append(at.shape, effect))]

----------------------------------------------------------------------------
(* Replay.                                                                 *)

\* The features fs replayed on what is there before the first of them: up to
\* the feature that raises, if one does.
Replays(fs, effect, at) ==
  LET now[n \in Len(at.cache)..Len(fs)] ==
        IF n = Len(at.cache) THEN at
        ELSE IF now[n - 1].ok THEN Apply(fs[n], effect[n], now[n - 1])
        ELSE now[n - 1]
  IN  now

Replay(fs, effect, at) == Replays(fs, effect, at)[Len(fs)]

\* The document d after a replay.
Replayed(d, fs, end) ==
  [ok |-> end.ok, full |-> end.full,
   d |-> [d EXCEPT !.features = SubSeq(fs, 1, Len(end.cache)),
                   !.shape = end.shape, !.sheet = end.sheet,
                   !.cache = end.cache]]

Scratch(sheet) ==
  [ok |-> TRUE, full |-> TRUE, shape |-> <<>>, sheet |-> sheet,
   cache |-> <<>>]

\* The cached shape before the start-th feature is used if there is one; then
\* the sheet-metal state is the one at hand.
ReplayFrom(d, start) ==
  IF start > 0 /\ Len(d.cache) >= start
  THEN [ok |-> TRUE, full |-> FALSE, shape |-> d.cache[start],
        sheet |-> d.sheet, cache |-> SubSeq(d.cache, 1, start)]
  ELSE Scratch(Nothing)

\* _rebuild_once
RebuildOnce(d, fs, start) ==
  Replayed(d, fs, Replay(fs, Effects(d, fs), ReplayFrom(d, start)))

OrInFull(first, fs) ==
  IF first.ok THEN first ELSE RebuildOnce(first.d, fs, 0)

\* A plausible slip in Rebuild: the feature that was edited is not replayed.
RebuildAfter(d, fs, start) ==
  OrInFull(RebuildOnce(d, fs, IF start < Len(fs) THEN start + 1 ELSE start),
           fs)

\* rebuild: when the incremental replay raises, all of it is tried again.
Rebuild(d, fs, start) ==
  OrInFull(RebuildOnce(d, fs, IF start < Len(fs) THEN start ELSE Len(fs)), fs)

\* load: a stored document is replayed, on the sheet-metal state it has.
Load(d) ==
  Replayed([d EXCEPT !.cache = <<>>], d.features,
           Replay(d.features, Effects(d, d.features), Scratch(d.sheet)))

\* The snapshot as it is loaded; if that raises too, what the command left.
Reloaded(loaded, left) == IF loaded.ok THEN loaded.d ELSE left

\* A command that leaves the features and shape alone.
Plain(d) == [ok |-> TRUE, full |-> FALSE, d |-> d]
Raises(d) == [ok |-> FALSE, full |-> FALSE, d |-> d]

\* execute: a command that raises is undone by loading the snapshot taken
\* before it.
Settle(r, partly, label) ==
  IF r.ok
  THEN /\ part' = r.d
       /\ stale' = (~r.full /\ (stale \/ partly))
       /\ did' = label
  ELSE /\ part' = Reloaded(Load(part), r.d)
       /\ UNCHANGED stale
       /\ did' = "refused"

----------------------------------------------------------------------------
(* Parameters.                                                             *)

SetTo(d, p, e) == [d EXCEPT !.params[p] = e]

\* names_in_value: the parameters that a feature names, by itself or in its
\* sketch, and those that name a changed one.
Names(d, f) ==
  {f.size} \cup
  (IF f.kind = "extrude" /\ d.sketches[f.of] # Nothing
   THEN {d.sketches[f.of].r} ELSE {})

DependentClosure(ps, p) ==
  {q \in Param : \A S \in SUBSET Param :
     p \in S /\ (\A x \in Param : ps[x] \in S => x \in S) => q \in S}

Affected(d, p) ==
  {i \in DOMAIN d.features :
     Names(d, d.features[i]) \cap DependentClosure(d.params, p) # {}}

\* create_parameter, also of one that exists: all of the part is replayed.
CreateIn(d) ==
  [Rebuild(d, d.features, 0) EXCEPT !.ok = @ /\ Resolves(d.params)]

CreateParameter(p, e) == Settle(CreateIn(SetTo(part, p, e)), FALSE, "done")

\* A plausible slip in SuffixOf: a feature after the first one that depends
\* on the parameter.
SuffixOfLast(d, p) == Max(Affected(d, p)) - 1

\* earliest_affected_feature, as an index from 0.
SuffixOf(d, p) == Min(Affected(d, p)) - 1

\* set_parameter: a full replay; if it raises, only the features from the
\* first that depends on the parameter, on the shapes of before.
OrSuffix(first, d, p) ==
  IF first.ok THEN first
  ELSE IF Affected(d, p) = {} THEN Plain(d)
  ELSE IF SuffixOf(d, p) = 0 THEN Raises(d)
  ELSE Rebuild(d, d.features, SuffixOf(d, p))

SetIn(d, p) ==
  IF Resolves(d.params) THEN OrSuffix(Rebuild(d, d.features, 0), d, p)
  ELSE Raises(d)

SetParameter(p, e) ==
  /\ p \in Defined(part.params)
  /\ Settle(SetIn(SetTo(part, p, e), p), FALSE, "set")

\* rename_parameter: the new name replaces the old one wherever it occurs.
RenameParameter(p, q) ==
  LET new(e) == IF e = p THEN q ELSE e
      d == [part EXCEPT
              !.params = [x \in Param |-> IF x = p THEN Nothing
                            ELSE new(part.params[IF x = q THEN p ELSE x])],
              !.sketches =
                [s \in Sketch |->
                   IF part.sketches[s] = Nothing THEN Nothing
                   ELSE [part.sketches[s] EXCEPT !.r = new(@)]]]
      fs == [i \in DOMAIN part.features |->
               [part.features[i] EXCEPT !.size = new(@)]]
  IN  /\ p \in Defined(part.params) /\ q \notin Defined(part.params)
      /\ Settle(Rebuild(d, fs, 0), FALSE, "done")

\* delete_parameter: only one that nothing refers to.
DeleteParameter(p) ==
  /\ p \in Defined(part.params)
  /\ \A q \in Param \ {p} : part.params[q] # p
  /\ \A s \in SketchesOf(part) : part.sketches[s].r # p
  /\ \A i \in DOMAIN part.features : part.features[i].size # p
  /\ Settle(Plain([part EXCEPT !.params[p] = Nothing]), FALSE, "done")

\* _set_feature_numeric_param, _set_sketch_field: a number that is bound to a
\* parameter changes the parameter.
Bound(d, e) == e \in Param /\ d.params[e] # Nothing

----------------------------------------------------------------------------
(* Sketches.                                                               *)

OfSheetMetal(f) == f.kind \in {"base", "flange"}

Users(d, s) ==
  {i \in DOMAIN d.features :
     d.features[i].kind = "extrude" /\ d.features[i].of = s}

\* create_sketch: its name is made from the number of sketches, and replaces
\* a sketch that has this name.
CreateSketch ==
  LET s == Cardinality(SketchesOf(part)) + 1 IN
  /\ s \in Sketch
  /\ Settle(Plain([part EXCEPT
              !.sketches[s] = [r |-> Nothing, sound |-> FALSE]]),
            Users(part, s) # {}, "done")

\* draw_circle, draw_line: nothing is replayed. The first circle makes a
\* profile, more of it may make one or not.
Draw(s, e, sound) ==
  /\ s \in SketchesOf(part)
  /\ IF part.sketches[s].r = Nothing THEN sound ELSE e = part.sketches[s].r
  /\ e \in Literal
  /\ Settle(Plain([part EXCEPT !.sketches[s] = [r |-> e, sound |-> sound]]),
            Users(part, s) # {}, "done")

\* next_model_parameter_name: the first d# that is free.
FreshParam(d) == CHOOSE p \in Param \ Defined(d.params) : TRUE

\* add_sketch_dimension: the radius is bound to a new parameter.
AddDimension(s, e) ==
  /\ s \in SketchesOf(part) /\ part.sketches[s].r # Nothing
  /\ Defined(part.params) # Param
  /\ LET p == FreshParam(part) IN
     Settle(IF Resolves(part.params)
            THEN Plain([part EXCEPT !.params[p] = e, !.sketches[s].r = p])
            ELSE Raises(part), Users(part, s) # {}, "done")

\* _rebuild_after_sketch_edit: from the first feature that uses the sketch.
AfterSketch(d, s) ==
  IF ~Resolves(d.params) THEN Raises(d)
  ELSE IF Users(d, s) = {} THEN Plain(d)
  ELSE Rebuild(d, d.features, Min(Users(d, s)) - 1)

\* edit_sketch_entity, edit_sketch_dimension: the radius, or its parameter.
EditSketch(s, e) ==
  /\ s \in SketchesOf(part) /\ part.sketches[s].r # Nothing
  /\ LET p == part.sketches[s].r
         bound == Bound(part, p)
         d == IF bound THEN SetTo(part, p, e)
              ELSE [part EXCEPT !.sketches[s].r = e]
         first == IF Users(d, s) = {} THEN MaxFeatures + 1
                  ELSE Min(Users(d, s))
     IN  Settle(AfterSketch(d, s),
                bound /\ \E i \in Affected(d, p) : i < first, "done")

\* delete_sketch_entity: what was drawn into the profile goes away.
DeleteEntity(s) ==
  /\ s \in SketchesOf(part)
  /\ part.sketches[s].r # Nothing /\ ~part.sketches[s].sound
  /\ Settle(AfterSketch([part EXCEPT !.sketches[s].sound = TRUE], s),
            FALSE, "done")

\* A plausible slip in RenameSketch: its features keep the old name.
RenameSketchAlone(s, t) ==
  /\ s \in SketchesOf(part) /\ t \notin SketchesOf(part)
  /\ Settle(Plain([part EXCEPT !.sketches[s] = Nothing,
                               !.sketches[t] = part.sketches[s]]),
            FALSE, "done")

\* rename_sketch: with its features; nothing is replayed.
RenameSketch(s, t) ==
  /\ s \in SketchesOf(part) /\ t \notin SketchesOf(part)
  /\ Settle(Plain([part EXCEPT
              !.sketches[s] = Nothing, !.sketches[t] = part.sketches[s],
              !.features = [i \in DOMAIN @ |->
                 IF i \in Users(part, s) THEN [@[i] EXCEPT !.of = t]
                 ELSE @[i]]]), FALSE, "done")

\* delete_sketch: one in use only with every feature from its first user on.
DeleteSketch(s, dependents) ==
  /\ s \in SketchesOf(part)
  /\ Users(part, s) # {} => dependents
  /\ LET d == [part EXCEPT !.sketches[s] = Nothing]
         kept == IF Users(part, s) = {} THEN 0 ELSE Min(Users(part, s)) - 1
     IN  Settle(Rebuild(d, IF Users(part, s) = {} THEN d.features
                           ELSE SubSeq(d.features, 1, kept), kept),
                \E i \in DOMAIN part.features :
                  kept > 0 /\ i > kept /\ OfSheetMetal(part.features[i]),
                "done")

----------------------------------------------------------------------------
(* Features.                                                               *)

\* A default name is made from the number of features.
Feature(d, k, size, of) ==
  [kind |-> k, name |-> <<k, Len(d.features) + 1>>, size |-> size, of |-> of,
   off |-> FALSE]

\* A plausible slip in Appended: the new shape is not put in the cache.
AppendedUncached(d, f, at) ==
  IF ~at.ok THEN Raises(d)
  ELSE Plain([d EXCEPT !.features = Append(@, f), !.shape = at.shape,
                       !.sheet = at.sheet])

\* The document with one more feature.
Appended(d, f, at) ==
  IF ~at.ok THEN Raises(d)
  ELSE Plain([d EXCEPT !.features = Append(@, f), !.shape = at.shape,
                       !.sheet = at.sheet, !.cache = at.cache])

\* The shape at hand.
AtHand(d) ==
  [ok |-> TRUE, full |-> FALSE, shape |-> d.shape, sheet |-> d.sheet,
   cache |-> d.cache]

\* add_feature: on top of the shape at hand.
AddFeature(d, f) ==
  Appended(d, f,
           Apply(f, Last(Effects(d, Append(d.features, f))), AtHand(d)))

\* The commands that add a feature; create_sheet_metal_base wants an empty
\* part, a flange a base.
Add(k) ==
  /\ k \in Kinds \ {"extrude"} /\ Len(part.features) < MaxFeatures
  /\ k = "base" => part.shape = <<>>
  /\ k = "flange" => part.sheet # Nothing
  /\ \E size \in IF k \in {"box", "fillet"}
                THEN Literal \cup Defined(part.params) ELSE {Nothing},
        of \in CASE k = "pattern" ->
                    {part.features[i].name : i \in DOMAIN part.features}
               [] k = "flange" -> Edge
               [] OTHER -> {Nothing} :
       Settle(AddFeature(part, Feature(part, k, size, of)), FALSE, "done")

\* extrude binds its distance to a new parameter.
AddExtrude(s, e) ==
  /\ Len(part.features) < MaxFeatures /\ Defined(part.params) # Param
  /\ s \in SketchesOf(part) /\ part.sketches[s].r # Nothing
  /\ LET p == FreshParam(part) IN
     Settle(AddFeature(SetTo(part, p, e), Feature(part, "extrude", p, s)),
            FALSE, "done")

\* find_feature: the first one with a name.
FirstNamed(i) ==
  /\ i \in DOMAIN part.features
  /\ \A j \in 1..(i - 1) : part.features[j].name # part.features[i].name

\* edit_feature: one of sheet metal is replayed in full.
EditFeature(i, e) ==
  /\ FirstNamed(i) /\ part.features[i].size # Nothing
  /\ LET p == part.features[i].size
         bound == Bound(part, p)
         d == IF bound THEN SetTo(part, p, e)
              ELSE [part EXCEPT !.features[i].size = e]
     IN  Settle(Rebuild(d, d.features, i - 1),
                bound /\ \E j \in Affected(d, p) : j < i, "done")

\* edit_feature_definition with a new name: later patterns follow.
RenameFeature(i, n) ==
  LET name == <<part.features[i].kind, n>> IN
  /\ FirstNamed(i)
  /\ \A j \in DOMAIN part.features : part.features[j].name # name
  /\ LET old == part.features[i].name
         fs == [j \in DOMAIN part.features |->
                  IF j = i THEN [part.features[j] EXCEPT !.name = name]
                  ELSE IF /\ j > i /\ part.features[j].kind = "pattern"
                          /\ part.features[j].of = old
                  THEN [part.features[j] EXCEPT !.of = name]
                  ELSE part.features[j]]
     IN  Settle(Rebuild(part, fs, i - 1), FALSE, "done")

\* suppress_feature and delete_feature. A flange that is taken away stays in
\* the sheet-metal state, unless a later one makes the replay start again.
Suppress(i, off) ==
  /\ FirstNamed(i)
  /\ Settle(Rebuild(part, [part.features EXCEPT ![i].off = off], i - 1),
            OfSheetMetal(part.features[i]), "done")

DeleteFeature(i) ==
  /\ FirstNamed(i)
  /\ Settle(Rebuild(part, RemoveAt(part.features, i), i - 1),
            OfSheetMetal(part.features[i]), "done")

\* If the new order raises, the old one is replayed, and it is an error still.
OrBack(r) ==
  IF r.ok THEN r ELSE Raises(Rebuild(r.d, part.features, 0).d)

\* reposition_feature: before or after another one; all of it is replayed.
Reposition(i, dest) ==
  /\ FirstNamed(i) /\ dest \in DOMAIN part.features \ {i}
  /\ Settle(OrBack(Rebuild(part, InsertAt(RemoveAt(part.features, i), dest,
                                          part.features[i]), 0)),
            FALSE, "done")

----------------------------------------------------------------------------
PartInit ==
  /\ part = [params |-> [p \in Param |-> Nothing],
             sketches |-> [s \in Sketch |-> Nothing],
             features |-> <<>>, shape |-> <<>>, cache |-> <<>>,
             sheet |-> Nothing]
  /\ stale = FALSE /\ did = "done" /\ count = 0

ParameterStep ==
  \E p \in Param :
    \/ \E e \in Expr : CreateParameter(p, e) \/ SetParameter(p, e)
    \/ \E q \in Param : RenameParameter(p, q)
    \/ DeleteParameter(p)

SketchStep ==
  \/ CreateSketch
  \/ \E s \in Sketch :
       \/ \E e \in Literal : AddDimension(s, e) \/ EditSketch(s, e)
       \/ \E e \in Literal, sound \in BOOLEAN : Draw(s, e, sound)
       \/ \E t \in Sketch : RenameSketch(s, t)
       \/ \E dependents \in BOOLEAN : DeleteSketch(s, dependents)
       \/ DeleteEntity(s)

FeatureStep ==
  \/ \E k \in Kinds : Add(k)
  \/ \E s \in Sketch, e \in Literal : "extrude" \in Kinds /\ AddExtrude(s, e)
  \/ \E i \in 1..MaxFeatures :
       \/ \E e \in Literal : EditFeature(i, e)
       \/ \E n \in 1..MaxFeatures : RenameFeature(i, n)
       \/ \E off \in BOOLEAN : Suppress(i, off)
       \/ \E dest \in 1..MaxFeatures : Reposition(i, dest)
       \/ DeleteFeature(i)

PartNext ==
  /\ count < MaxCommands /\ count' = count + 1
  /\ ParameterStep \/ SketchStep \/ FeatureStep

PartSpec == PartInit /\ [][PartNext]_phVars

----------------------------------------------------------------------------
\* The shape, the cache and the sheet-metal state are those of a replay from
\* nothing, though most commands replay only from a feature on: the only edits
\* after which they are not are drawing into a sketch that is in use, changing
\* by one feature a parameter that an earlier one uses too, and taking away
\* sheet metal.
ShapeIsHistory ==
  ~stale => Load(part) = [ok |-> TRUE, full |-> TRUE, d |-> part]

\* What a feature refers to is there, after any renaming and deleting; one
\* that is suppressed may have lost it.
ReferencesResolve ==
  \A i \in DOMAIN part.features :
    LET f == part.features[i] IN
    /\ f.size \in Param => part.params[f.size] # Nothing
    /\ f.kind = "extrude" => f.of \in SketchesOf(part)
    /\ f.kind = "pattern" /\ ~f.off =>
         \E j \in 1..(i - 1) : part.features[j].name = f.of

\* A parameter that was set is in the shape, whichever of the replays it took:
\* the features that depend on it are as if built now.
ParameterReachesModel ==
  [][did' = "set" =>
       \A p \in Param, i \in DOMAIN part'.features :
         /\ part'.params[p] # part.params[p]
         /\ i \in Affected(part', p) /\ ~part'.features[i].off
         => Last(part'.cache[i]) = Effects(part', part'.features)[i]]_phVars

\* A command that raises leaves the part as it was: "the engine transaction
\* layer restores the complete pre-command document snapshot" (rebuild).
RefusedChangesNothing == [][did' = "refused" => part' = part]_phVars

=============================================================================
