--------------------------- MODULE AssemblyPoses ----------------------------
(* Where the components of an assembly stand: the commands that place,     *)
(* move, ground, suppress, replace and relate occurrences, and the solvers *)
(* that run at the end of each of them (CadDocument.                       *)
(* solve_assembly_constraints, core/assembly.py, core/joints.py).          *)
(*                                                                         *)
(* Space is a line. An occurrence has a position on it; a constraint asks  *)
(* for an offset between two occurrences (a plane or an insert); a joint   *)
(* slides, and may be driven to a position and limited. The other          *)
(* coordinates obey the same code with more components.                    *)
EXTENDS Integers, Sequences, FiniteSets, SequencesExt

CONSTANTS
  MaxComponents,   \* bound on the occurrences of the assembly
  MaxConstraints,   \* bound on its constraints
  MaxJoints,        \* bound on its joints
  Reach,            \* bound on the positions asked for or found together
  MaxPasses,           \* passes of the solver of constraints, 12
  MaxMoves,         \* bound on the commands
  Missing           \* no value

\* named: the component still has the reference the relations name.
OccurrenceSet ==
  [pos : Int, grounded : BOOLEAN, off : BOOLEAN, named : BOOLEAN]

ASSUME PosesAssumption ==
  /\ MaxComponents \in Nat \ {0} /\ Reach \in Nat /\ MaxPasses \in Nat \ {0}
  /\ MaxMoves \in Nat
  /\ Missing \notin Int /\ Missing \notin OccurrenceSet

VARIABLES
  asm,     \* the assembly document
  posed,   \* history: the assembly as the last solver found it
  moves    \* the number of commands so far

apVars == <<asm, posed, moves>>

Component == 1..MaxComponents
Spot == 0..Reach

RelationSet ==
  [name : Nat, a : 0..MaxComponents, b : Component, at : Int \cup {Missing},
   lo : Spot, hi : Spot, opposed : BOOLEAN, off : BOOLEAN, healthy : BOOLEAN]

\* The occurrences, in the order they were placed, and the relations.
PosesTypeOK ==
  /\ asm.occs \in [Component -> OccurrenceSet \cup {Missing}]
  /\ ToSet(asm.order) = {o \in Component : asm.occs[o] # Missing}
  /\ asm.constraints \in Seq(RelationSet)
  /\ asm.joints \in Seq(RelationSet)
  /\ moves \in 0..MaxMoves

----------------------------------------------------------------------------
(* What a relation asks for.                                               *)

\* Those that are not suppressed; the solvers see no other.
Active(rels) == {i \in DOMAIN rels : ~rels[i].off}
Relations(d) == d.constraints \o d.joints

\* _side: an end is the assembly's own origin, or an occurrence that has the
\* reference that is named.
HasEnd(occs, o) == o = 0 \/ (occs[o] # Missing /\ occs[o].named)
Evaluates(occs, r) == HasEnd(occs, r.a) /\ HasEnd(occs, r.b)
AllEvaluate(occs, rels) == \A i \in Active(rels) : Evaluates(occs, rels[i])

PosOf(occs, o) == IF o = 0 THEN 0 ELSE occs[o].pos
Distance(m, n) == IF m < n THEN n - m ELSE m - n

\* _clamp
Clamped(x, lo, hi) == IF x < lo THEN lo ELSE IF x > hi THEN hi ELSE x
WithinTravel(r) ==
  IF r.at = Missing THEN r ELSE [r EXCEPT !.at = Clamped(@, r.lo, r.hi)]

\* How far two ends at a distance of x are from what is asked: the offset of
\* a constraint (constraint_error), the drive position and the limits of a
\* joint (joint_solver_vector). The limits of a constraint are Missing.
ErrorAt(r, x) ==
  (IF r.at = Missing THEN 0 ELSE Distance(x, r.at))
  + (IF r.name = 0 THEN 0 ELSE Distance(x, Clamped(x, r.lo, r.hi)))

ErrorOf(occs, r) == ErrorAt(r, PosOf(occs, r.b) - PosOf(occs, r.a))

\* constraint_residual, joint_residual: small enough.
Satisfied(occs, r) == Evaluates(occs, r) /\ ErrorOf(occs, r) = 0

\* score, _relationship_score: the largest error, then the sum of them.
Errors(occs, rels) ==
  [i \in DOMAIN rels |-> IF i \in Active(rels) THEN ErrorOf(occs, rels[i]) ELSE 0]
Largest(errors) == Max(ToSet(errors) \cup {0})
Total(errors) ==
  LET sum[n \in 0..Len(errors)] == IF n = 0 THEN 0 ELSE sum[n - 1] + errors[n]
  IN  sum[Len(errors)]

Smaller(new, old) ==
  \/ Largest(new) < Largest(old)
  \/ Largest(new) = Largest(old) /\ Total(new) < Total(old)

\* A relation that cannot be evaluated makes the score infinite.
Better(new, old, rels) ==
  /\ AllEvaluate(new, rels)
  /\ AllEvaluate(old, rels) => Smaller(Errors(new, rels), Errors(old, rels))

Judged(occs, rels) ==
  [i \in DOMAIN rels |->
     IF rels[i].off THEN rels[i]
     ELSE [rels[i] EXCEPT !.healthy = Satisfied(occs, rels[i])]]

----------------------------------------------------------------------------
(* The constraints one by one (_solve_legacy_assembly_constraints).        *)

\* The occurrence that solve_constraint moves: b, or a if b is grounded.
Movable(occs, r) ==
  IF ~occs[r.b].grounded THEN r.b
  ELSE IF r.a # 0 /\ ~occs[r.a].grounded THEN r.a ELSE 0

\* solve_constraint. Where a is the one to move, an opposed relation (mate)
\* puts it on the other side.
SolveConstraint(occs, r) ==
  IF r.off \/ ~Evaluates(occs, r) \/ Movable(occs, r) = 0 THEN occs
  ELSE IF Movable(occs, r) = r.b
  THEN [occs EXCEPT ![r.b].pos = PosOf(occs, r.a) + r.at]
  ELSE [occs EXCEPT ![r.a].pos =
          IF r.opposed THEN occs[r.b].pos + r.at ELSE occs[r.b].pos - r.at]

SolveInTurn(occs, rels) ==
  LET after[n \in 0..Len(rels)] ==
        IF n = 0 THEN occs ELSE SolveConstraint(after[n - 1], rels[n])
  IN  after[Len(rels)]

\* One pass over the constraints, and what is best so far.
Judge(s, after, rels) ==
  LET better == Better(after, s.best, rels) IN
  [occs |-> after,
   best |-> IF better THEN after ELSE s.best,
   stagnant |-> IF better THEN 0 ELSE s.stagnant + 1,
   still |-> after = s.occs]

SolverPass(s, rels) ==
  IF \/ s.stagnant >= 3 \/ s.still
     \/ AllEvaluate(s.best, rels) /\ Largest(Errors(s.best, rels)) = 0
  THEN s
  ELSE Judge(s, SolveInTurn(s.occs, rels), rels)

PassesFrom(occs, rels) ==
  LET after[n \in 0..MaxPasses] ==
        IF n = 0
        THEN [occs |-> occs, best |-> occs, stagnant |-> 0, still |-> FALSE]
        ELSE SolverPass(after[n - 1], rels)
  IN  after[MaxPasses]

\* A plausible slip in BestPoses: the last pass is kept, not the best.
BestPosesLast(occs, rels) ==
  IF Active(rels) = {} THEN occs ELSE PassesFrom(occs, rels).occs

BestPoses(occs, rels) ==
  IF Active(rels) = {} THEN occs ELSE PassesFrom(occs, rels).best

\* The poses with some of the occurrences moved, each to some spot.
Moved(occs, free) ==
  {[o \in Component |->
      IF o \in free THEN [occs[o] EXCEPT !.pos = to[o]] ELSE occs[o]] :
     to \in [free -> Spot]}

Free(occs) ==
  {o \in Component : occs[o] # Missing /\ ~occs[o].off /\ ~occs[o].grounded}

\* try_global_constraint_fallback: poses that are better, and in which what
\* was healthy is. Whether it finds any is up to numerics.
Fallback(occs, rels) ==
  {occs} \cup
  (IF /\ AllEvaluate(occs, rels)
      /\ \E i \in Active(rels) : ~Satisfied(occs, rels[i])
   THEN {new \in Moved(occs, Free(occs)) :
           /\ Better(new, occs, rels)
           /\ \A i \in Active(rels) :
                Satisfied(occs, rels[i]) => Satisfied(new, rels[i])}
   ELSE {})

OneByOne(d) ==
  {[d EXCEPT !.occs = occs, !.constraints = Judged(occs, @)] :
     occs \in Fallback(BestPoses(d.occs, d.constraints), d.constraints)}

----------------------------------------------------------------------------
(* Constraints and joints together (solve_assembly_relationships).         *)

Unsuppressed(d) == {o \in ToSet(d.order) : ~d.occs[o].off}
First(d) == d.order[Min({i \in DOMAIN d.order : ~d.occs[d.order[i]].off})]

\* With nothing grounded the first occurrence stays where it is.
FreeOf(d) ==
  IF Free(d.occs) = Unsuppressed(d)
  THEN Free(d.occs) \ {First(d)} ELSE Free(d.occs)

Squares(errors) == Total([i \in DOMAIN errors |-> errors[i] * errors[i]])

\* The descent of the sum of squares ends anywhere below its start; the poses
\* are kept if the score is better too, or is zero.
Descent(occs, rels, free) ==
  {IF \/ Better(new, occs, rels) \/ Largest(Errors(new, rels)) = 0
   THEN new ELSE occs :
     new \in {p \in Moved(occs, free) :
       Squares(Errors(p, rels)) < Squares(Errors(occs, rels))} \cup {occs}}

\* A plausible slip in WithHealth: only what is new is judged again.
WithHealthOfLast(d, occs) ==
  [d EXCEPT !.occs = occs,
            !.joints = SubSeq(@, 1, Len(@) - 1)
                       \o Judged(occs, SubSeq(@, Len(@), Len(@)))]

WithHealth(d, occs) ==
  [d EXCEPT !.occs = occs, !.constraints = Judged(occs, @),
            !.joints = Judged(occs, @)]

\* A relation that cannot be evaluated, or an assembly without components,
\* ends the solver before it judges anything.
Together(d) ==
  IF Unsuppressed(d) = {} THEN {d}
  ELSE IF FreeOf(d) = {} THEN {WithHealth(d, d.occs)}
  ELSE IF ~AllEvaluate(d.occs, Relations(d)) THEN {d}
  ELSE {WithHealth(d, occs) :
          occs \in Descent(d.occs, Relations(d), FreeOf(d))}

\* The commanded positions of active joints are put within their travel.
InTravel(d) ==
  [d EXCEPT !.joints =
     [i \in DOMAIN @ |-> IF @[i].off THEN @[i] ELSE WithinTravel(@[i])]]

\* solve_assembly_constraints
Solved(d) ==
  IF Active(d.joints) = {} THEN OneByOne(d) ELSE Together(InTravel(d))

----------------------------------------------------------------------------
(* The commands.                                                           *)

\* execute: a command that raises is undone by loading the snapshot, which
\* solves what it loads.
Refuse ==
  /\ \E back \in Solved(asm) : asm' = back
  /\ posed' = asm

\* The edited document is solved; a command that looks at its result raises
\* when it is not healthy.
Settled(edited, result, accepts) ==
  IF accepts THEN asm' = result /\ posed' = edited ELSE Refuse

Edited(edited) ==
  \E result \in Solved(edited) : Settled(edited, result, TRUE)

\* place_occurrence: the first name that is free.
Fresh(d) == CHOOSE o \in Component :
  d.occs[o] = Missing /\ \A n \in 1..(o - 1) : d.occs[n] # Missing

Added(d, o, pos, grounded) ==
  [d EXCEPT !.occs[o] = [pos |-> pos, grounded |-> grounded, off |-> FALSE,
                         named |-> TRUE],
            !.order = Append(@, o)]

PlaceOccurrence(pos, grounded) ==
  /\ Len(asm.order) < MaxComponents
  /\ Edited(Added(asm, Fresh(asm), pos, grounded))

\* edit_occurrence_state: each of the two is set and solved for, one after
\* the other.
Grounded(d, o, to) == [d EXCEPT !.occs[o].grounded = to]
Suppressed(d, o, to) == [d EXCEPT !.occs[o].off = to]

EditOccurrenceState(o, grounded, off) ==
  \E d \in Solved(Grounded(asm, o, grounded)) : Edited(Suppressed(d, o, off))

\* transform_occurrence, of one that is neither grounded nor suppressed by it.
TransformOccurrence(o, pos) == Edited([asm EXCEPT !.occs[o].pos = pos])

\* replace_occurrence, relink_occurrence, and a component that was edited: it
\* has the references of the old one or has not.
ReplaceOccurrence(o, named) == Edited([asm EXCEPT !.occs[o].named = named])

\* What is left of a sequence when the elements at some places are taken out.
Remaining(s, out) ==
  LET left[n \in 0..Len(s)] ==
        IF n = 0 THEN <<>>
        ELSE IF n \in out THEN left[n - 1] ELSE Append(left[n - 1], s[n])
  IN  left[Len(s)]

\* delete_occurrence, with every relation that has an end on it.
Without(rels, o) ==
  Remaining(rels, {i \in DOMAIN rels : o \in {rels[i].a, rels[i].b}})

RemoveOccurrence(o) ==
  Edited([asm EXCEPT !.occs[o] = Missing,
            !.order = Remaining(asm.order,
                                {i \in DOMAIN asm.order : asm.order[i] = o}),
            !.constraints = Without(@, o), !.joints = Without(@, o)])

\* add_constraint: it stays when it is sick.
AddConstraint(a, b, at, opposed) ==
  /\ Len(asm.constraints) < MaxConstraints
  /\ Edited([asm EXCEPT !.constraints = Append(@,
       [name |-> 0, a |-> a, b |-> b, at |-> at, lo |-> 0, hi |-> 0,
        opposed |-> opposed, off |-> FALSE, healthy |-> TRUE])])

\* edit_constraint raises when the edited constraint is sick.
EditConstraint(i, a, at, off) ==
  LET edited == [asm EXCEPT !.constraints[i].a = a, !.constraints[i].at = at,
                            !.constraints[i].off = off]
  IN  \E result \in Solved(edited) :
        Settled(edited, result, off \/ result.constraints[i].healthy)

DeleteConstraint(i) == Edited([asm EXCEPT !.constraints = RemoveAt(@, i)])

\* The joint commands raise when the joint is not healthy; joint_state wants
\* its two ends.
JointEdited(edited, i) ==
  \E result \in Solved(edited) :
    Settled(edited, result,
            /\ result.joints[i].healthy
            /\ Evaluates(result.occs, result.joints[i]))

\* add_joint: its name is made from the number of joints, and must be new.
AddJoint(a, b, at, lo, hi) ==
  LET name == Len(asm.joints) + 1
      joint == [name |-> name, a |-> a, b |-> b, at |-> at, lo |-> lo,
                hi |-> hi, opposed |-> FALSE, off |-> FALSE, healthy |-> TRUE]
  IN  /\ Len(asm.joints) < MaxJoints
      /\ lo <= hi
      /\ IF \E i \in DOMAIN asm.joints : asm.joints[i].name = name THEN Refuse
         ELSE JointEdited([asm EXCEPT !.joints = Append(@, joint)], name)

\* edit_joint, of what is suppressed; set_joint_limits; drive_joint. Limits
\* that cross are refused (validate_joint_definition).
SuppressJoint(i, off) == JointEdited([asm EXCEPT !.joints[i].off = off], i)

SetJointLimits(i, lo, hi) ==
  IF lo > hi THEN Refuse
  ELSE JointEdited([asm EXCEPT !.joints[i].lo = lo, !.joints[i].hi = hi], i)

DriveJoint(i, at) == JointEdited([asm EXCEPT !.joints[i].at = at], i)

DeleteJoint(i) == Edited([asm EXCEPT !.joints = RemoveAt(@, i)])

----------------------------------------------------------------------------
\* A new assembly.
PosesInit ==
  /\ asm = [occs |-> [o \in Component |-> Missing], order |-> <<>>,
            constraints |-> <<>>, joints |-> <<>>]
  /\ posed = asm
  /\ moves = 0

OccurrenceStep ==
  \/ \E pos \in Spot, grounded \in BOOLEAN : PlaceOccurrence(pos, grounded)
  \/ \E o \in ToSet(asm.order) :
       \/ \E grounded, off \in BOOLEAN : EditOccurrenceState(o, grounded, off)
       \/ \E pos \in Spot : TransformOccurrence(o, pos)
       \/ \E named \in BOOLEAN : ReplaceOccurrence(o, named)
       \/ RemoveOccurrence(o)

Ends == {0} \cup ToSet(asm.order)

ConstraintStep ==
  \/ \E a \in Ends, b \in ToSet(asm.order), at \in Spot, opposed \in BOOLEAN :
       a # b /\ AddConstraint(a, b, at, opposed)
  \/ \E i \in DOMAIN asm.constraints :
       \/ \E a \in Ends, at \in Spot, off \in BOOLEAN :
            a # asm.constraints[i].b /\ EditConstraint(i, a, at, off)
       \/ DeleteConstraint(i)

JointStep ==
  \/ \E a \in Ends, b \in ToSet(asm.order), at \in Spot \cup {Missing},
        lo, hi \in Spot :
       a # b /\ AddJoint(a, b, at, lo, hi)
  \/ \E i \in DOMAIN asm.joints :
       \/ \E off \in BOOLEAN : SuppressJoint(i, off)
       \/ \E lo, hi \in Spot : SetJointLimits(i, lo, hi)
       \/ \E at \in Spot : DriveJoint(i, at)
       \/ DeleteJoint(i)

PosesNext ==
  /\ moves < MaxMoves
  /\ moves' = moves + 1
  /\ OccurrenceStep \/ ConstraintStep \/ JointStep

PosesSpec == PosesInit /\ [][PosesNext]_apVars

----------------------------------------------------------------------------
(* Properties                                                              *)

\* "list constraints", "list joints" and "assembly relationship health" tell
\* the truth: after every command, refused ones too, an active relation is
\* healthy exactly if the components stand as it asks, whichever solver ran
\* and whatever it gave up (CadDocument.solve_assembly_constraints). Not so
\* where the solver of joints gives up before it starts: it then leaves every
\* health as it was.
HealthTellsTruth ==
  LET judged == \/ Active(asm.joints) = {}
                \/ Unsuppressed(asm) # {}
                   /\ AllEvaluate(asm.occs, Relations(asm))
  IN  judged => \A i \in Active(Relations(asm)) :
        Relations(asm)[i].healthy <=> Satisfied(asm.occs, Relations(asm)[i])

\* No solver makes an assembly worse than it found it (core/joints.py:514),
\* by the largest error and then their sum, and none moves a component that
\* is grounded, however the two solvers and the fallback of the first share
\* the work.
SolvingNeverWorsens ==
  /\ \A o \in Component :
       asm.occs[o] # Missing /\ asm.occs[o].grounded =>
         asm.occs[o].pos = posed.occs[o].pos
  /\ \/ asm.occs = posed.occs
     \/ Better(asm.occs, posed.occs, Relations(asm))
     \/ \A i \in Active(Relations(asm)) :
          Satisfied(asm.occs, Relations(asm)[i])
=============================================================================
