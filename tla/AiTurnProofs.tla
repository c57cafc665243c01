---------------------------- MODULE AiTurnProofs ----------------------------
(***************************************************************************)
(* Proofs about AiTurn, for any calls, any length of plans, any number of  *)
(* repairs and any bound on the faults, and about CodexClient, through     *)
(* which turns ask the model, for any callers, processes and numbers.      *)
(*                                                                         *)
(* The argument for the failed turn: as long as nothing happened that the  *)
(* executor cannot undo, each place of the turn knows a copy of the model  *)
(* the turn began with: the outer snapshot in the closed loop, the plan's  *)
(* snapshot while a whole plan runs, the model itself everywhere else.     *)
(*                                                                         *)
(* The argument for the client: a number belongs to one caller from the    *)
(* moment it is registered until the caller takes it back, and a question  *)
(* with that number on any pipe is that caller's. So an answer that comes  *)
(* late finds its caller or nobody, never another one.                     *)
(***************************************************************************)
EXTENDS AiTurn, CodexClient, Recursion, SequenceTheorems, TLAPS

(* Where the model the turn began with is kept.                            *)
ModelKept ==
  faults \subseteq {"midsave"} =>
    /\ pc \in {"planning", "recovering", "repairing"} => model = before
    /\ (pc = "starting" /\ stage # "stepwise") => model = before
    /\ (pc \in {"running", "calling"} /\ stage # "stepwise") => snap = before
    /\ (pc \in {"starting", "running", "calling", "feedback"}
          /\ stage = "stepwise") => outer = before
    /\ pc = "fallback" => outer = before

(* Only the closed loop asks for a continuation, and a call is at the host *)
(* only while its execution waits for it.                                  *)
StageFits ==
  /\ pc \in {"feedback", "fallback"} => stage = "stepwise"
  /\ call = "sent" => pc = "calling"

IInv == ModelKept /\ StageFits /\ DiskIsBetweenTurns

(* Every step of the specification, one disjunct per action.               *)
LEMMA StepCases ==
  ASSUME Next, NEW P,
         Begin => P, PlanFails => P,
         \A p \in Plan : PlanMade(p) => P,
         \A p \in Plan : Feedback(p) => P,
         \A p \in Plan : Repair(p) => P,
         StartPlan => P, RefusePlan => P, Send => P, HostRuns => P,
         HostRunsLate => P, ClientGivesUp => P, CallDone => P, CallFails => P,
         PlanDone => P, PlanChangedNothing => P, PlanCancelled => P,
         FeedbackEnds => P, FallBack => P, Recover => P, RepairRepeats => P,
         RecoveryFails => P, Finish => P, Persist => P, StrayRuns => P,
         Cancel => P, SaveActive => P,
         \A c \in EditCall : UserCommand(c) => P,
         Crash => P
  PROVE  P
  BY Zenon DEF Next, TurnStep

LEMMA InitInv == Init => IInv
  BY DEF Init, IInv, ModelKept, StageFits, DiskIsBetweenTurns

LEMMA StepInv == IInv /\ [Next]_vars => IInv'
<1> SUFFICES ASSUME IInv, [Next]_vars PROVE IInv'
  OBVIOUS
<1> USE DEF IInv, ModelKept, StageFits, DiskIsBetweenTurns
<1>1. CASE UNCHANGED vars
  BY <1>1 DEF vars, exec, loop, turn
<1>2. CASE Next
  <2>1. Begin => IInv'
    BY DEF Begin, exec, loop
  <2>2. PlanFails => IInv'
    BY DEF PlanFails, TurnFails, EndTurn
  <2>3. \A p \in Plan : PlanMade(p) => IInv'
    BY DEF PlanMade, turn
  <2>4. \A p \in Plan : Feedback(p) => IInv'
    BY DEF Feedback, loop, turn
  <2>5. \A p \in Plan : Repair(p) => IInv'
    BY DEF Repair, turn
  <2>6. StartPlan => IInv'
    BY DEF StartPlan, loop, turn
  <2>7. RefusePlan => IInv'
    BY DEF RefusePlan, LeaveClosedLoop, NextRecovery, turn
  <2>8. Send => IInv'
    BY DEF Send, loop, turn
  <2>9. HostRuns => IInv'
    BY DEF HostRuns, loop, turn
  <2>10. HostRunsLate => IInv'
    BY DEF HostRunsLate, loop, turn
  <2>11. ClientGivesUp => IInv'
    BY DEF ClientGivesUp, exec, loop, turn
  <2>12. CallDone => IInv'
    BY DEF CallDone, loop, turn
  <2>13. CallFails => IInv'
    BY DEF CallFails, RestoreTo, Suffers, AfterFailure, Continue, NextRecovery,
           ExecutionEnds, turn
  <2>14. PlanDone => IInv'
    BY DEF PlanDone, ExecutionEnds, turn
  <2>15. PlanChangedNothing => IInv'
    BY DEF PlanChangedNothing, RestoreTo, Suffers, AfterFailure, Continue,
           NextRecovery, ExecutionEnds, turn
  <2>16. PlanCancelled => IInv'
    BY DEF PlanCancelled, RestoreTo, Suffers, LeaveClosedLoop, NextRecovery,
           ExecutionEnds, turn
  <2>17. FeedbackEnds => IInv'
    BY DEF FeedbackEnds, exec, loop, turn
  <2>18. FallBack => IInv'
    BY DEF FallBack, RestoreTo, Suffers, turn
  <2>19. Recover => IInv'
    BY DEF Recover, turn
  <2>20. RepairRepeats => IInv'
    BY DEF RepairRepeats, exec, turn
  <2>21. RecoveryFails => IInv'
    BY DEF RecoveryFails, TurnFails, EndTurn
  <2>22. Finish => IInv'
    BY DEF Finish, TurnFails, EndTurn, exec, loop, turn
  <2>23. Persist => IInv'
    BY DEF Persist, EndTurn
  <2>24. StrayRuns => IInv'
    BY DEF StrayRuns, Suffers, loop, turn
  <2>25. Cancel => IInv'
    BY DEF Cancel, exec, loop, turn
  <2>26. SaveActive => IInv'
    BY DEF SaveActive, Suffers, exec, loop, turn
  <2>27. \A c \in EditCall : UserCommand(c) => IInv'
    BY DEF UserCommand, exec, loop
  <2>28. Crash => IInv'
    BY DEF Crash, EndTurn
  <2> HIDE DEF IInv
  <2> QED
    BY <1>2, <2>1, <2>2, <2>3, <2>4, <2>5, <2>6, <2>7, <2>8, <2>9, <2>10,
       <2>11, <2>12, <2>13, <2>14, <2>15, <2>16, <2>17, <2>18, <2>19, <2>20,
       <2>21, <2>22, <2>23, <2>24, <2>25, <2>26, <2>27, <2>28, StepCases
<1> QED
  BY <1>1, <1>2

(***************************************************************************)
(* Types                                                                   *)
(***************************************************************************)

(* How far the recovery can have got: one repair beyond the last that may  *)
(* be asked for, and only where no other can be asked for.                 *)
AttemptFits ==
  /\ stage = "stepwise" => attempt <= MaxRepairs
  /\ (stage \in {"initial", "deterministic"} /\ pc # "repairing")
       => attempt = 1
  /\ (stage = "repair" /\ pc # "repairing") => attempt <= MaxRepairs
  /\ pc = "recovering" => stage = "initial"
  /\ pc = "repairing" => stage # "stepwise"

(* The position in the plan, while one runs.                               *)
StepFits ==
  /\ pc \notin {"running", "calling"} => step = 0
  /\ step <= Len(plan)
  /\ pc = "calling" => step < Len(plan)
  /\ call = "sent" => pc = "calling"

TInv == TypeOK /\ AttemptFits /\ StepFits

LEMMA PlanIsSequence ==
  ASSUME NEW p \in Plan
  PROVE  /\ p \in Seq(Call)
         /\ Len(p) \in 0..MaxCalls
<1>1. PICK n \in 0..MaxCalls : p \in [1..n -> Call]
  BY DEF Plan
<1>2. n \in Nat
  BY <1>1, AiTurnAssumption
<1>3. p \in Seq(Call)
  BY <1>1, <1>2, SeqDef
<1>4. Len(p) = n
  BY <1>1, <1>2, <1>3, LenProperties
<1> QED
  BY <1>1, <1>3, <1>4

LEMMA EmptyPlan == <<>> \in Plan /\ Len(<<>>) = 0
<1>1. <<>> \in [1..0 -> Call]
  OBVIOUS
<1> QED
  BY <1>1, AiTurnAssumption DEF Plan

(* A prefix of the plan, and what is done before it.                       *)
LEMMA PrefixIsSequence ==
  ASSUME plan \in Plan, completed \in Seq(Call), NEW n \in 0..Len(plan)
  PROVE  completed \o SubSeq(plan, 1, n) \in Seq(Call)
<1>1. plan \in Seq(Call) /\ Len(plan) \in Nat
  BY PlanIsSequence, AiTurnAssumption
<1>2. 1 \in 1..Len(plan) + 1 /\ n \in (1 - 1)..Len(plan)
  BY <1>1
<1>3. SubSeq(plan, 1, n) \in Seq(Call)
  BY <1>1, <1>2, SubSeqProperties
<1> QED
  BY <1>3, ConcatProperties

LEMMA CallOfPlan ==
  ASSUME plan \in Plan, step \in 0..MaxCalls, step < Len(plan)
  PROVE  plan[step + 1] \in Call
<1>1. plan \in Seq(Call) /\ Len(plan) \in Nat
  BY PlanIsSequence, AiTurnAssumption
<1>2. step + 1 \in 1..Len(plan)
  BY <1>1, AiTurnAssumption
<1> QED
  BY <1>1, <1>2, ElementOfSeq

LEMMA AfterIsModel ==
  ASSUME model \in Seq(EditCall), NEW c
  PROVE  After(c) \in Seq(EditCall)
  BY AppendProperties DEF After, IsEdit

LEMMA InitType == Init => TInv
<1> SUFFICES ASSUME Init PROVE TInv
  OBVIOUS
<1>1. <<>> \in Seq(EditCall) /\ <<>> \in Seq(Call)
  OBVIOUS
<1>2. MaxRepairs \in Nat /\ MaxCalls \in Nat
  BY AiTurnAssumption
<1>3. moved \in BOOLEAN /\ cancelled \in BOOLEAN
  BY Zenon DEF Init
<1> QED
  BY <1>1, <1>2, <1>3, EmptyPlan
     DEF Init, TInv, TypeOK, AttemptFits, StepFits, Location, Stage

(* What EndTurn leaves is well typed, given the rest.                      *)
LEMMA EndTurnType ==
  ASSUME TInv, NEW how \in {"none", "done", "failed"}, EndTurn(how),
         model' \in Seq(EditCall), disk' \in Seq(EditCall),
         stray' \in Call \cup {None}, faults' \subseteq Fault
  PROVE  TInv'
<1>1. <<>> \in Seq(EditCall) /\ <<>> \in Seq(Call)
  OBVIOUS
<1>2. MaxRepairs \in Nat /\ MaxCalls \in Nat
  BY AiTurnAssumption
<1>3. moved' \in BOOLEAN /\ cancelled' \in BOOLEAN
  BY Zenon DEF EndTurn
<1> QED
  BY <1>1, <1>2, <1>3, EmptyPlan
     DEF EndTurn, TInv, TypeOK, AttemptFits, StepFits, Location, Stage

LEMMA StepType == TInv /\ [Next]_vars => TInv'
<1> SUFFICES ASSUME TInv, [Next]_vars PROVE TInv'
  OBVIOUS
<1>a. MaxRepairs \in Nat /\ MaxCalls \in Nat
  BY AiTurnAssumption
<1>b. plan \in Seq(Call) /\ Len(plan) \in 0..MaxCalls
  BY PlanIsSequence DEF TInv, TypeOK
<1>c. TypeOK /\ AttemptFits /\ StepFits
  BY DEF TInv
<1> USE <1>a, <1>b DEF TypeOK, AttemptFits, StepFits, Location, Stage
<1>1. CASE UNCHANGED vars
  BY <1>c, <1>1 DEF TInv, vars, exec, loop, turn
<1>2. CASE Next
  <2>a. plan \in Plan /\ completed \in Seq(Call) /\ step \in 0..MaxCalls
    BY <1>c
  <2>b. pc = "calling" => plan[step + 1] \in Call
    BY <1>c, CallOfPlan
  <2>c. \A c : After(c) \in Seq(EditCall)
    BY <1>c, AfterIsModel
  <2>d. \A n \in 0..Len(plan) : completed \o SubSeq(plan, 1, n) \in Seq(Call)
    BY <2>a, PrefixIsSequence
  <2>e. <<>> \in Seq(EditCall) /\ <<>> \in Seq(Call) /\ <<>> \in Plan
          /\ Len(<<>>) = 0
    BY EmptyPlan
  <2>f. \A p \in Plan : Len(p) \in 0..MaxCalls
    BY PlanIsSequence
  <2>g. \A to \in Seq(EditCall) :
          RestoreTo(to) => model' \in Seq(EditCall) /\ faults' \subseteq Fault
    BY <1>c DEF RestoreTo, Suffers, Fault
  <2>i. ExecutionEnds => step' = 0 /\ snap' = <<>> /\ moved' \in BOOLEAN
    BY Zenon DEF ExecutionEnds
  <2>h. ASSUME NEW n \in 0..Len(plan), AfterFailure(n), ExecutionEnds,
               pc \in {"running", "calling"}
        PROVE  /\ pc' \in Location /\ stage' \in Stage
               /\ attempt' \in 0..(MaxRepairs + 1)
               /\ plan' \in Plan /\ completed' \in Seq(Call)
               /\ AttemptFits' /\ step' <= Len(plan')
               /\ pc' \notin {"running", "calling"}
    <3>1. CASE stage = "stepwise"
      <4>1. Continue(n)
        BY <2>h, <3>1 DEF AfterFailure
      <4>2. completed \o SubSeq(plan, 1, n) \in Seq(Call)
        BY <2>d
      <4>3. plan' = <<>> /\ step' = 0 /\ stage' = "stepwise"
            /\ completed' \in Seq(Call)
        BY <2>i, <2>h, <3>1, <4>1, <4>2 DEF Continue
      <4>4. pc' \in {"fallback", "feedback"}
            /\ attempt' = IF attempt >= MaxRepairs THEN attempt ELSE attempt + 1
        BY <4>1 DEF Continue
      <4> QED
        BY <1>c, <2>e, <2>h, <3>1, <4>3, <4>4
    <3>2. CASE stage # "stepwise"
      <4>1. NextRecovery
        BY <2>h, <3>2 DEF AfterFailure
      <4>2. plan' = plan /\ completed' = completed /\ step' = 0
            /\ stage' = stage
        BY <2>i, <2>h, <4>1 DEF NextRecovery
      <4> QED
        BY <1>c, <2>a, <2>h, <3>2, <4>1, <4>2 DEF NextRecovery
    <3> QED
      BY <3>1, <3>2
  <2>1. Begin => TInv'
    BY <1>c DEF TInv, Begin, exec, loop
  <2>2. PlanFails => TInv'
    BY <1>c, EndTurnType DEF PlanFails, TurnFails
  <2>3. \A p \in Plan : PlanMade(p) => TInv'
    BY <1>c, <2>f DEF TInv, PlanMade, turn
  <2>4. \A p \in Plan : Feedback(p) => TInv'
    BY <1>c, <2>f DEF TInv, Feedback, loop, turn
  <2>5. \A p \in Plan : Repair(p) => TInv'
    BY <1>c, <2>f DEF TInv, Repair, turn
  <2>6. StartPlan => TInv'
    BY <1>c DEF TInv, StartPlan, loop, turn
  <2>7. RefusePlan => TInv'
    BY <1>c DEF TInv, RefusePlan, LeaveClosedLoop, NextRecovery, turn
  <2>8. Send => TInv'
    BY <1>c DEF TInv, Send, loop, turn
  <2>9. HostRuns => TInv'
    BY <1>c, <2>c DEF TInv, HostRuns, loop, turn, IsEdit
  <2>10. HostRunsLate => TInv'
    BY <1>c, <2>c DEF TInv, HostRunsLate, loop, turn, IsEdit
  <2>11. ClientGivesUp => TInv'
    BY <1>c, <2>b DEF TInv, ClientGivesUp, exec, loop, turn
  <2>12. CallDone => TInv'
    BY <1>c DEF TInv, CallDone, loop, turn
  <2>13. CallFails => TInv'
    BY <1>c, <2>e, <2>g, <2>h, <2>i DEF TInv, CallFails, turn
  <2>14. PlanDone => TInv'
    BY <1>c, <2>e, <2>i, ConcatProperties DEF TInv, PlanDone, turn
  <2>15. PlanChangedNothing => TInv'
    BY <1>c, <2>e, <2>g, <2>h, <2>i DEF TInv, PlanChangedNothing, turn
  <2>16. PlanCancelled => TInv'
    BY <1>c, <2>e, <2>g, <2>i
       DEF TInv, PlanCancelled, LeaveClosedLoop, NextRecovery, turn
  <2>17. FeedbackEnds => TInv'
    BY <1>c DEF TInv, FeedbackEnds, exec, loop, turn
  <2>18. FallBack => TInv'
    BY <1>c, <2>e, <2>f, <2>g DEF TInv, FallBack, turn
  <2>19. Recover => TInv'
    BY <1>c, <2>f DEF TInv, Recover, Rewrites, turn
  <2>20. RepairRepeats => TInv'
    BY <1>c DEF TInv, RepairRepeats, exec, turn
  <2>21. RecoveryFails => TInv'
    BY <1>c, EndTurnType DEF RecoveryFails, TurnFails
  <2>22. Finish => TInv'
    BY <1>c, EndTurnType DEF TInv, Finish, TurnFails, Fault, exec, loop, turn
  <2>23. Persist => TInv'
    BY <1>c, EndTurnType DEF Persist, Fault
  <2>24. StrayRuns => TInv'
    BY <1>c, <2>c DEF TInv, StrayRuns, Suffers, Fault, loop, turn
  <2>25. Cancel => TInv'
    BY <1>c DEF TInv, Cancel, exec, loop, turn
  <2>26. SaveActive => TInv'
    BY <1>c DEF TInv, SaveActive, Suffers, Fault, exec, loop, turn
  <2>27. \A c \in EditCall : UserCommand(c) => TInv'
    BY <1>c, AppendProperties DEF TInv, UserCommand, exec, loop
  <2>28. Crash => TInv'
    BY <1>c, EndTurnType DEF Crash
  <2> QED
    BY <1>2, <2>1, <2>2, <2>3, <2>4, <2>5, <2>6, <2>7, <2>8, <2>9, <2>10,
       <2>11, <2>12, <2>13, <2>14, <2>15, <2>16, <2>17, <2>18, <2>19, <2>20,
       <2>21, <2>22, <2>23, <2>24, <2>25, <2>26, <2>27, <2>28, StepCases
<1> QED
  BY <1>1, <1>2

(* Every variable keeps its type, and no more repairs are asked for than   *)
(* max_ai_repairs allows (recovery.py, execute_with_failure_recovery).     *)
THEOREM TypeCorrect == Spec => []TypeOK
<1>1. TInv => TypeOK
  BY DEF TInv
<1> QED
  BY InitType, StepType, <1>1, PTL DEF Spec

(***************************************************************************)
(* Atomicity                                                               *)
(***************************************************************************)

(* The invariant of every behaviour.                                       *)
LEMMA Invariant == Spec => []IInv
  BY InitInv, StepInv, PTL DEF Spec

(* Whenever the process dies, workspace.json holds the model before the    *)
(* turn or the one after it, unless Save was pressed during a turn or      *)
(* something happened that no rollback takes back (cad_runtime.py, persist *)
(* and save_active_document).                                              *)
THEOREM RestartFindsATurnBoundary == Spec => []DiskIsBetweenTurns
<1>1. IInv => DiskIsBetweenTurns
  BY DEF IInv
<1> QED
  BY Invariant, <1>1, PTL

(* A turn that fails leaves the model it found (recovery.py and            *)
(* planning.py: savepoints, plan snapshots and the outer snapshot).        *)
THEOREM FailureIsAtomic == Spec => FailedTurnLeavesModel
<1> DEFINE A == Ends("failed") /\ faults' \subseteq {"midsave"}
                  => model' = before
<1>1. IInv /\ [Next]_vars => [A]_vars
  <2> SUFFICES ASSUME IInv, Next, Ends("failed"),
                      faults' \subseteq {"midsave"}
               PROVE  model' = before
    BY DEF vars
  <2>1. pc # "idle" /\ pc' = "idle" /\ outcome' = "failed"
    BY DEF Ends
  <2>2. PlanFails => model' = before
    BY <2>1 DEF PlanFails, TurnFails, IInv, ModelKept
  <2>3. RecoveryFails => model' = before
    BY <2>1 DEF RecoveryFails, TurnFails, IInv, ModelKept
  <2>4. Finish => FALSE
    BY <2>1 DEF Finish, TurnFails
  <2>5. Persist => FALSE
    BY <2>1 DEF Persist, EndTurn
  <2>6. Crash => FALSE
    BY <2>1 DEF Crash, EndTurn
  <2>7. PlanFails \/ RecoveryFails \/ Finish \/ Persist \/ Crash
    <3>1. Begin \/ StartPlan \/ RefusePlan \/ Send \/ HostRuns \/ HostRunsLate
            \/ ClientGivesUp \/ CallDone \/ CallFails => FALSE
      BY <2>1 DEF Begin, StartPlan, RefusePlan, Send, HostRuns, HostRunsLate,
                  ClientGivesUp, CallDone, CallFails, AfterFailure, Continue,
                  NextRecovery, LeaveClosedLoop
    <3>2. PlanDone \/ PlanChangedNothing \/ PlanCancelled \/ FeedbackEnds
            \/ FallBack \/ Recover \/ RepairRepeats => FALSE
      BY <2>1 DEF PlanDone, PlanChangedNothing, PlanCancelled, FeedbackEnds,
                  FallBack, Recover, RepairRepeats, AfterFailure, Continue,
                  NextRecovery, LeaveClosedLoop
    <3>3. \A p \in Plan : PlanMade(p) \/ Feedback(p) \/ Repair(p) => FALSE
      BY <2>1 DEF PlanMade, Feedback, Repair
    <3>4. StrayRuns \/ Cancel \/ SaveActive => FALSE
      BY <2>1 DEF StrayRuns, Cancel, SaveActive
    <3>5. \A c \in EditCall : UserCommand(c) => FALSE
      BY <2>1 DEF UserCommand
    <3> QED
      BY <3>1, <3>2, <3>3, <3>4, <3>5 DEF Next, TurnStep
  <2> QED
    BY <2>2, <2>3, <2>4, <2>5, <2>6, <2>7
<1>2. Spec => [][A]_vars
  BY Invariant, <1>1, PTL DEF Spec
<1> QED
  BY <1>2 DEF FailedTurnLeavesModel

(***************************************************************************)
(* Edits: the edits of one more call.                                      *)
(***************************************************************************)

(* kept is the function that Edits(s) is defined by.                       *)
KeepsEdits(s, kept) ==
  kept = [n \in 0..Len(s) |->
            IF n = 0 THEN <<>>
            ELSE IF IsEdit(s[n]) THEN Append(kept[n - 1], s[n])
            ELSE kept[n - 1]]

(* Its value for one more call.                                            *)
LEMMA KeptAt ==
  ASSUME NEW s \in Seq(Call), NEW f, KeepsEdits(s, f)
  PROVE  /\ f[0] = <<>>
         /\ \A n \in Nat : n + 1 <= Len(s) =>
              f[n + 1] = IF IsEdit(s[n + 1]) THEN Append(f[n], s[n + 1])
                         ELSE f[n]
<1>1. f = [n \in 0..Len(s) |->
            IF n = 0 THEN <<>>
            ELSE IF IsEdit(s[n]) THEN Append(f[n - 1], s[n])
            ELSE f[n - 1]]
  BY Zenon DEF KeepsEdits
<1>2. Len(s) \in Nat
  OBVIOUS
<1>3. f[0] = <<>>
  <2>1. 0 \in 0..Len(s)
    BY <1>2
  <2> QED
    BY <1>1, <2>1, Zenon
<1>4. ASSUME NEW m \in 0..Len(s), m # 0
      PROVE f[m] = IF IsEdit(s[m]) THEN Append(f[m - 1], s[m])
                   ELSE f[m - 1]
  BY <1>1, <1>4, Zenon
<1>5. ASSUME NEW n \in Nat, n + 1 <= Len(s)
      PROVE f[n + 1] = IF IsEdit(s[n + 1]) THEN Append(f[n], s[n + 1])
                         ELSE f[n]
  <2>1. n + 1 \in 0..Len(s) /\ n + 1 # 0
    BY <1>2, <1>5
  <2>2. (n + 1) - 1 = n
    OBVIOUS
  <2> QED
    BY <1>4, <2>1, <2>2, Zenon
<1> QED
  BY <1>3, <1>5

LEMMA EditsByRecursion ==
  ASSUME NEW s \in Seq(Call)
  PROVE  \E kept \in [0..Len(s) -> Seq(EditCall)] :
           KeepsEdits(s, kept) /\ Edits(s) = kept[Len(s)]
<1> DEFINE V == Seq(EditCall)
           h == [n \in 1..Len(s) |-> [v \in V |->
                   IF IsEdit(s[n]) THEN Append(v, s[n]) ELSE v]]
           g == CHOOSE k : KeepsEdits(s, k)
           S == {n \in Nat : n <= Len(s) => g[n] \in V}
<1>1. h \in [1..Len(s) -> [V -> V]] /\ <<>> \in V /\ Len(s) \in Nat
  BY DEF IsEdit
<1>2. \A n \in 1..Len(s), v \in V :
        h[n][v] = IF IsEdit(s[n]) THEN Append(v, s[n]) ELSE v
  BY DEF IsEdit
<1>3. Edits(s) = g[Len(s)]
  BY DEF Edits, KeepsEdits
<1> HIDE DEF V, h
<1>4. PICK f \in [0..Len(s) -> V] : IteratesTo(f, <<>>, h, Len(s))
  BY <1>1, RecursionOver
<1>5. KeepsEdits(s, f)
  <2>1. \A n \in 0..Len(s) : n # 0 => n \in 1..Len(s) /\ f[n - 1] \in V
    BY <1>1
  <2> QED
    BY <1>1, <1>2, <1>4, <2>1 DEF KeepsEdits, IteratesTo
<1>6. KeepsEdits(s, g)
  BY <1>5
<1> HIDE DEF g
<1>7. 0 \in S
  BY <1>1, <1>6, KeptAt
<1>8. ASSUME NEW n \in Nat, n \in S PROVE n + 1 \in S
  <2> SUFFICES ASSUME n + 1 <= Len(s) PROVE g[n + 1] \in V
    OBVIOUS
  <2>1. n + 1 \in 1..Len(s) /\ g[n] \in V
    BY <1>1, <1>8
  <2>2. g[n + 1] = IF IsEdit(s[n + 1]) THEN Append(g[n], s[n + 1]) ELSE g[n]
    BY <1>6, KeptAt
  <2> QED
    BY <2>1, <2>2 DEF V, IsEdit
<1>9. Nat \subseteq S
  <2> HIDE DEF S
  <2> QED
    BY <1>7, <1>8, Induction
<1>10. g \in [0..Len(s) -> V]
  <2>1. \A n \in 0..Len(s) : g[n] \in V
    BY <1>1, <1>9
  <2>2. g = [n \in 0..Len(s) |-> g[n]]
    BY <1>6 DEF KeepsEdits
  <2> QED
    BY <2>1, <2>2
<1> QED
  BY <1>3, <1>6, <1>10 DEF V

LEMMA EditsOfNone == Edits(<<>>) = <<>>
<1>1. <<>> \in Seq(Call) /\ Len(<<>>) = 0
  OBVIOUS
<1> QED
  BY <1>1, EditsByRecursion, KeptAt

(* Two sequences with the same first n calls keep the same of them.        *)
LEMMA EditsOfPrefix ==
  ASSUME NEW s \in Seq(Call), NEW t \in Seq(Call), Len(s) <= Len(t),
         \A i \in 1..Len(s) : s[i] = t[i],
         NEW f, KeepsEdits(s, f), NEW g, KeepsEdits(t, g)
  PROVE  f[Len(s)] = g[Len(s)]
<1> DEFINE S == {n \in Nat : n <= Len(s) => f[n] = g[n]}
<1>1. Len(s) \in Nat /\ Len(t) \in Nat
  OBVIOUS
<1>2. 0 \in S
  BY KeptAt
<1>3. ASSUME NEW n \in Nat, n \in S PROVE n + 1 \in S
  <2> SUFFICES ASSUME n + 1 <= Len(s) PROVE f[n + 1] = g[n + 1]
    OBVIOUS
  <2>1. n + 1 <= Len(t) /\ f[n] = g[n] /\ s[n + 1] = t[n + 1]
    BY <1>1, <1>3
  <2>2. f[n + 1] = IF IsEdit(s[n + 1]) THEN Append(f[n], s[n + 1]) ELSE f[n]
    BY KeptAt
  <2>3. g[n + 1] = IF IsEdit(t[n + 1]) THEN Append(g[n], t[n + 1]) ELSE g[n]
    BY <2>1, KeptAt
  <2> QED
    BY <2>1, <2>2, <2>3
<1>4. Nat \subseteq S
  <2> HIDE DEF S
  <2> QED
    BY <1>2, <1>3, Induction
<1> QED
  BY <1>1, <1>4

LEMMA EditsOfAppend ==
  ASSUME NEW s \in Seq(Call), NEW c \in Call
  PROVE  Edits(Append(s, c))
           = IF IsEdit(c) THEN Append(Edits(s), c) ELSE Edits(s)
<1> DEFINE t == Append(s, c)
           n == Len(s)
<1>1. /\ t \in Seq(Call) /\ n \in Nat /\ Len(t) = n + 1 /\ t[n + 1] = c
      /\ \A i \in 1..n : s[i] = t[i]
  OBVIOUS
<1> HIDE DEF t
<1>2. PICK f : KeepsEdits(s, f) /\ Edits(s) = f[n]
  BY EditsByRecursion
<1>3. PICK g : KeepsEdits(t, g) /\ Edits(t) = g[n + 1]
  BY <1>1, EditsByRecursion
<1>4. f[n] = g[n]
  <2>1. n <= Len(t)
    BY <1>1
  <2> QED
    BY <1>1, <1>2, <1>3, <2>1, EditsOfPrefix
<1>5. g[n + 1] = IF IsEdit(c) THEN Append(g[n], c) ELSE g[n]
  BY <1>1, <1>3, KeptAt
<1> QED
  BY <1>2, <1>3, <1>4, <1>5 DEF t

(***************************************************************************)
(* What the agent is told                                                  *)
(***************************************************************************)

(* The calls that are done, and the model they make of the one before.     *)
Done == completed \o SubSeq(plan, 1, step)
Made(calls) == before \o Edits(calls)

Told == Made(completed)
Reached == Made(Done)
Ahead == Made(Append(Done, plan[step + 1]))

(* Only the closed loop has earlier plans.                                 *)
LedgerFits ==
  /\ pc \in {"idle", "planning"} => completed = <<>>
  /\ stage # "stepwise" /\ pc \notin {"finishing", "saving"}
       => completed = <<>>

(* As long as no fault happened the model is what the calls that are done  *)
(* make of it; while a call is at the host, its savepoint is, or the model *)
(* has that call as well. A call that a cancel interrupted is in the       *)
(* ledger, and no longer in the model; nobody is told.                     *)
LedgerTrue ==
  faults \subseteq {"midsave"} =>
    /\ pc \in {"starting", "finishing", "saving"} => model = Told
    /\ pc = "feedback" /\ ~cancelled => model = Told
    /\ pc = "running" => model = Reached
    /\ pc = "calling" =>
         /\ stage = "stepwise" => snap = Reached
         /\ call = "sent" => model = Reached
         /\ call = "done" => model = Ahead

LInv == LedgerFits /\ LedgerTrue

LEMMA MadeOfNone == before \in Seq(EditCall) => Made(<<>>) = before
  BY EditsOfNone, ConcatEmptySeq DEF Made

LEMMA MadeOfOneMore ==
  ASSUME before \in Seq(EditCall), NEW s \in Seq(Call), NEW c \in Call
  PROVE  Made(Append(s, c)) = IF IsEdit(c) THEN Append(Made(s), c) ELSE Made(s)
<1>1. Edits(s) \in Seq(EditCall)
  BY EditsByRecursion
<1>2. CASE IsEdit(c)
  <2>1. Edits(Append(s, c)) = Append(Edits(s), c)
    BY <1>2, EditsOfAppend
  <2>2. c \in EditCall
    BY <1>2 DEF IsEdit
  <2>3. \A t \in Seq(EditCall), e \in EditCall :
          before \o Append(t, e) = Append(before \o t, e)
    OBVIOUS
  <2> QED
    BY <1>1, <1>2, <2>1, <2>2, <2>3 DEF Made
<1>3. CASE ~IsEdit(c)
  BY <1>3, EditsOfAppend DEF Made
<1> QED
  BY <1>2, <1>3

(* The ledger at the start of a plan, after a call, and at its end.        *)
LEMMA DoneGrows ==
  ASSUME plan \in Plan, completed \in Seq(Call), step \in Nat,
         step <= Len(plan)
  PROVE  /\ Done \in Seq(Call)
         /\ step = 0 => Done = completed
         /\ step < Len(plan) =>
              completed \o SubSeq(plan, 1, step + 1)
                = Append(Done, plan[step + 1])
         /\ step = Len(plan) => Done = completed \o plan
<1>1. plan \in Seq(Call) /\ Len(plan) \in Nat
  BY PlanIsSequence, AiTurnAssumption
<1>2. SubSeq(plan, 1, step) \in Seq(Call)
  BY <1>1
<1>3. Done \in Seq(Call)
  BY <1>2 DEF Done
<1>4. step = 0 => Done = completed
  BY <1>1 DEF Done
<1>5. ASSUME step < Len(plan)
      PROVE  completed \o SubSeq(plan, 1, step + 1)
               = Append(Done, plan[step + 1])
  <2>1. SubSeq(plan, 1, step + 1)
          = Append(SubSeq(plan, 1, step), plan[step + 1])
    BY <1>1, <1>5
  <2>2. plan[step + 1] \in Call
    BY <1>1, <1>5
  <2>3. \A t \in Seq(Call), c \in Call :
          completed \o Append(t, c) = Append(completed \o t, c)
    OBVIOUS
  <2> QED
    BY <1>2, <2>1, <2>2, <2>3 DEF Done
<1>6. step = Len(plan) => Done = completed \o plan
  BY <1>1 DEF Done
<1> QED
  BY <1>3, <1>4, <1>5, <1>6

LEMMA StepLedger == LInv /\ IInv /\ TInv /\ [Next]_vars => LInv'
<1> SUFFICES ASSUME LInv, IInv, TInv, [Next]_vars PROVE LInv'
  OBVIOUS
<1>a. /\ plan \in Plan /\ completed \in Seq(Call) /\ before \in Seq(EditCall)
      /\ step \in Nat /\ step <= Len(plan) /\ Len(plan) \in Nat
      /\ plan \in Seq(Call)
  BY PlanIsSequence, AiTurnAssumption DEF TInv, TypeOK, StepFits
<1>b. /\ pc \notin {"running", "calling"} => step = 0
      /\ pc = "calling" => step < Len(plan)
      /\ call = "sent" => pc = "calling"
  BY DEF TInv, StepFits
<1>c. LedgerFits /\ LedgerTrue /\ ModelKept /\ StageFits
  BY DEF LInv, IInv
<1>d. before' = before /\ completed' = completed => Told' = Told
  BY DEF Told, Made
<1>e. UNCHANGED <<before, completed, plan, step>>
        => Reached' = Reached /\ Ahead' = Ahead
  BY DEF Reached, Ahead, Made, Done
<1>f. step = 0 => Reached = Told
  BY <1>a, DoneGrows DEF Reached, Told
<1>g. before' = before /\ completed' = <<>> => Told' = before
  BY <1>a, MadeOfNone DEF Told, Made
<1>h. before' = before /\ completed' = completed \o SubSeq(plan, 1, step)
        => Told' = Reached
  BY DEF Told, Reached, Made, Done
<1>i. completed = <<>> => Told = before
  BY <1>a, MadeOfNone DEF Told
<1>j. pc = "calling" => After(plan[step + 1])
                          = IF model = Reached THEN Ahead
                            ELSE After(plan[step + 1])
  <2> SUFFICES ASSUME pc = "calling", model = Reached
               PROVE  After(plan[step + 1]) = Ahead
    OBVIOUS
  <2>1. plan[step + 1] \in Call /\ Done \in Seq(Call)
    BY <1>a, <1>b, DoneGrows
  <2> QED
    BY <1>a, <2>1, MadeOfOneMore DEF After, Reached, Ahead
<1> HIDE DEF LInv
<1> USE DEF LedgerFits, LedgerTrue
<1>1. CASE UNCHANGED vars
  BY <1>1, <1>c, <1>d, <1>e DEF LInv, vars, exec, loop, turn
<1>2. CASE Next
  <2>1. Begin => LInv'
    BY <1>c DEF LInv, Begin, exec, loop
  <2>2. ASSUME NEW how, EndTurn(how) PROVE LInv'
    BY <2>2 DEF LInv, EndTurn
  <2>3. \A p \in Plan : PlanMade(p) => LInv'
    BY <1>c, <1>d, <1>i DEF LInv, ModelKept, PlanMade, turn
  <2>4. \A p \in Plan : Feedback(p) => LInv'
    BY <1>c, <1>d DEF LInv, StageFits, Feedback, loop, turn
  <2>5. \A p \in Plan : Repair(p) => LInv'
    BY <1>c, <1>d, <1>i DEF LInv, ModelKept, Repair, turn, TInv, AttemptFits
  <2>6. ASSUME StartPlan PROVE LInv'
    <3>1. Reached' = Told
      BY <2>6, <1>b, <1>e, <1>f DEF StartPlan, loop, turn
    <3> QED
      BY <1>c, <2>6, <3>1 DEF LInv, StartPlan, loop, turn
  <2>7. RefusePlan => LInv'
    BY <1>c, <1>d DEF LInv, RefusePlan, LeaveClosedLoop, NextRecovery, turn
  <2>8. Send => LInv'
    BY <1>c, <1>d, <1>e DEF LInv, Send, loop, turn
  <2>9. HostRuns => LInv'
    BY <1>b, <1>c, <1>d, <1>e, <1>j DEF LInv, HostRuns, loop, turn
  <2>10. HostRunsLate => LInv'
    BY <1>b, <1>c, <1>d, <1>e DEF LInv, HostRunsLate, loop, turn
  <2>11. ClientGivesUp => LInv'
    BY <1>b, <1>c, <1>d, <1>e DEF LInv, ClientGivesUp, exec, loop, turn
  <2>12. ASSUME CallDone PROVE LInv'
    <3>1. /\ step < Len(plan) /\ step' = step + 1
          /\ UNCHANGED <<plan, completed, before>>
      BY <1>b, <2>12 DEF CallDone, loop, turn
    <3>2. Done' = Append(Done, plan[step + 1])
      BY <1>a, <3>1, DoneGrows DEF Done
    <3>3. Reached' = Ahead
      BY <3>1, <3>2 DEF Reached, Ahead, Made
    <3> QED
      BY <1>c, <1>d, <2>12, <3>3 DEF LInv, CallDone, loop, turn
  <2>13. ASSUME CallFails PROVE LInv'
    <3>1. /\ pc = "calling" /\ UNCHANGED <<before, cancelled>>
          /\ faults' \subseteq {"midsave"}
               => faults \subseteq {"midsave"} /\ model' = snap
      BY <2>13 DEF CallFails, RestoreTo, Suffers, turn
    <3>2. CASE stage = "stepwise"
      <4>1. /\ pc' \in {"feedback", "fallback"} /\ stage' = stage
            /\ ~cancelled => completed' = completed \o SubSeq(plan, 1, step)
        BY <2>13, <3>2 DEF CallFails, AfterFailure, Continue
      <4> QED
        BY <1>c, <1>h, <3>1, <3>2, <4>1 DEF LInv
    <3>3. CASE stage # "stepwise"
      <4>1. /\ pc' \in {"recovering", "repairing"} /\ completed' = completed
            /\ stage' = stage
        BY <2>13, <3>3 DEF CallFails, AfterFailure, NextRecovery
      <4> QED
        BY <1>c, <3>1, <3>3, <4>1 DEF LInv
    <3> QED
      BY <3>2, <3>3
  <2>14. ASSUME PlanDone PROVE LInv'
    <3>1. Done = completed \o plan /\ before' = before
            /\ completed' = completed \o plan
      BY <1>a, <2>14, DoneGrows DEF PlanDone, turn
    <3>2. Told' = Reached
      BY <3>1 DEF Told, Reached, Made
    <3> QED
      BY <1>c, <2>14, <3>2 DEF LInv, PlanDone, ExecutionEnds, turn
  <2>15. ASSUME PlanChangedNothing PROVE LInv'
    BY <1>c, <1>d, <1>h, <2>15
       DEF LInv, PlanChangedNothing, RestoreTo, Suffers, AfterFailure,
           Continue, NextRecovery, ExecutionEnds, turn
  <2>16. PlanCancelled => LInv'
    BY <1>c, <1>d
       DEF LInv, PlanCancelled, RestoreTo, Suffers, LeaveClosedLoop,
           NextRecovery, ExecutionEnds, turn
  <2>17. FeedbackEnds => LInv'
    BY <1>c DEF LInv, FeedbackEnds, exec, loop, turn
  <2>18. FallBack => LInv'
    BY <1>c, <1>g DEF LInv, ModelKept, FallBack, RestoreTo, Suffers, turn
  <2>19. Recover => LInv'
    BY <1>c, <1>d, <1>i DEF LInv, ModelKept, Recover, turn, TInv, AttemptFits
  <2>20. RepairRepeats => LInv'
    BY <1>c, <1>d DEF LInv, RepairRepeats, exec, turn
  <2>21. PlanFails \/ RecoveryFails => LInv'
    BY <2>2 DEF PlanFails, RecoveryFails, TurnFails
  <2>22. Finish => LInv'
    BY <1>c, <1>d, <2>2 DEF LInv, Finish, TurnFails, exec, loop, turn
  <2>23. Persist \/ Crash => LInv'
    BY <2>2 DEF Persist, Crash
  <2>24. StrayRuns => LInv'
    BY <1>c, <1>d, <1>e DEF LInv, StrayRuns, Suffers, loop, turn
  <2>25. Cancel => LInv'
    BY <1>c, <1>d, <1>e DEF LInv, Cancel, exec, loop, turn
  <2>26. SaveActive => LInv'
    BY <1>c, <1>d, <1>e DEF LInv, SaveActive, Suffers, exec, loop, turn
  <2>27. \A c \in EditCall : UserCommand(c) => LInv'
    BY <1>c DEF LInv, UserCommand, exec, loop
  <2>28. PlanFails => LInv'
    BY <2>21
  <2>29. RecoveryFails => LInv'
    BY <2>21
  <2>30. Persist => LInv'
    BY <2>23
  <2>31. Crash => LInv'
    BY <2>23
  <2> QED
    BY <1>2, <2>1, <2>3, <2>4, <2>5, <2>6, <2>7, <2>8, <2>9, <2>10, <2>11,
       <2>12, <2>13, <2>14, <2>15, <2>16, <2>17, <2>18, <2>19, <2>20, <2>22,
       <2>24, <2>25, <2>26, <2>27, <2>28, <2>29, <2>30, <2>31, StepCases
<1> QED
  BY <1>1, <1>2

LEMMA LedgerInvariant == Spec => []LInv
<1>1. Init => LInv
  BY DEF Init, LInv, LedgerFits, LedgerTrue
<1>2. Spec => []IInv /\ []TInv
  BY Invariant, InitType, StepType, PTL DEF Spec
<1> QED
  BY <1>1, <1>2, StepLedger, PTL DEF Spec

(* AgentIsToldTheTruth: the calls an agent that is asked to go on is told  *)
(* are done are those whose effect is in the model, whatever savepoints    *)
(* were restored before (planning.py, execute_stepwise; recovery.py, the   *)
(* closed loop), and none is when a whole plan is to be repaired.          *)
THEOREM LedgerMatchesModel == Spec => []AgentIsToldTheTruth
<1>1. LInv /\ IInv => AgentIsToldTheTruth
  BY DEF LInv, LedgerTrue, IInv, ModelKept, AgentIsToldTheTruth, Told, Made
<1> QED
  BY <1>1, LedgerInvariant, Invariant, PTL

(* SuccessIsWhatItReports: the model a successful turn saves is the one it *)
(* began with and the edits of the calls of its result, over all           *)
(* continuations (recovery.py, _combine_success).                          *)
THEOREM SuccessIsReported == Spec => SuccessIsWhatItReports
<1> DEFINE A == Ends("done") /\ faults \subseteq {"midsave"}
                  => model' = before \o Edits(completed)
<1>1. LInv /\ [Next]_vars => [A]_vars
  <2> SUFFICES ASSUME LInv, Next, Ends("done"), faults \subseteq {"midsave"}
               PROVE  model' = before \o Edits(completed)
    BY DEF vars
  <2>1. pc # "idle" /\ pc' = "idle" /\ outcome' = "done"
    BY DEF Ends
  <2>2. Persist => model' = before \o Edits(completed)
    BY DEF Persist, LInv, LedgerTrue, Told, Made
  <2>3. PlanFails \/ RecoveryFails \/ Finish \/ Crash => FALSE
    BY <2>1 DEF PlanFails, RecoveryFails, Finish, Crash, TurnFails, EndTurn
  <2>4. Begin \/ StartPlan \/ RefusePlan \/ Send \/ HostRuns \/ HostRunsLate
          \/ ClientGivesUp \/ CallDone \/ CallFails => FALSE
    BY <2>1 DEF Begin, StartPlan, RefusePlan, Send, HostRuns, HostRunsLate,
                ClientGivesUp, CallDone, CallFails, AfterFailure, Continue,
                NextRecovery, LeaveClosedLoop
  <2>5. PlanDone \/ PlanChangedNothing \/ PlanCancelled \/ FeedbackEnds
          \/ FallBack \/ Recover \/ RepairRepeats => FALSE
    BY <2>1 DEF PlanDone, PlanChangedNothing, PlanCancelled, FeedbackEnds,
                FallBack, Recover, RepairRepeats, AfterFailure, Continue,
                NextRecovery, LeaveClosedLoop
  <2>6. \A p \in Plan : PlanMade(p) \/ Feedback(p) \/ Repair(p) => FALSE
    BY <2>1 DEF PlanMade, Feedback, Repair
  <2>7. StrayRuns \/ Cancel \/ SaveActive => FALSE
    BY <2>1 DEF StrayRuns, Cancel, SaveActive
  <2>8. \A c \in EditCall : UserCommand(c) => FALSE
    BY <2>1 DEF UserCommand
  <2> QED
    BY <2>2, <2>3, <2>4, <2>5, <2>6, <2>7, <2>8 DEF Next, TurnStep
<1>2. Spec => [][A]_vars
  BY LedgerInvariant, <1>1, PTL DEF Spec
<1> QED
  BY <1>2 DEF SuccessIsWhatItReports

----------------------------------------------------------------------------
(* How a turn asks the model.                                              *)


Waiting == {"wait", "back"}

(* A caller has a number while it waits; the number is registered, and its *)
(* alone.                                                                  *)
NumbersFit ==
  /\ \A k \in Caller : cpc[k] \in Waiting <=> number[k] # Nobody
  /\ \A k \in Caller : number[k] # Nobody => number[k] \in pending
  /\ \A j, k \in Caller : number[j] = number[k] /\ number[j] # Nobody => j = k
  /\ \A i \in pending : \E k \in Caller : number[k] = i

(* A question on a pipe whose number is in use is of the caller that uses  *)
(* it, and so is the answer in its queue.                                  *)
AnswersOnTheWay ==
  /\ \A p \in Process : \A q \in wire[p] : \A k \in Caller :
       number[k] = q.id => q.from = k
  /\ \A k \in Caller : number[k] # Nobody => box[number[k]].to \in {k, Nobody}
  /\ \A k \in Caller :
       IF cpc[k] = "back" THEN back[k].to \in {k, Nobody} ELSE back[k] = Empty

(* The turn that is active is in its loop, or interrupts itself.           *)
TurnsFit ==
  /\ \A k \in Caller : cpc[k] = "loop" <=> cstage[k] = "loop"
  /\ \A k \in Caller : cpc[k] = "idle" <=> cstage[k] = "none"
  /\ activeTurn # Nobody => cstage[activeTurn] \in {"loop", "interrupt"}

ClientInv == ClientTypeOK /\ NumbersFit /\ AnswersOnTheWay /\ TurnsFit

(* Every step of the specification, one disjunct per action.               *)
LEMMA ClientCases ==
  ASSUME ClientNext, NEW P,
         \A k \in Caller : CallOnce(k) => P,
         \A k \in Caller : CallTurn(k) => P,
         \A k \in Caller : StartRunning(k) => P,
         \A k \in Caller : StartChild(k) => P,
         \A k \in Caller : StartFails(k) => P,
         \A k \in Caller : SendRequest(k) => P,
         \A k \in Caller : SendFails(k) => P,
         \A k \in Caller : TakeAnswer(k) => P,
         \A k \in Caller : TimeOut(k) => P, \A k \in Caller : Clean(k) => P,
         \A k \in Caller : LoopEnds(k) => P,
         StopByPool => P,
         \A p \in Process : Deliver(p) => P, \A p \in Process : Die(p) => P,
         \A p \in Process : DeliverLate(p) => P,
         \A p \in Process : ReaderEnds(p) => P,
         \A p \in Process : Wake(p) => P
  PROVE  P
  BY Zenon DEF ClientNext, CallerStep, ReaderStep

LEMMA ClientInitInv == ClientInit => ClientInv
  BY ClientAssumption
  DEF ClientInit, ClientInv, ClientTypeOK, NumbersFit, AnswersOnTheWay,
      TurnsFit, Waiting, Reply, Empty, CallStage, TurnStage

(* The end of a request moves its caller on, or ends its call, and leaves   *)
(* the active turn a turn that is in its loop.                             *)
RequestEnded(k) ==
  /\ child' \in Process \cup {Nobody}
  /\ alive' \subseteq Process \cap {child'}
  /\ lifecycle' \in Caller \cup {Nobody}
  /\ activeTurn' \in Caller \cup {Nobody}
  /\ cpc' \in [Caller -> {"idle", "start", "send", "wait", "back", "loop"}]
  /\ cstage' \in [Caller -> CallStage]
  /\ cpc'[k] \notin Waiting
  /\ \A j \in Caller \ {k} : cpc'[j] = cpc[j]
  /\ TurnsFit'

LEMMA EndRequestFits ==
  ASSUME ClientInv, NEW k \in Caller, NEW r,
         cpc[k] \in {"send", "back"}, EndRequest(k, r = "result")
  PROVE  RequestEnded(k)
<1> USE ClientAssumption
    DEF ClientInv, ClientTypeOK, TurnsFit, CallStage, TurnStage, Waiting,
        RequestEnded
<1>1. CASE lifecycle = k /\ r = "result" /\ lifecycle' = Nobody
           /\ Go(k, "send", cstage[k])
           /\ UNCHANGED <<alive, child, activeTurn>>
  BY <1>1 DEF Go
<1>2. CASE lifecycle = k /\ r # "result" /\ Stop /\ lifecycle' = Nobody
           /\ AfterRequest(k, FALSE, FALSE)
  <2>1. Go(k, "idle", "none")
    BY <1>2 DEF AfterRequest
  <2> QED
    BY <1>2, <2>1 DEF Go, Stop
<1>3. CASE lifecycle # k /\ AfterRequest(k, r = "result", Running)
           /\ activeTurn' = ActiveAfter(k, r = "result")
           /\ UNCHANGED <<alive, child, lifecycle>>
  <2>1. \/ /\ cstage[k] = "thread" /\ Go(k, "start", "begin")
           /\ activeTurn' = activeTurn
        \/ Go(k, "loop", "loop") /\ activeTurn' = k
        \/ Go(k, "start", "delete") /\ activeTurn' = Nobody
        \/ Go(k, "idle", "none") /\ activeTurn' = Nobody
        \/ /\ cstage[k] # "interrupt" /\ Go(k, "idle", "none")
           /\ activeTurn' = activeTurn
    BY <1>3 DEF AfterRequest, ActiveAfter
  <2> QED
    BY <1>3, <2>1 DEF Go
<1> QED
  BY <1>1, <1>2, <1>3, Zenon DEF EndRequest

LEMMA ClientStepInv == ClientInv /\ [ClientNext]_cVars => ClientInv'
<1> SUFFICES ASSUME ClientInv, [ClientNext]_cVars PROVE ClientInv'
  OBVIOUS
<1> USE ClientAssumption
    DEF ClientInv, ClientTypeOK, NumbersFit, AnswersOnTheWay, TurnsFit,
        Waiting, Reply, Empty, CallStage, TurnStage, processVars, clientVars,
        cRequest, Go, Running
<1>1. CASE UNCHANGED cVars
  BY <1>1 DEF cVars
<1>2. CASE ClientNext
  <2>1. \A k \in Caller : CallOnce(k) => ClientInv'
    BY DEF CallOnce
  <2>2. \A k \in Caller : CallTurn(k) => ClientInv'
    BY DEF CallTurn
  <2>3. \A k \in Caller : StartRunning(k) => ClientInv'
    BY DEF StartRunning
  <2>4. \A k \in Caller : StartChild(k) => ClientInv'
    BY DEF StartChild, FreeProcess
  <2>5. \A k \in Caller : StartFails(k) => ClientInv'
    <3> SUFFICES ASSUME NEW k \in Caller, StartFails(k) PROVE ClientInv'
      BY Zenon
    <3>1. AfterRequest(k, FALSE, FALSE) => Go(k, "idle", "none")
      BY DEF AfterRequest
    <3>2. /\ cpc[k] = "start" /\ child' = Nobody /\ activeTurn' = Nobody
          /\ alive = {} /\ Go(k, "idle", "none")
          /\ UNCHANGED <<alive, wire, reader, wake, lifecycle, pending, box,
                         number, back>>
      BY <3>1 DEF StartFails
    <3>3. ClientTypeOK'
      BY <3>2
    <3>4. NumbersFit' /\ AnswersOnTheWay'
      BY <3>2
    <3>5. TurnsFit'
      BY <3>2
    <3> QED
      BY <3>3, <3>4, <3>5, Zenon
  <2>6. \A k \in Caller : SendRequest(k) => ClientInv'
    BY DEF SendRequest, NewNumber
  <2>7. \A k \in Caller : SendFails(k) => ClientInv'
    <3> SUFFICES ASSUME NEW k \in Caller, SendFails(k) PROVE ClientInv'
      BY Zenon
    <3>1. /\ cpc[k] = "send" /\ EndRequest(k, FALSE)
          /\ UNCHANGED <<wire, reader, wake, pending, box, number, back>>
      BY DEF SendFails
    <3>a. EndRequest(k, "none" = "result")
      BY <3>1 DEF EndRequest, AfterRequest, ActiveAfter
    <3>2. RequestEnded(k)
      <4>1. cpc[k] \in {"send", "back"}
        BY <3>1
      <4> HIDE DEF ClientInv, ClientTypeOK, NumbersFit, AnswersOnTheWay,
                   TurnsFit, CallStage, Waiting
      <4> QED
        BY <3>a, <4>1, EndRequestFits, Zenon
    <3>3. ClientTypeOK'
      BY <3>1, <3>2 DEF RequestEnded
    <3>4. NumbersFit'
      BY <3>1, <3>2 DEF RequestEnded
    <3>5. AnswersOnTheWay'
      BY <3>1, <3>2 DEF RequestEnded
    <3> QED
      BY <3>2, <3>3, <3>4, <3>5, Zenon DEF RequestEnded
  <2>8. \A k \in Caller : TakeAnswer(k) => ClientInv'
    <3> SUFFICES ASSUME NEW k \in Caller, TakeAnswer(k) PROVE ClientInv'
      BY Zenon
    <3>1. /\ cpc[k] = "wait" /\ number[k] \in RequestId
          /\ back' = [back EXCEPT ![k] = box[number[k]]]
          /\ box' = [box EXCEPT ![number[k]] = Empty]
          /\ cpc' = [cpc EXCEPT ![k] = "back"]
          /\ cstage' = [cstage EXCEPT ![k] = cstage[k]]
          /\ UNCHANGED <<processVars, lifecycle, activeTurn, pending, number>>
      BY DEF TakeAnswer
    <3>2. ClientTypeOK'
      BY <3>1
    <3>3. NumbersFit'
      BY <3>1
    <3>4. AnswersOnTheWay'
      <4>1. \A p \in Process : \A q \in wire'[p] : \A j \in Caller :
              number'[j] = q.id => q.from = j
        BY <3>1
      <4>2. ASSUME NEW j \in Caller, number'[j] # Nobody
            PROVE  box'[number'[j]].to \in {j, Nobody}
        BY <3>1, <4>2
      <4>3. ASSUME NEW j \in Caller
            PROVE  IF cpc'[j] = "back" THEN back'[j].to \in {j, Nobody}
                   ELSE back'[j] = Empty
        <5>1. CASE j = k
          BY <3>1, <5>1
        <5>2. CASE j # k
          BY <3>1, <5>2
        <5> QED
          BY <5>1, <5>2
      <4> QED
        BY <4>1, <4>2, <4>3
    <3>5. TurnsFit'
      BY <3>1
    <3> QED
      BY <3>2, <3>3, <3>4, <3>5, Zenon
  <2>9. \A k \in Caller : TimeOut(k) => ClientInv'
    BY DEF TimeOut
  <2>10. \A k \in Caller : Clean(k) => ClientInv'
    <3> SUFFICES ASSUME NEW k \in Caller, Clean(k) PROVE ClientInv'
      BY Zenon
    <3>1. /\ cpc[k] = "back" /\ number[k] \in RequestId
          /\ EndRequest(k, back[k].is = "result")
          /\ pending' = pending \ {number[k]}
          /\ box' = [box EXCEPT ![number[k]] = Empty]
          /\ number' = [number EXCEPT ![k] = Nobody]
          /\ back' = [back EXCEPT ![k] = Empty]
          /\ UNCHANGED <<wire, reader, wake>>
      BY DEF Clean
    <3>2. RequestEnded(k)
      <4>1. cpc[k] \in {"send", "back"}
        BY <3>1
      <4>2. PICK r : r = back[k].is
        OBVIOUS
      <4>3. EndRequest(k, r = "result")
        BY <3>1, <4>2, Zenon
      <4> HIDE DEF ClientInv, ClientTypeOK, NumbersFit, AnswersOnTheWay,
                   TurnsFit, CallStage, Waiting
      <4> QED
        BY <4>1, <4>3, EndRequestFits
    <3>3. ClientTypeOK'
      BY <3>1, <3>2 DEF RequestEnded
    <3>4. NumbersFit'
      <4>1. \A j \in Caller : cpc'[j] \in Waiting <=> number'[j] # Nobody
        BY <3>1, <3>2 DEF RequestEnded
      <4>2. \A j \in Caller \ {k} : number'[j] = number[j]
        BY <3>1
      <4>3. \A j \in Caller \ {k} : number[j] # number[k]
        BY <3>1
      <4>4. /\ \A j \in Caller : number'[j] # Nobody => number'[j] \in pending'
            /\ \A i, j \in Caller :
                 number'[i] = number'[j] /\ number'[i] # Nobody => i = j
        BY <3>1, <4>2, <4>3
      <4>5. ASSUME NEW i \in pending' PROVE \E j \in Caller : number'[j] = i
        <5>1. PICK j \in Caller : number[j] = i
          BY <3>1
        <5>2. j # k
          BY <3>1, <5>1
        <5> QED
          BY <4>2, <5>1, <5>2
      <4> QED
        BY <4>1, <4>4, <4>5
    <3>5. AnswersOnTheWay'
      <4>1. \A j \in Caller \ {k} :
              number'[j] = number[j] /\ back'[j] = back[j] /\ cpc'[j] = cpc[j]
        BY <3>1, <3>2 DEF RequestEnded
      <4>2. /\ number'[k] = Nobody /\ back'[k] = Empty /\ cpc'[k] # "back"
            /\ wire' = wire
        BY <3>1, <3>2 DEF RequestEnded
      <4>3. \A j \in Caller \ {k} : number[j] # number[k]
        BY <3>1
      <4>4. \A j \in Caller \ {k} : number[j] # Nobody =>
              box'[number[j]] = box[number[j]]
        BY <3>1, <4>3
      <4> QED
        BY <4>1, <4>2, <4>4
    <3> QED
      BY <3>2, <3>3, <3>4, <3>5, Zenon DEF RequestEnded
  <2>11. \A k \in Caller : LoopEnds(k) => ClientInv'
    BY DEF LoopEnds
  <2>12. StopByPool => ClientInv'
    BY DEF StopByPool, Stop
  <2>13. \A p \in Process : Deliver(p) => ClientInv'
    BY DEF Deliver
  <2>14. \A p \in Process : Die(p) => ClientInv'
    BY DEF Die
  <2>15. \A p \in Process : DeliverLate(p) => ClientInv'
    BY DEF DeliverLate
  <2>16. \A p \in Process : ReaderEnds(p) => ClientInv'
    <3> SUFFICES ASSUME NEW p \in Process, ReaderEnds(p) PROVE ClientInv'
      BY Zenon
    <3>1. /\ wire' = [wire EXCEPT ![p] = {}]
          /\ \/ /\ reader' = [reader EXCEPT ![p] = "done"] /\ wake' = wake
             \/ /\ reader' = [reader EXCEPT ![p] = "waking"]
                /\ wake' = [wake EXCEPT ![p] = pending]
          /\ UNCHANGED <<child, alive, clientVars, cpc, cstage, cRequest>>
      BY DEF ReaderEnds
    <3>2. ClientTypeOK'
      <4>1. /\ wire' \in [Process -> SUBSET [id: RequestId, from: Caller]]
            /\ reader' \in [Process -> {"reading", "waking", "done"}]
            /\ wake' \in [Process -> SUBSET RequestId]
        BY <3>1
      <4>2. UNCHANGED <<child, alive, lifecycle, activeTurn, pending, box, cpc,
                        cstage, number, back>>
        BY <3>1
      <4> QED
        BY <4>1, <4>2
    <3>3. NumbersFit' /\ TurnsFit'
      <4>1. UNCHANGED <<activeTurn, pending, cpc, cstage, number>>
        BY <3>1
      <4> QED
        BY <4>1
    <3>4. AnswersOnTheWay'
      <4>1. \A r \in Process : wire'[r] \subseteq wire[r]
        BY <3>1
      <4> QED
        BY <3>1, <4>1
    <3> QED
      BY <3>2, <3>3, <3>4, Zenon
  <2>17. \A p \in Process : Wake(p) => ClientInv'
    <3> SUFFICES ASSUME NEW p \in Process, Wake(p) PROVE ClientInv'
      BY Zenon
    <3>1. /\ \/ \E i \in wake[p] :
                /\ box' = [box EXCEPT ![i] = [to |-> Nobody, is |-> "exited"]]
                /\ wake' = [wake EXCEPT ![p] = @ \ {i}]
                /\ reader' = reader
             \/ /\ reader' = [reader EXCEPT ![p] = "done"]
                /\ UNCHANGED <<box, wake>>
          /\ UNCHANGED <<child, alive, wire, lifecycle, activeTurn, pending, cpc,
                         cstage, cRequest>>
      BY DEF Wake
    <3>2. /\ box' \in [RequestId -> Reply]
          /\ wake' \in [Process -> SUBSET RequestId]
          /\ reader' \in [Process -> {"reading", "waking", "done"}]
          /\ \A i \in RequestId :
               box'[i] = box[i] \/ box'[i] = [to |-> Nobody, is |-> "exited"]
      BY <3>1
    <3>3. ClientTypeOK'
      BY <3>1, <3>2
    <3>4. UNCHANGED <<child, alive, wire, lifecycle, activeTurn, pending, cpc,
                      cstage, number, back>>
      BY <3>1
    <3>5. NumbersFit' /\ TurnsFit'
      BY <3>4
    <3>6. AnswersOnTheWay'
      <4>1. ASSUME NEW k \in Caller, number[k] # Nobody
            PROVE  box'[number[k]].to \in {k, Nobody}
        <5>1. /\ number[k] \in RequestId
              /\ box[number[k]].to \in {k, Nobody}
          BY <4>1
        <5>2. \/ box'[number[k]] = box[number[k]]
              \/ box'[number[k]] = [to |-> Nobody, is |-> "exited"]
          BY <3>2, <5>1
        <5> QED
          BY <5>1, <5>2
      <4> QED
        BY <3>4, <4>1
    <3> QED
      BY <3>3, <3>5, <3>6, Zenon
  <2> HIDE DEF ClientInv
  <2> QED
    BY <1>2, <2>1, <2>2, <2>3, <2>4, <2>5, <2>6, <2>7, <2>8, <2>9, <2>10,
       <2>11, <2>12, <2>13, <2>14, <2>15, <2>16, <2>17, ClientCases, Zenon
<1> QED
  BY <1>1, <1>2

LEMMA ClientInvariant == ClientSpec => []ClientInv
<1>1. ClientInit => ClientInv
  BY ClientInitInv, Zenon
<1>2. ClientInv /\ [ClientNext]_cVars => ClientInv'
  BY ClientStepInv, Zenon
<1> QED
  BY <1>1, <1>2, PTL DEF ClientSpec

(* The types of the client's variables, and that no child runs unless it   *)
(* is the one in _process.                                                 *)
THEOREM ClientTypeCorrect == ClientSpec => []ClientTypeOK
<1>1. ClientInv => ClientTypeOK
  BY Zenon DEF ClientInv
<1> QED
  BY <1>1, ClientInvariant, PTL

(* Whatever waiter.get returns to a caller of _request is the answer to    *)
(* its own question, or no answer at all.                                  *)
THEOREM AnswersReachTheirCallers == ClientSpec => []AnswersFit
<1>1. ClientInv => AnswersFit
  BY DEF ClientInv, AnswersOnTheWay, AnswersFit
<1> QED
  BY <1>1, ClientInvariant, PTL

(* Every number in _pending is of a call that waits, and _active_turn is a *)
(* turn that has not ended.                                                *)
THEOREM CallsLeaveNothing == ClientSpec => []NothingLeftBehind
<1>1. ClientInv => NothingLeftBehind
  <2> SUFFICES ASSUME ClientInv PROVE NothingLeftBehind
    OBVIOUS
  <2>1. ASSUME NEW i \in pending
        PROVE  \E k \in Caller : number[k] = i /\ cpc[k] \in {"wait", "back"}
    <3>1. PICK k \in Caller : number[k] = i
      BY DEF ClientInv, NumbersFit
    <3>2. i # Nobody
      BY ClientAssumption DEF ClientInv, ClientTypeOK
    <3> QED
      BY <3>1, <3>2 DEF ClientInv, NumbersFit, Waiting
  <2> QED
    BY <2>1 DEF NothingLeftBehind, ClientInv, TurnsFit
<1> QED
  BY <1>1, ClientInvariant, PTL
=============================================================================
