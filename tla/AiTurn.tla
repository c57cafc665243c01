------------------------------- MODULE AiTurn -------------------------------
(***************************************************************************)
(* One AI turn on a project: the thread of execute_prompt_sync asks an     *)
(* agent for a plan, runs its calls one by one through the loopback bridge *)
(* (planning.py), goes back to the agent when a call fails, first with     *)
(* per-call savepoints and then with whole-plan rollbacks (recovery.py),   *)
(* and writes workspace.json when the plan is done.  Around it: the bridge *)
(* host, which may still run a call its client has given up, the user, who *)
(* may cancel the turn and press Save at any time, and the server process, *)
(* which may die at any time.                                              *)
(*                                                                         *)
(* The turn holds the project's operation lock from the plan to the saved  *)
(* workspace, so the other commands of the user wait for it; Save takes    *)
(* only the engine lock and does not.                                      *)
(***************************************************************************)
EXTENDS Naturals, Sequences, FiniteSets

CONSTANTS
  EditCall,    \* calls that change the model
  ReadCall,    \* calls of NON_REVISION_COMMANDS
  QuietCall,   \* calls that are expected to change the model, and do not
  None,        \* no call
  MaxCalls,    \* bound on the calls of a plan (80 in the code)
  MaxRepairs,  \* max_ai_repairs, which is also max_continuations
  MaxModel,    \* bound on the edits before a turn or command starts
  MaxFaults    \* bound on the kinds of faults between two clean saves

Call == EditCall \cup ReadCall \cup QuietCall

ASSUME AiTurnAssumption ==
  /\ EditCall \cap (ReadCall \cup QuietCall) = {}
  /\ ReadCall \cap QuietCall = {}
  /\ None \notin Call
  /\ MaxCalls \in Nat
  /\ MaxRepairs \in Nat
  /\ MaxModel \in Nat
  /\ MaxFaults \in Nat

VARIABLES
  pc,         \* where the turn is; "idle" when none runs
  stage,      \* which of the executions of the turn this is
  attempt,    \* continuations asked for, then the repair to ask for
  request,    \* the agent's first plan, which the closed loop falls back to
  plan,       \* the plan that runs
  step,       \* the number of its calls that are done
  completed,  \* the calls done before this plan, in the same execution
  call,       \* what became of the call sent to the host
  moved,      \* the revision is not what it was when the plan started
  model,      \* the edits the open documents are made of
  snap,       \* the model the executor rolls back to
  outer,      \* the model the closed loop falls back to
  disk,       \* the model workspace.json holds
  cancelled,  \* the user cancelled this turn
  stray,      \* the call given up by the client that the host still holds
  outcome,    \* how the last turn ended
  before,     \* history: the model when the turn began
  faults      \* history: what happened, since the model was last saved, that
              \* no rollback takes back

exec == <<plan, step, call, snap, moved>>
loop == <<stage, attempt, request, outer, completed>>
turn == <<outcome, before>>
vars == <<pc, exec, loop, model, disk, cancelled, stray, turn, faults>>

(* The plans an agent may answer with; validate_plan refuses a plan        *)
(* without calls.                                                          *)
Plan == UNION {[1..n -> Call] : n \in 0..MaxCalls}

Stage == {"stepwise", "initial", "deterministic", "repair"}

Location == {"idle", "planning", "starting", "running", "calling", "feedback",
             "fallback", "recovering", "repairing", "finishing", "saving"}

Fault == {"stray", "rollback", "late", "midsave"}

IsEdit(c) == c \in EditCall
Edits(s) ==
  LET kept[n \in 0..Len(s)] ==
        IF n = 0 THEN <<>>
        ELSE IF IsEdit(s[n]) THEN Append(kept[n - 1], s[n]) ELSE kept[n - 1]
  IN  kept[Len(s)]

(* The model after the host executed a call.                               *)
After(c) == IF IsEdit(c) THEN Append(model, c) ELSE model

(* expects_revision: some call of the plan should change the revision.     *)
ExpectsRevision == \E i \in DOMAIN plan : plan[i] \notin ReadCall

----------------------------------------------------------------------------
(* The end of a turn                                                       *)

(* The turn thread is done: nothing of the turn is left but its effect.    *)
EndTurn(how) ==
  /\ pc' = "idle"
  /\ outcome' = how
  /\ stage' = "stepwise" /\ attempt' = 0 /\ step' = 0
  /\ request' = <<>> /\ plan' = <<>> /\ completed' = <<>>
  /\ call' = "none" /\ moved' = FALSE /\ cancelled' = FALSE
  /\ snap' = <<>> /\ outer' = <<>> /\ before' = <<>>

(* The turn raises with the model as it is; workspace.json is not written. *)
TurnFails == EndTurn("failed") /\ UNCHANGED <<model, disk, stray>>

----------------------------------------------------------------------------
(* Planning                                                                *)

(* _execute_prompt_body takes the operation lock and asks for a plan.      *)
Begin ==
  /\ pc = "idle"
  /\ Len(model) <= MaxModel
  /\ pc' = "planning"
  /\ before' = model
  /\ outcome' = "none"
  /\ UNCHANGED <<exec, loop, model, disk, cancelled, stray, faults>>

(* The agent raises: no plan, a timeout, or the turn was cancelled.        *)
PlanFails ==
  /\ pc = "planning"
  /\ TurnFails
  /\ UNCHANGED faults

(* The agent answers: the closed loop takes its outer snapshot, or is      *)
(* switched off.                                                           *)
PlanMade(p) ==
  /\ pc = "planning"
  /\ plan' = p
  /\ \/ stage' = "stepwise" /\ attempt' = 0 /\ request' = p /\ outer' = model
     \/ stage' = "initial" /\ attempt' = 1 /\ UNCHANGED <<request, outer>>
  /\ pc' = "starting"
  /\ UNCHANGED <<step, call, snap, moved, completed, model, disk, cancelled,
                 stray, turn, faults>>

(* validate_plan, the snapshot and the revision a plan starts from.        *)
StartPlan ==
  /\ pc = "starting"
  /\ plan # <<>>
  /\ snap' = model
  /\ pc' = "running"
  /\ UNCHANGED <<loop, plan, step, call, moved, model, disk, cancelled, stray,
                 turn, faults>>

----------------------------------------------------------------------------
(* What follows a failed execution                                         *)

(* A fault: what happens outside the executor's hands.                     *)
Suffers(f) ==
  /\ f \in faults \/ Cardinality(faults) < MaxFaults
  /\ faults' = faults \cup {f}

(* A slip in RestoreTo: the rollback is forgotten.                         *)
RestoreToNothing(to) == UNCHANGED <<model, faults>>

(* _rollback: the workspace goes back, or restoring it raises, which all   *)
(* callers swallow.                                                        *)
RestoreTo(to) ==
  \/ model' = to /\ UNCHANGED faults
  \/ UNCHANGED model /\ Suffers("rollback")

(* execute or execute_stepwise returns: its local state is gone.           *)
ExecutionEnds == step' = 0 /\ snap' = <<>> /\ moved' = FALSE

(* A slip in Continue: what earlier continuations did is forgotten.        *)
ContinueForgets(done) ==
  /\ completed' = SubSeq(plan, 1, done)
  /\ plan' = <<>>
  /\ UNCHANGED stage
  /\ IF attempt >= MaxRepairs
       THEN pc' = "fallback" /\ UNCHANGED attempt
       ELSE pc' = "feedback" /\ attempt' = attempt + 1

(* The closed loop keeps the calls that are done and asks for the rest,    *)
(* until its continuations are used up.                                    *)
Continue(done) ==
  /\ completed' = completed \o SubSeq(plan, 1, done)
  /\ plan' = <<>>
  /\ UNCHANGED stage
  /\ IF attempt >= MaxRepairs
       THEN pc' = "fallback" /\ UNCHANGED attempt
       ELSE pc' = "feedback" /\ attempt' = attempt + 1

(* A slip in NextRecovery: a failed repair does not count.                 *)
NextRecoveryUncounted ==
  /\ pc' = IF stage = "initial" THEN "recovering" ELSE "repairing"
  /\ UNCHANGED <<plan, stage, attempt, completed>>

(* A whole plan failed: the requested one goes to the deterministic        *)
(* rewriting, a rewritten one to the first repair, a repaired one to the   *)
(* next.                                                                   *)
NextRecovery ==
  /\ pc' = IF stage = "initial" THEN "recovering" ELSE "repairing"
  /\ attempt' = IF stage = "repair" THEN attempt + 1 ELSE attempt
  /\ UNCHANGED <<plan, stage, completed>>

AfterFailure(done) ==
  IF stage = "stepwise" THEN Continue(done) ELSE NextRecovery

(* An exception leaves execute_stepwise: the closed loop is over.          *)
LeaveClosedLoop ==
  /\ pc' = "fallback"
  /\ UNCHANGED <<plan, stage, attempt, completed>>

(* The plan is refused: execute_stepwise raises out of the closed loop,    *)
(* _safe_execute turns it into a failure without a rollback.               *)
RefusePlan ==
  /\ pc = "starting"
  /\ plan = <<>>
  /\ IF stage = "stepwise" THEN LeaveClosedLoop ELSE NextRecovery
  /\ UNCHANGED <<step, call, snap, moved, request, outer, model, disk,
                 cancelled, stray, turn, faults>>

----------------------------------------------------------------------------
(* The calls of a plan                                                     *)

(* The next call goes to the host; a savepoint is taken before each call   *)
(* of a stepwise execution.                                                *)
Send ==
  /\ pc = "running"
  /\ step < Len(plan)
  /\ snap' = IF stage = "stepwise" THEN model ELSE snap
  /\ IF cancelled THEN call' = "failed" ELSE call' = "sent"
  /\ pc' = "calling"
  /\ UNCHANGED <<loop, plan, step, moved, model, disk, cancelled, stray, turn,
                 faults>>

(* The host executes the call, or the engine refuses it and takes the      *)
(* workspace back to where it was.                                         *)
HostRuns ==
  /\ call = "sent"
  /\ \/ /\ call' = "done"
        /\ model' = After(plan[step + 1])
        /\ moved' = (moved \/ IsEdit(plan[step + 1]))
     \/ call' = "failed" /\ UNCHANGED <<moved, model>>
  /\ UNCHANGED <<pc, loop, plan, step, snap, disk, cancelled, stray, turn,
                 faults>>

(* The client's socket timeout: the host runs on and holds the engine lock *)
(* until it has finished, before the rollback.                             *)
HostRunsLate ==
  /\ call = "sent"
  /\ call' = "failed"
  /\ model' = After(plan[step + 1])
  /\ moved' = (moved \/ IsEdit(plan[step + 1]))
  /\ UNCHANGED <<pc, loop, plan, step, snap, disk, cancelled, stray, turn,
                 faults>>

(* The same timeout, while the handler still waits for the engine lock.    *)
(* Bound: one such handler at a time.                                      *)
ClientGivesUp ==
  /\ call = "sent"
  /\ stray = None
  /\ call' = "failed"
  /\ stray' = plan[step + 1]
  /\ UNCHANGED <<pc, loop, plan, step, snap, moved, model, disk, cancelled,
                 turn, faults>>

(* The handler gets the lock at last, and the call is executed or refused. *)
StrayRuns ==
  /\ stray # None
  /\ stray' = None
  /\ \/ UNCHANGED <<moved, model, faults>>
     \/ /\ IsEdit(stray)
        /\ Len(model) <= MaxModel + MaxCalls
        /\ model' = After(stray)
        /\ moved' = (moved \/ pc \in {"running", "calling"})
        /\ Suffers("stray")
  /\ UNCHANGED <<pc, loop, plan, step, call, snap, disk, cancelled, turn>>

(* "Modeling step complete": the result is taken, the next call is up.     *)
CallDone ==
  /\ pc = "calling"
  /\ call = "done"
  /\ ~cancelled
  /\ step' = step + 1
  /\ call' = "none"
  /\ pc' = "running"
  /\ UNCHANGED <<loop, plan, snap, moved, model, disk, cancelled, stray, turn,
                 faults>>

(* The call failed, or cancelling raised at one of its progress reports.   *)
(* A call whose last report raised is among the results all the same.      *)
CallFails ==
  /\ pc = "calling"
  /\ call = "failed" \/ (call = "done" /\ cancelled)
  /\ RestoreTo(snap)
  /\ AfterFailure(IF call = "done" THEN step + 1 ELSE step)
  /\ ExecutionEnds
  /\ call' = "none"
  /\ UNCHANGED <<request, outer, disk, cancelled, stray, turn>>

(* Every call is done and the revision is as expected: the execution is a  *)
(* success, with the calls of all its continuations.                       *)
PlanDone ==
  /\ pc = "running"
  /\ step = Len(plan)
  /\ ~cancelled
  /\ ExpectsRevision => moved
  /\ completed' = completed \o plan
  /\ pc' = "finishing"
  /\ ExecutionEnds
  /\ UNCHANGED <<plan, call, stage, attempt, request, outer, model, disk,
                 cancelled, stray, turn, faults>>

(* "CAD command finished without changing the current document": a failure *)
(* that only a whole-plan execution rolls back.                            *)
PlanChangedNothing ==
  /\ pc = "running"
  /\ step = Len(plan)
  /\ ~cancelled
  /\ ExpectsRevision /\ ~moved
  /\ IF stage = "stepwise" THEN UNCHANGED <<model, faults>> ELSE RestoreTo(snap)
  /\ AfterFailure(step)
  /\ ExecutionEnds
  /\ UNCHANGED <<call, request, outer, disk, cancelled, stray, turn>>

(* Cancelled at "Validating model result": a stepwise execution has no     *)
(* handler there, and raises out of the closed loop.                       *)
PlanCancelled ==
  /\ pc = "running"
  /\ step = Len(plan)
  /\ cancelled
  /\ IF stage = "stepwise"
       THEN LeaveClosedLoop /\ UNCHANGED <<model, faults>>
       ELSE RestoreTo(snap) /\ NextRecovery
  /\ ExecutionEnds
  /\ UNCHANGED <<call, request, outer, disk, cancelled, stray, turn>>

----------------------------------------------------------------------------
(* Recovery                                                                *)

(* continue_after_failure: the agent sees what is done and plans the rest. *)
Feedback(p) ==
  /\ pc = "feedback"
  /\ ~cancelled
  /\ p # <<>>
  /\ plan' = p
  /\ pc' = "starting"
  /\ UNCHANGED <<loop, step, call, snap, moved, model, disk, cancelled, stray,
                 turn, faults>>

(* The agent raises or has no calls to add, or the turn is cancelled.      *)
FeedbackEnds ==
  /\ pc = "feedback"
  /\ pc' = "fallback"
  /\ UNCHANGED <<exec, loop, model, disk, cancelled, stray, turn, faults>>

(* A slip in FallBack: the results of the closed loop are kept.            *)
FallBackKeepsResults ==
  /\ pc = "fallback"
  /\ RestoreTo(outer)
  /\ plan' = request
  /\ stage' = "initial"
  /\ attempt' = 1
  /\ request' = <<>> /\ outer' = <<>>
  /\ pc' = "starting"
  /\ UNCHANGED <<step, call, snap, moved, completed, disk, cancelled, stray,
                 turn>>

(* The closed loop gives up: everything it did is taken back, and the      *)
(* requested plan is executed as a whole.                                  *)
FallBack ==
  /\ pc = "fallback"
  /\ RestoreTo(outer)
  /\ plan' = request
  /\ stage' = "initial"
  /\ attempt' = 1
  /\ request' = <<>> /\ completed' = <<>> /\ outer' = <<>>
  /\ pc' = "starting"
  /\ UNCHANGED <<step, call, snap, moved, disk, cancelled, stray, turn>>

(* deterministic_recovery_plan rewrites arguments, and nothing else.        *)
Rewrites ==
  {p \in Plan : /\ Len(p) = Len(plan) /\ p # plan
               /\ \A i \in DOMAIN p : IsEdit(p[i]) = IsEdit(plan[i])}

Recover ==
  /\ pc = "recovering"
  /\ ~cancelled
  /\ \/ /\ \E p \in Rewrites : plan' = p
        /\ stage' = "deterministic"
        /\ pc' = "starting"
     \/ /\ pc' = "repairing"
        /\ UNCHANGED <<plan, stage>>
  /\ UNCHANGED <<step, call, snap, moved, attempt, request, outer, completed,
                 model, disk, cancelled, stray, turn, faults>>

(* repair: the agent answers with another plan.                            *)
Repair(p) ==
  /\ pc = "repairing"
  /\ attempt <= MaxRepairs
  /\ ~cancelled
  /\ p # plan
  /\ plan' = p
  /\ stage' = "repair"
  /\ pc' = "starting"
  /\ UNCHANGED <<step, call, snap, moved, attempt, request, outer, completed,
                 model, disk, cancelled, stray, turn, faults>>

(* A slip in RepairRepeats: one attempt too many.                          *)
RepairRepeatsOnceMore ==
  /\ pc = "repairing"
  /\ attempt <= MaxRepairs + 1
  /\ ~cancelled
  /\ attempt' = attempt + 1
  /\ UNCHANGED <<pc, exec, stage, request, outer, completed, model, disk,
                 cancelled, stray, turn, faults>>

(* The agent answers with the plan that failed: it is not run again, and   *)
(* the attempt is used up.                                                 *)
RepairRepeats ==
  /\ pc = "repairing"
  /\ attempt <= MaxRepairs
  /\ ~cancelled
  /\ attempt' = attempt + 1
  /\ UNCHANGED <<pc, exec, stage, request, outer, completed, model, disk,
                 cancelled, stray, turn, faults>>

(* The recovery is exhausted, or the agent or a progress report raises.    *)
RecoveryFails ==
  /\ pc \in {"recovering", "repairing"}
  /\ TurnFails
  /\ UNCHANGED faults

----------------------------------------------------------------------------
(* Finishing                                                               *)

(* A slip in Finish: workspace.json is written before the report.          *)
FinishSavesFirst ==
  /\ pc = "finishing"
  /\ disk' = model
  /\ \/ /\ ~cancelled
        /\ pc' = "saving"
        /\ UNCHANGED <<exec, loop, model, cancelled, stray, turn, faults>>
     \/ /\ cancelled
        /\ EndTurn("failed")
        /\ faults' = faults \cup {"late"}
        /\ UNCHANGED <<model, stray>>

(* "Saving project..." is reported, and raises when the turn is cancelled: *)
(* the turn fails with its edits in the model.                             *)
Finish ==
  /\ pc = "finishing"
  /\ \/ /\ ~cancelled
        /\ pc' = "saving"
        /\ UNCHANGED <<exec, loop, model, disk, cancelled, stray, turn,
                       faults>>
     \/ /\ cancelled
        /\ TurnFails
        /\ faults' = faults \cup {"late"}

(* persist: workspace.json is replaced as a whole, or the write raises.    *)
(* The chat messages are stored afterwards, which may raise too.           *)
Persist ==
  /\ pc = "saving"
  /\ \/ /\ disk' = model
        /\ faults' = {}
        /\ EndTurn("done")
        /\ UNCHANGED <<model, stray>>
     \/ /\ disk' \in {disk, model}
        /\ faults' = faults \cup {"late"}
        /\ EndTurn("failed")
        /\ UNCHANGED <<model, stray>>

-----------------------------
(* The user, and the server process                                        *)

Cancel ==
  /\ pc # "idle"
  /\ ~cancelled
  /\ cancelled' = TRUE
  /\ UNCHANGED <<pc, exec, loop, model, disk, stray, turn, faults>>

(* save_active_document: writes workspace.json, with or without a turn.    *)
SaveActive ==
  /\ disk' = model
  /\ IF pc = "idle" THEN faults' = {} ELSE Suffers("midsave")
  /\ UNCHANGED <<pc, exec, loop, model, cancelled, stray, turn>>

(* command: an edit by the user, under the operation lock, and its persist.*)
UserCommand(c) ==
  /\ pc = "idle"
  /\ Len(model) <= MaxModel
  /\ model' = Append(model, c)
  /\ disk' = model'
  /\ outcome' = "none"
  /\ faults' = {}
  /\ UNCHANGED <<pc, exec, loop, cancelled, stray, before>>

(* The server process dies; the next request loads workspace.json.         *)
Crash ==
  /\ model' = disk
  /\ stray' = None
  /\ EndTurn("none")
  /\ faults' = {}
  /\ UNCHANGED disk

----------------------------------------------------------------------------
Init ==
  /\ pc = "idle" /\ outcome = "none"
  /\ stage = "stepwise" /\ attempt = 0 /\ step = 0
  /\ request = <<>> /\ plan = <<>> /\ completed = <<>>
  /\ call = "none" /\ moved = FALSE /\ cancelled = FALSE
  /\ model = <<>> /\ snap = <<>> /\ outer = <<>> /\ disk = <<>>
  /\ stray = None /\ before = <<>> /\ faults = {}

(* The steps of the turn thread, its agent and the handler of its call.    *)
TurnStep ==
  \/ PlanFails
  \/ \E p \in Plan : PlanMade(p) \/ Feedback(p) \/ Repair(p)
  \/ StartPlan \/ RefusePlan
  \/ Send \/ HostRuns \/ HostRunsLate \/ ClientGivesUp
  \/ CallDone \/ CallFails
  \/ PlanDone \/ PlanChangedNothing \/ PlanCancelled
  \/ FeedbackEnds \/ FallBack
  \/ Recover \/ RepairRepeats \/ RecoveryFails
  \/ Finish \/ Persist

Next ==
  \/ Begin
  \/ TurnStep
  \/ StrayRuns
  \/ Cancel
  \/ SaveActive
  \/ \E c \in EditCall : UserCommand(c)
  \/ Crash

Spec == Init /\ [][Next]_vars

(* The agents, the host and the client of a turn answer or time out.       *)
FairSpec == Spec /\ WF_vars(TurnStep)

----------------------------------------------------------------------------
(* Properties                                                              *)

(* Every variable has its type; no more repairs are asked for than allowed.*)
TypeOK ==
  /\ pc \in Location
  /\ stage \in Stage
  /\ attempt \in 0..(MaxRepairs + 1)
  /\ request \in Plan /\ plan \in Plan
  /\ step \in 0..MaxCalls
  /\ completed \in Seq(Call)
  /\ call \in {"none", "sent", "done", "failed"}
  /\ moved \in BOOLEAN /\ cancelled \in BOOLEAN
  /\ model \in Seq(EditCall) /\ snap \in Seq(EditCall)
  /\ outer \in Seq(EditCall) /\ disk \in Seq(EditCall)
  /\ before \in Seq(EditCall)
  /\ stray \in Call \cup {None}
  /\ outcome \in {"none", "done", "failed"}
  /\ faults \subseteq Fault

Ends(how) == pc # "idle" /\ pc' = "idle" /\ outcome' = how

(* A turn that fails leaves the model as it found it, whatever sequence of *)
(* savepoints, continuations, fallbacks, rewritings and repairs it went    *)
(* through, and wherever it was cancelled, unless a rollback itself        *)
(* failed, a given-up call ran, or the turn failed after its last call.    *)
FailedTurnLeavesModel ==
  [][Ends("failed") /\ faults' \subseteq {"midsave"} => model' = before]_vars

(* A turn the user cancelled leaves nothing behind.                        *)
AllOrNothing ==
  [][Ends("failed") /\ cancelled /\ faults' \subseteq {"late"}
       => model' = before]_vars

(* A turn that succeeds leaves exactly the edits of the calls it reports   *)
(* as executed, over all its continuations, on top of what it found.       *)
SuccessIsWhatItReports ==
  [][Ends("done") /\ faults \subseteq {"midsave"}
       => model' = before \o Edits(completed)]_vars

(* When the agent is asked to continue, the calls it is told are done are  *)
(* exactly those whose effect is in the model; when a plan is to be        *)
(* executed as a whole, none is.                                           *)
AgentIsToldTheTruth ==
  (faults \subseteq {"midsave"} /\ ~cancelled) =>
    /\ pc = "feedback" => model = before \o Edits(completed)
    /\ pc \in {"recovering", "repairing"} => model = before

(* Whenever the process dies, the workspace it comes back with is the one  *)
(* before the turn or the one after it, as long as nobody pressed Save     *)
(* during the turn.                                                        *)
DiskIsBetweenTurns ==
  faults = {} => disk = IF pc = "idle" THEN model ELSE before

(* Every turn ends: no sequence of failures, identical repairs and refused *)
(* plans keeps the project's operation lock for ever.                      *)
TurnEnds == pc # "idle" ~> pc = "idle"
=============================================================================
