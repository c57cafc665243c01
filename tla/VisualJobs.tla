----------------------------- MODULE VisualJobs ------------------------------
(***************************************************************************)
(* Drawing-to-CAD jobs of the web server (visual_cad.py): a pool of        *)
(* workers, one status per job in memory and in a file, cancellation, the  *)
(* reconstruction under the operation lock of the project, restarts.       *)
(*                                                                         *)
(* ImagesAccepted: extract_spec passes images to AppServerClient.          *)
(* complete_json, which has no such parameter; with FALSE every job ends   *)
(* there, as it does at this commit, and with TRUE the rest is reached.    *)
(***************************************************************************)
EXTENDS Naturals, FiniteSets

CONSTANTS
  Job, Workers,      \* jobs of one project; VISUAL_CAD_WORKERS
  ImagesAccepted, NoJob

ASSUME JobsAssumption ==
  Workers \in Nat \ {0} /\ ImagesAccepted \in BOOLEAN /\ NoJob \notin Job

VARIABLES
  known,     \* VisualCadJobManager._jobs
  status,    \* status of a job in memory
  stored,    \* status in the file of a job; "none": no file
  canceled,  \* jobs whose cancel_event is set
  phase,     \* how far the worker of a job is
  engine,    \* jobs whose features are in the engine of the project
  ours,      \* what the engine held when the job with the lock began
  workspace, \* jobs whose features are in workspace.json
  opLock,    \* the job that holds operation_lock
  late       \* jobs that were cancelled when they were already over

vjVars == <<known, status, stored, canceled, phase, engine, ours, workspace,
            opLock, late>>

Status == {"queued", "running", "cancelling", "done", "failed", "cancelled"}
Terminal == {"done", "failed", "cancelled"}
AtWork == {"begin", "extract", "plan", "build", "saved", "report"}
Running == {j \in Job : phase[j] \in AtWork}

\* The types of the variables. No more jobs are at work than the pool has
\* workers, and the lock is held by the job that builds.
JobsTypeOK ==
  /\ known \subseteq Job
  /\ status \in [Job -> Status]
  /\ stored \in [Job -> Status \cup {"none"}]
  /\ canceled \subseteq Job
  /\ phase \in [Job -> {"none", "queued", "over"} \cup AtWork]
  /\ engine \subseteq Job /\ ours \subseteq Job /\ workspace \subseteq Job
  /\ late \subseteq Job
  /\ Cardinality(Running) <= Workers
  /\ opLock \in Job \cup {NoJob}
  /\ \A j \in Job : phase[j] \in {"build", "saved"} <=> opLock = j

\* _update: the status in memory and, unless the file cannot be written, on
\* disk; an error there is swallowed.
Update(j, s) ==
  /\ status' = [status EXCEPT ![j] = s]
  /\ \/ stored' = [stored EXCEPT ![j] = s]
     \/ stored' = stored

Enter(j, p) == phase' = [phase EXCEPT ![j] = p]

----------------------------------------------------------------------------
\* Identities of jobs are never used again.
Create(j) ==
  /\ j \notin known \cup engine \cup workspace
  /\ stored[j] = "none" /\ phase[j] = "none"
  /\ known' = known \cup {j}
  /\ Update(j, "queued")
  /\ Enter(j, "queued")
  /\ UNCHANGED <<canceled, engine, ours, workspace, opLock, late>>

\* A worker is free and takes the job off the queue of the pool.
TakeJob(j) ==
  /\ phase[j] = "queued"
  /\ Cardinality(Running) < Workers
  /\ Enter(j, "begin")
  /\ UNCHANGED <<known, status, stored, canceled, engine, ours, workspace,
                 opLock, late>>

\* _run, with the right provider: a cancelled job is "running" again.
Begin(j) ==
  /\ phase[j] = "begin"
  /\ Update(j, "running")
  /\ Enter(j, "extract")
  /\ UNCHANGED <<known, canceled, engine, ours, workspace, opLock, late>>

\* The drawing is read: every report of progress, and the check before the
\* plan, raise once the job is cancelled.
Extract(j) ==
  /\ phase[j] = "extract" /\ ImagesAccepted /\ j \notin canceled
  /\ Enter(j, "plan")
  /\ UNCHANGED <<known, status, stored, canceled, engine, ours, workspace,
                 opLock, late>>

\* The operation lock is free; the snapshot is taken.
TakeLock(j) ==
  /\ phase[j] = "plan" /\ opLock = NoJob
  /\ opLock' = j
  /\ ours' = engine
  /\ Enter(j, "build")
  /\ UNCHANGED <<known, status, stored, canceled, engine, workspace, late>>

\* Calls of the plan run; progress is reported before each.
Build(j) ==
  /\ phase[j] = "build" /\ j \notin canceled
  /\ engine' = engine \cup {j}
  /\ UNCHANGED <<known, status, stored, canceled, phase, ours, workspace,
                 opLock, late>>

\* A plausible slip in PersistResult: the engine is not saved.
PersistNothing(j) ==
  /\ phase[j] = "build" /\ j \in engine
  /\ Enter(j, "saved")
  /\ UNCHANGED <<known, status, stored, canceled, engine, ours, workspace,
                 opLock, late>>

\* The plan is done and the result is valid.
PersistResult(j) ==
  /\ phase[j] = "build" /\ j \in engine
  /\ workspace' = engine
  /\ Enter(j, "saved")
  /\ UNCHANGED <<known, status, stored, canceled, engine, ours, opLock, late>>

\* A plausible slip in Unlock: the lock is never released.
UnlockNever(j) ==
  /\ phase[j] = "saved"
  /\ Enter(j, "report")
  /\ UNCHANGED <<known, status, stored, canceled, engine, ours, workspace,
                 opLock, late>>

Unlock(j) ==
  /\ phase[j] = "saved"
  /\ opLock' = NoJob
  /\ Enter(j, "report")
  /\ UNCHANGED <<known, status, stored, canceled, engine, ours, workspace,
                 late>>

\* A plausible slip in Fail: the snapshot is not restored.
FailKeepsEdits(j) ==
  /\ phase[j] \in AtWork
  /\ \/ /\ j \in canceled /\ phase[j] \in {"extract", "build"}
        /\ Update(j, "cancelled")
     \/ Update(j, "failed")
  /\ engine' = engine
  /\ opLock' = IF opLock = j THEN NoJob ELSE opLock
  /\ Enter(j, "over")
  /\ UNCHANGED <<known, canceled, ours, workspace, late>>

\* An exception: the check for cancellation where there is one, or any other
\* (an interrupt inside the recovery of a plan comes out as a failure). Under
\* the lock the snapshot is restored, and workspace.json is left alone.
Fail(j) ==
  /\ phase[j] \in AtWork
  /\ \/ /\ j \in canceled /\ phase[j] \in {"extract", "build"}
        /\ Update(j, "cancelled")
     \/ Update(j, "failed")
  /\ engine' = IF opLock = j THEN ours ELSE engine
  /\ opLock' = IF opLock = j THEN NoJob ELSE opLock
  /\ Enter(j, "over")
  /\ UNCHANGED <<known, canceled, ours, workspace, late>>

\* A plausible slip in Finish: a cancelled job keeps the status "cancelling".
FinishQuietly(j) ==
  /\ phase[j] = "report"
  /\ IF j \in canceled THEN UNCHANGED <<status, stored>> ELSE Update(j, "done")
  /\ Enter(j, "over")
  /\ UNCHANGED <<known, canceled, engine, ours, workspace, opLock, late>>

Finish(j) ==
  /\ phase[j] = "report"
  /\ Update(j, "done")
  /\ Enter(j, "over")
  /\ UNCHANGED <<known, canceled, engine, ours, workspace, opLock, late>>

\* get: a job that is not in memory is read from its file; one that was not
\* over when the server ended is failed.
Fetch(j) ==
  /\ j \notin known /\ stored[j] # "none"
  /\ known' = known \cup {j}
  /\ status' = [status EXCEPT
                ![j] = IF stored[j] \in Terminal THEN stored[j] ELSE "failed"]
  /\ UNCHANGED <<stored, canceled, phase, engine, ours, workspace, opLock,
                 late>>

\* cancel: whatever the status of the job is.
CancelJob(j) ==
  /\ j \in known
  /\ canceled' = canceled \cup {j}
  /\ Update(j, "cancelling")
  /\ late' = IF phase[j] \in {"none", "over"} THEN late \cup {j} ELSE late
  /\ UNCHANGED <<known, phase, engine, ours, workspace, opLock>>

\* _purge_locked, when a job is created: six hours after the last update.
Purge(j) ==
  /\ j \in known /\ status[j] \in Terminal
  /\ phase[j] \in {"none", "over"}
  /\ known' = known \ {j}
  /\ canceled' = canceled \ {j} /\ late' = late \ {j}
  /\ phase' = [phase EXCEPT ![j] = "none"]
  /\ UNCHANGED <<status, stored, engine, ours, workspace, opLock>>

Restart ==
  /\ known' = {} /\ canceled' = {} /\ late' = {}
  /\ phase' = [j \in Job |-> "none"]
  /\ engine' = workspace /\ ours' = {} /\ opLock' = NoJob
  /\ status' = [j \in Job |-> "queued"]
  /\ UNCHANGED <<stored, workspace>>

----------------------------------------------------------------------------
JobsInit ==
  /\ known = {} /\ canceled = {} /\ late = {}
  /\ status = [j \in Job |-> "queued"] /\ stored = [j \in Job |-> "none"]
  /\ phase = [j \in Job |-> "none"]
  /\ engine = {} /\ ours = {} /\ workspace = {} /\ opLock = NoJob

WorkerStep(j) ==
  \/ TakeJob(j) \/ Begin(j) \/ Extract(j) \/ TakeLock(j) \/ Build(j)
  \/ PersistResult(j) \/ Unlock(j) \/ Finish(j) \/ Fail(j)

JobsNext ==
  \/ \E j \in Job :
       \/ Create(j) \/ WorkerStep(j) \/ Fetch(j) \/ CancelJob(j) \/ Purge(j)
  \/ Restart

\* Workers run, and take the lock in turn.
JobsFairness == \A j \in Job : SF_vjVars(WorkerStep(j))
JobsSpec == JobsInit /\ [][JobsNext]_vjVars
JobsFairSpec == JobsSpec /\ JobsFairness

----------------------------------------------------------------------------
\* A job that says it is done, here or in its file, has its model on disk,
\* after a restart too.
DoneIsDurable ==
  \A j \in Job :
    \/ j \in known /\ status[j] = "done"
    \/ stored[j] = "done"
    => j \in workspace

\* A job that says it was cancelled has left nothing in the model, though it
\* may have been cancelled in the middle of its plan.
CancelledLeavesModel ==
  \A j \in Job : j \in known /\ status[j] = "cancelled" => j \notin engine

\* Every job in memory comes to an end, unless somebody cancelled it when it
\* was over: that leaves it "cancelling" until the server is restarted.
JobsEnd ==
  \A j \in Job :
    j \in known ~> j \notin known \/ status[j] \in Terminal \/ j \in late

=============================================================================
