--------------------------- MODULE ProjectRuntimes ---------------------------
(***************************************************************************)
(* The CAD runtimes of the web server (cad_runtime.py): one engine per     *)
(* project in memory, loaded on demand from its workspace.json, written    *)
(* back after every operation, closed by the idle reaper (main.py), and    *)
(* dropped when the project or its guest user is deleted                   *)
(* (routes/projects.py, routes/auth.py). Requests are the worker threads   *)
(* of the routes; each makes one edit, named by the request.               *)
(***************************************************************************)
EXTENDS Naturals, FiniteSets

CONSTANTS
  Project,
  Request,           \* requests, of which each makes one edit
  Runtime,           \* the CadRuntime objects the model can tell apart
  Nil

ASSUME RuntimesAssumption ==
  /\ Nil \notin Project \cup Request \cup Runtime
  /\ \A edits \in SUBSET Request : Nil # edits

VARIABLES
  rows,      \* projects in the database
  files,     \* workspace.json of a project: its edits; Nil: no directory
  items,     \* CadRuntimeManager._items
  home,      \* project of a runtime; Nil: the object was never made
  model,     \* the edits in the engine of a runtime
  lock,      \* the request that holds operation_lock
  idle,      \* runtimes not accessed for engine_idle_seconds
  at, kind, target, using, shot, before,  \* locals of a request
  reaper,    \* the task idle_reaper: "running" or "dead"
  deleting,  \* how far the deletion of a project is
  acked      \* edits whose request was answered with success

memory == <<items, home, model, lock, idle>>
locals == <<at, kind, target, using, shot, before>>
rtVars == <<rows, files, memory, locals, reaper, deleting, acked>>

Edits == SUBSET Request

\* The types of the variables. An operation lock is held by a request that is
\* in the middle of an operation on that runtime.
RuntimesTypeOK ==
  /\ rows \subseteq Project
  /\ files \in [Project -> Edits \cup {Nil}]
  /\ items \in [Project -> Runtime \cup {Nil}]
  /\ home \in [Runtime -> Project \cup {Nil}]
  /\ model \in [Runtime -> Edits]
  /\ lock \in [Runtime -> Request \cup {Nil}]
  /\ \A r \in Runtime : lock[r] # Nil =>
       using[lock[r]] = r /\ at[lock[r]] \in {"locked", "edited", "shot"}
  /\ idle \subseteq Runtime
  /\ at \in [Request -> {"new", "owned", "got", "locked", "edited", "shot",
                         "done", "failed"}]
  /\ kind \in [Request -> {"command", "turn", "mcp", "save"}]
  /\ target \in [Request -> Project]
  /\ using \in [Request -> Runtime \cup {Nil}]
  /\ shot \in [Request -> Edits]
  /\ before \in [Request -> Edits]
  /\ reaper \in {"running", "dead"}
  /\ deleting \in [Project -> {"no", "asked", "dropped", "rowless", "fileless",
                             "gone"}]
  /\ acked \in [Project -> Edits]

----------------------------------------------------------------------------
(* CadRuntime                                                              *)

\* Runtimes nobody refers to: garbage, or objects not made yet.
Unused ==
  {r \in Runtime : /\ \A p \in Project : items[p] # r
                   /\ \A t \in Request : using[t] # r}

NewRuntime == CHOOSE r \in Unused : TRUE

\* A plausible slip in Load: a new project is not written.
LoadUnsaved(p, r) ==
  /\ home' = [home EXCEPT ![r] = p]
  /\ model' = [model EXCEPT ![r] = IF files[p] = Nil THEN {} ELSE files[p]]
  /\ files' = files
  /\ items' = [items EXCEPT ![p] = r]

\* __post_init__: the directories are made, workspace.json is loaded or, for a
\* new project, written.
Load(p, r) ==
  LET start == IF files[p] = Nil THEN {} ELSE files[p] IN
  /\ home' = [home EXCEPT ![r] = p]
  /\ model' = [model EXCEPT ![r] = start]
  /\ files' = [files EXCEPT ![p] = start]
  /\ items' = [items EXCEPT ![p] = r]

\* persist: the temporary file cannot be made where the directory is gone.
CanPersist(r) == files[home[r]] # Nil
Persisted(r, what) == [files EXCEPT ![home[r]] = what]

\* close: persist; the bridge is closed whatever comes of it.
ClosePersists(r) ==
  files' = IF CanPersist(r) THEN Persisted(r, model[r]) ELSE files

----------------------------------------------------------------------------
(* Requests                                                                *)

\* The request is over; its locals are gone.
Forget(t) ==
  /\ kind' = [kind EXCEPT ![t] = "command"]
  /\ using' = [using EXCEPT ![t] = Nil]
  /\ shot' = [shot EXCEPT ![t] = {}]
  /\ before' = [before EXCEPT ![t] = {}]

\* owned_project: the row is read, and the request goes on with that.
Check(t) ==
  /\ at[t] = "new"
  /\ \E p \in rows, k \in {"command", "turn", "mcp", "save"} :
       /\ target' = [target EXCEPT ![t] = p]
       /\ kind' = [kind EXCEPT ![t] = k]
  /\ at' = [at EXCEPT ![t] = "owned"]
  /\ UNCHANGED <<rows, files, memory, using, shot, before, reaper,
                 deleting, acked>>

\* CadRuntimeManager.get, under the lock of the manager.
Get(p, r) ==
  /\ \/ items[p] = r /\ UNCHANGED <<items, home, model, files>>
     \/ items[p] = Nil /\ Unused # {} /\ r = NewRuntime /\ Load(p, r)
  /\ idle' = idle \ {r}

GetRuntime(t) ==
  /\ at[t] = "owned"
  /\ \E r \in Runtime :
       /\ Get(target[t], r)
       /\ using' = [using EXCEPT ![t] = r]
  /\ at' = [at EXCEPT ![t] = "got"]
  /\ UNCHANGED <<rows, lock, kind, target, shot, before, reaper,
                 deleting, acked>>

\* Every operation but a save holds operation_lock.
Lock(t) ==
  LET r == using[t] IN
  /\ at[t] = "got" /\ kind[t] # "save" /\ lock[r] = Nil
  /\ lock' = [lock EXCEPT ![r] = t]
  /\ before' = [before EXCEPT ![t] = model[r]]
  /\ at' = [at EXCEPT ![t] = "locked"]
  /\ UNCHANGED <<rows, files, items, home, model, idle, kind, target,
                 using, shot, reaper, deleting, acked>>

Edit(t) ==
  /\ at[t] = "locked"
  /\ model' = [model EXCEPT ![using[t]] = @ \cup {t}]
  /\ at' = [at EXCEPT ![t] = "edited"]
  /\ UNCHANGED <<rows, files, items, home, lock, idle, kind, target,
                 using, shot, before, reaper, deleting, acked>>

\* A plausible slip in OperationFails: a lock that is not released.
OperationFailsLocked(t) ==
  LET r == using[t] IN
  /\ \/ at[t] = "locked" /\ model' = model
     \/ /\ at[t] = "edited" /\ kind[t] = "turn"
        /\ model' = [model EXCEPT ![r] = before[t]]
     \/ at[t] = "edited" /\ kind[t] = "mcp" /\ model' = model
  /\ Forget(t)
  /\ at' = [at EXCEPT ![t] = "failed"]
  /\ UNCHANGED <<rows, files, items, home, lock, idle, target, reaper,
                 deleting, acked>>

\* The operation raises. A command left no edit, a turn restores the snapshot
\* it began with, an MCP call leaves what it did in the engine.
OperationFails(t) ==
  LET r == using[t] IN
  /\ \/ at[t] = "locked" /\ model' = model
     \/ /\ at[t] = "edited" /\ kind[t] = "turn"
        /\ model' = [model EXCEPT ![r] = before[t]]
     \/ at[t] = "edited" /\ kind[t] = "mcp" /\ model' = model
  /\ lock' = [lock EXCEPT ![r] = Nil]
  /\ Forget(t)
  /\ at' = [at EXCEPT ![t] = "failed"]
  /\ UNCHANGED <<rows, files, items, home, idle, target,
                 reaper, deleting, acked>>

\* persist takes its snapshot under the lock of the engine ... A turn calls
\* the bridge of its runtime, so it succeeds only while that is not closed.
Snapshot(t) ==
  /\ at[t] = "edited"
  /\ kind[t] = "turn" => using[t] = items[target[t]]
  /\ shot' = [shot EXCEPT ![t] = model[using[t]]]
  /\ at' = [at EXCEPT ![t] = "shot"]
  /\ UNCHANGED <<rows, files, memory, kind, target, using, before, reaper,
                 deleting, acked>>

\* A plausible slip in Replace: the request is answered whether or not the
\* file could be written.
ReplaceAnyway(t) ==
  LET r == using[t] IN
  /\ at[t] = "shot"
  /\ at' = [at EXCEPT ![t] = "done"]
  /\ acked' = [acked EXCEPT ![home[r]] = @ \cup {t}]
  /\ lock' = [lock EXCEPT ![r] = Nil]
  /\ Forget(t)
  /\ UNCHANGED <<rows, files, items, home, model, idle, target, reaper,
                 deleting>>

\* ... and replaces the file outside it; then the request is answered.
Replace(t) ==
  LET r == using[t] IN
  /\ at[t] = "shot"
  /\ IF CanPersist(r)
     THEN /\ files' = Persisted(r, shot[t])
          /\ at' = [at EXCEPT ![t] = "done"]
          /\ acked' = [acked EXCEPT ![home[r]] = @ \cup {t}]
     ELSE /\ at' = [at EXCEPT ![t] = "failed"]
          /\ UNCHANGED <<files, acked>>
  /\ lock' = [lock EXCEPT ![r] = Nil]
  /\ Forget(t)
  /\ UNCHANGED <<rows, items, home, model, idle, target,
                 reaper, deleting>>

\* save_active_document: snapshot and replacement under the engine lock, and
\* without operation_lock, so perhaps in the middle of a turn.
Save(t) ==
  LET r == using[t] IN
  /\ at[t] = "got" /\ kind[t] = "save"
  /\ IF CanPersist(r)
     THEN /\ files' = Persisted(r, model[r])
          /\ at' = [at EXCEPT ![t] = "done"]
     ELSE at' = [at EXCEPT ![t] = "failed"] /\ files' = files
  /\ Forget(t)
  /\ UNCHANGED <<rows, memory, target, reaper, deleting, acked>>

----------------------------------------------------------------------------
(* Reading, the reaper, deletion, crashes                               *)

\* A request that only reads, or a websocket that connects.
Visit(p) ==
  /\ p \in rows
  /\ \E r \in Runtime : Get(p, r)
  /\ UNCHANGED <<rows, lock, locals, reaper, deleting, acked>>

\* Half an hour without an access. A request takes the operation lock sooner
\* than that after get; it may hold it for longer.
Age(r) ==
  /\ home[r] # Nil /\ r \notin idle
  /\ \A t \in Request : using[t] = r => at[t] # "got"
  /\ idle' = idle \cup {r}
  /\ UNCHANGED <<rows, files, items, home, model, lock, locals,
                 reaper, deleting, acked>>

\* A plausible slip in Stale: only the time of the last access counts.
StaleIfIdle(r) == r \in idle

\* evict_idle tries the operation lock, and does not keep it.
Stale(r) == r \in idle /\ lock[r] = Nil

\* evict_idle, under the lock of the manager: the runtime leaves the pool and
\* is closed. An exception of its persist ends the task idle_reaper for good.
Evict(p) ==
  LET r == items[p] IN
  /\ reaper = "running" /\ r # Nil /\ Stale(r)
  /\ items' = [items EXCEPT ![p] = Nil]
  /\ ClosePersists(r)
  /\ reaper' = IF CanPersist(r) THEN "running" ELSE "dead"
  /\ UNCHANGED <<rows, home, model, lock, idle, locals, deleting, acked>>

\* delete_project, or the purge of a guest, was asked for.
AskDelete(p) ==
  /\ p \in rows /\ deleting[p] = "no"
  /\ deleting' = [deleting EXCEPT ![p] = "asked"]
  /\ acked' = [acked EXCEPT ![p] = {}]
  /\ UNCHANGED <<rows, files, memory, locals, reaper>>

\* drop: the runtime leaves the pool and is closed, whoever uses it.
Drop(p) ==
  LET r == items[p] IN
  /\ deleting[p] = "asked"
  /\ items' = [items EXCEPT ![p] = Nil]
  /\ IF r = Nil THEN files' = files ELSE ClosePersists(r)
  /\ deleting' = [deleting EXCEPT ![p] = "dropped"]
  /\ UNCHANGED <<rows, home, model, lock, idle, locals, reaper, acked>>

\* delete_project deletes the row and then the files; the purge of a guest
\* deletes the files and then the row.
DeleteRow(p) ==
  /\ deleting[p] \in {"dropped", "fileless"}
  /\ rows' = rows \ {p}
  /\ deleting' = [deleting EXCEPT
                   ![p] = IF @ = "dropped" THEN "rowless" ELSE "gone"]
  /\ UNCHANGED <<files, memory, locals, reaper, acked>>

DeleteFiles(p) ==
  /\ deleting[p] \in {"dropped", "rowless"}
  /\ files' = [files EXCEPT ![p] = Nil]
  /\ deleting' = [deleting EXCEPT
                   ![p] = IF @ = "dropped" THEN "fileless" ELSE "gone"]
  /\ UNCHANGED <<rows, memory, locals, reaper, acked>>

\* The server ends and is started again. Nothing resumes a deletion.
Crash ==
  /\ items' = [p \in Project |-> Nil]
  /\ home' = [r \in Runtime |-> Nil] /\ model' = [r \in Runtime |-> {}]
  /\ lock' = [r \in Runtime |-> Nil] /\ idle' = {}
  /\ at' = [t \in Request |-> IF at[t] \in {"new", "done"} THEN at[t]
                              ELSE "failed"]
  /\ kind' = [t \in Request |-> "command"]
  /\ using' = [t \in Request |-> Nil] /\ shot' = [t \in Request |-> {}]
  /\ before' = [t \in Request |-> {}]
  /\ reaper' = "running"
  /\ deleting' = [p \in Project |-> IF p \in rows THEN "no" ELSE deleting[p]]
  /\ acked' = [p \in Project |-> IF deleting[p] = "no" THEN acked[p] ELSE {}]
  /\ UNCHANGED <<rows, files, target>>

----------------------------------------------------------------------------
RuntimesInit ==
  /\ rows = Project /\ files = [p \in Project |-> Nil]
  /\ items = [p \in Project |-> Nil]
  /\ home = [r \in Runtime |-> Nil] /\ model = [r \in Runtime |-> {}]
  /\ lock = [r \in Runtime |-> Nil] /\ idle = {}
  /\ at = [t \in Request |-> "new"] /\ kind = [t \in Request |-> "command"]
  /\ target \in [Request -> Project] /\ using = [t \in Request |-> Nil]
  /\ shot = [t \in Request |-> {}] /\ before = [t \in Request |-> {}]
  /\ reaper = "running"
  /\ deleting = [p \in Project |-> "no"] /\ acked = [p \in Project |-> {}]

RequestStep(t) ==
  \/ GetRuntime(t) \/ Lock(t) \/ Edit(t) \/ OperationFails(t) \/ Snapshot(t)
  \/ Replace(t) \/ Save(t)

RuntimesNext ==
  \/ \E t \in Request : Check(t) \/ RequestStep(t)
  \/ \E p \in Project :
       \/ Visit(p) \/ Evict(p)
       \/ AskDelete(p) \/ Drop(p) \/ DeleteRow(p) \/ DeleteFiles(p)
  \/ \E r \in Runtime : Age(r)
  \/ Crash

\* Worker threads run, and the reaper looks once a minute.
RuntimesFairness ==
  /\ \A t \in Request : WF_rtVars(RequestStep(t))
  /\ \A p \in Project : WF_rtVars(Evict(p))

RuntimesSpec == RuntimesInit /\ [][RuntimesNext]_rtVars
RuntimesFairSpec == RuntimesSpec /\ RuntimesFairness

----------------------------------------------------------------------------
\* An edit that was answered with success is in the file of its project:
\* through saves in the middle of other operations, evictions, reloads and
\* crashes, as long as nobody asks for the project to be deleted.
AckedSurvives ==
  \A p \in Project :
    deleting[p] = "no" /\ acked[p] # {} =>
      files[p] # Nil /\ acked[p] \subseteq files[p]

\* All requests that work on a project work on the one runtime in the pool.
\* A second engine of the project would overwrite what the first one wrote.
OneEnginePerProject ==
  \A t \in Request :
    using[t] # Nil /\ deleting[target[t]] = "no" => items[target[t]] = using[t]

\* The reaper ends only of a runtime that was made for a project while it was
\* being deleted.
ReaperDiesOfDeletion ==
  reaper = "dead" => \E p \in Project : deleting[p] \notin {"no", "asked"}

\* A runtime nobody uses is closed in the end, unless the reaper has died.
IdleIsEvicted ==
  \A p \in Project, r \in Runtime :
    items[p] = r /\ r \in idle ~> \/ items[p] # r \/ r \notin idle
                                  \/ reaper = "dead"

=============================================================================
