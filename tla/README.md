# CADia: a TLA+ model of the workspace, the AI turn and the web server

CADia is a CAD application whose model is edited by commands, from a user
interface or from an AI agent. The program is in `src/src/standalonecad` (engine,
planner, recovery, loopback bridge, desktop UI) and `src/web/backend` (the web
server around it). This project models the parts whose correctness depends on
long sequences of calls, on failures and on concurrency, checks them with TLC and
proves the central results with TLAPS.

## The system

| Part | State | Operations | Where |
| --- | --- | --- | --- |
| Document workspace | open sessions in tab order, the active one, a document with undo and redo stacks per session, the revision | new, open, activate, some sixty modelling commands, undo, redo, save, save all, close, delete | `core/engine.py`, `core/document.py` |
| Assembly links | occurrences of an assembly, linked to open documents by session id or path | sync, bind, Save-As rebinding, close with discard | `core/engine.py`, `core/assembly.py` |
| Plan executor | plan, results, bindings, snapshot | `execute`, `execute_stepwise`, `_rollback` | `planning.py` |
| Failure recovery | attempt, completed prefix, outer snapshot | closed loop, deterministic rewriting, AI repair | `recovery.py` |
| Loopback bridge | one socket per call, one server thread that takes them in turn | call, timeout | `bridge/client.py`, `bridge/host.py` |
| Feature history | parameters, sketches, features, shape cache | set, rename, delete, draw, add, edit, suppress, reorder, replay | `core/document.py` |
| Relations of an assembly | occurrences with positions, constraints, joints and their health | place, move, ground, relate, drive, solve | `core/assembly.py`, `core/joints.py`, `core/document.py` |
| Asking a model for a plan | attempt, provider, process of the command line | plan, repair, stop | `web_agent.py`, `codex_agent.py`, `providers/` |
| Turn slots | cancel event per project, active agent, slots of all projects | prompt, cancel, socket gone | `routes/ai.py`, `main.py` |
| Project runtime | engine, operation lock, mesh cache, `workspace.json` | command, save, select, import, export, persist, close | `cad_runtime.py` |
| Runtime manager | runtimes by project | get, evict idle, drop, close all | `cad_runtime.py`, `main.py` |
| Codex processes | JSON-RPC children by user, pending requests, active turn | request, cancel, evict | `providers/app_server.py` |
| Visual CAD | jobs, a pool of workers, a status in memory and in a file | create, cancel, reconstruct, restart | `visual_cad.py` |
| Manufacturing | what was checked, exported, sent | view, export, 3MF, slice, upload, quote, download | `manufacturing/`, `routes/manufacturing.py`, `mesh.py` |
| Desktop window | queue of events, busy flags, mesh threads, mesh cache by revision | poll, refresh, task, prompt, stop | `ui/qt_app.py` |
| Tool baker, geometry, accounts, web frontend | | | see PROJECT.json |

How they interact. A web request gets the runtime of its project from the
manager. A command takes the runtime's *operation lock*, runs in the engine under
the *engine lock*, and writes the whole workspace to `workspace.json`. A prompt
holds the operation lock for the whole turn: the agent makes a plan from the
current state, the executor sends its calls one by one over a loopback socket to
the bridge thread of the same process, which runs them under the engine
lock. When a call fails the recovery rolls back and goes back to the agent. Some
requests take only the engine lock (Save, mesh, state), and cancelling takes none.

What is hard: which of three nested snapshots is restored when; a cancel that
takes effect only at progress reports; a call that outlives the client waiting for
it; a crash or a Save in the middle of a turn; the index arithmetic and the two
stacks per tab over long sequences of commands; a dirty flag restored from a
snapshot while the file has changed; revisions that are reused after a rollback;
runtimes evicted while somebody still holds them; a replay that starts in the
middle of a history; solvers that share one assembly; a Stop between two requests
to a language model; an answer that arrives after its caller gave up; a mesh that
is stored when its revision is over. PROJECT.json lists each of
these under "hazards" at its line.

## Modules

| Module | What it is |
| --- | --- |
| `VersionHistory` | abstract specification: what undo and redo promise for several documents |
| `Workspace` | the engine's document workspace; refines `VersionHistory` |
| `WorkspaceProofs` | its theorems |
| `AssemblyLinks`, `AssemblyLinksProofs` | assemblies whose occurrences follow the documents of other tabs; its theorems |
| `AssemblyPoses`, `AssemblyPosesProofs` | where the components of one assembly stand, and its three solvers; its theorems |
| `PartHistory`, `PartHistoryProofs` | parameters, sketches and features of one part, and its replay; its theorems |
| `AiTurn`, `AiTurnProofs` | one AI turn: executor, recovery, bridge, cancel, save, crash; its theorems |
| `PlannerRequests` | how a turn gets a plan from a language model, and Stop |
| `PromptSlots` | the turns of all projects: events, slots, sockets |
| `ProjectRuntimes` | the pool of runtimes: requests, eviction, deletion, crash |
| `VisualJobs` | drawing jobs: workers, status, cancel, restart |
| `ServicesProofs` | the theorems about the four modules above |
| `CodexClient` | one JSON-RPC child process and its callers; its theorems are in `AiTurnProofs` |
| `Fabrication` | mesh cache, checks, slicing, printing and quotes of a changing model |
| `DesktopView` | what the desktop window shows of the engine |
| `DocumentsProofs` | the theorems about the two modules above and about `MCDocuments` |
| `Recursion` | lemmas: induction and recursive functions over the naturals, sequences, for the proofs |
| `MCWorkspace`, `MCAssemblyLinks`, `MCAiTurn` | add the symmetry sets for TLC |
| `MCDocuments`, `MCServices` | put several independent modules into one run |

`MCDocuments` and `MCServices` are not products: a variable that never changes says
which of the modules a behaviour is of, and the others keep their initial state.
The parts they hold share no variable; where two parts of the program do meet, one
module has both sides (a runtime with its file, a turn with its bridge, a mesh
cache with the edits under it).

Operators named as a slip ("A slip in ...", "A plausible slip in ...") are wrong
variants of the definition below them. No action uses them; putting one in the
place of its definition has to break the property PROJECT.json names for it.

### Workspace

`tabs`, `active`, `doc`, `undo`, `redo` and `revision` are `_sessions`,
`_active_session_id`, the documents, the two stacks and `revision` of `CadEngine`.
`disk` is the file at each path. A document is what `_document_snapshot` keeps:
content, path and dirty flag; the content is abstract. One action is one command
of `execute`, or `activate_document`, `undo`, `redo`, `save_all`. A command that
raises before it changes anything, or whose workspace snapshot is restored,
stutters. What is kept of the code:

* A tracked command pushes the snapshot taken before it, drops the redo stack and
  sets the dirty flag. `save_all` called directly is not tracked, through
  `execute` it is (and marks the active document dirty again).
* `undo` restores the path and the dirty flag along with the content.
* `save` sets the path before it writes: a failed write leaves the new path and a
  file that is as before or torn.
* `save_all` stops at the first dirty document without a document file; what
  comes before it is saved.
* Closing without saving loads the saved version of a dirty document first, so
  that file has to be readable; closing with save writes to whatever path the
  document has.
* The file operations of `delete_document_file` succeed: its failure path puts
  both the file and the workspace back.

The documents are parts. Assembly occurrences, which save, close and delete also
look at, are in `AssemblyLinks`. Undo and redo called by
the web runtime do not hold the engine lock; this module takes them as one step
(see "Not modelled"). Only this process writes the files.

### AssemblyLinks

The same tabs, seen from the side of the assemblies. A document has a shape (the
set of part versions in it) and occurrences; an occurrence has the file it was
placed from, the tab it is linked to (`source_session_id`), a shape, and whether
that shape is the very object the tab shows, which is what the code compares.

* `Sync` is `_sync_open_assembly_occurrences`: passes over the tabs, in which an
  occurrence follows the tab it is linked to, else the last one with its path.
  Every command that succeeds ends with it (`Commit`).
* `Loading` is `load_component`, through nested files: a component that cannot be
  loaded is replaced by the shape kept in the assembly.
* `Save` saves the unsaved documents the assembly is linked to first
  (`Dependencies`); a Save-As takes the links of the open assemblies along
  (`Rebind`). Whether a rebuilt assembly is a new object depends on positions
  that are not modelled, so both happen (`Renewals`, `MayKeepObject`).
* A command that raises, and an undo whose version cannot be loaded, put the
  workspace back from snapshots; the snapshot of a saved document has relative
  paths and is loaded from a temporary directory (`Relocated`). `rolled` is a history
  variable: nothing is followed after a rollback until a command succeeds.
* A failing save stops halfway and leaves what it has written.

Templates, STEP components, failing writes and the revision are left to
`Workspace`; the two modules share no state and are not composed.

### AssemblyPoses

`asm` is the assembly: occurrences by number (position, grounded, suppressed,
whether the names their relations use exist), the list of constraints and the
list of joints. Space is a line, so a constraint is an offset and a joint a
slider that may be driven and limited; rotations and angles go through the same
code and are left out. Every command ends with `Solved`, the whole of
`solve_assembly_constraints`: up to `MaxPasses` passes that satisfy one relation
after the other and keep the best poses seen (`BestPoses`, written as a recursive
function over passes), the fallback, and, with joints, `Together`: a
least-squares step whose numerics are abstracted to any poses in `Reach` that are
no worse (`Descent`). The loops over relations and passes are recursive functions,
so that they can be proved about. A command that raises, or whose result is refused, puts the
assembly back by loading it, which solves again. `posed` is a history variable:
the assembly the solvers were given.

### PartHistory

`part` has parameters, sketches, features, the shape (the sequence of the effects
it was built by), the shape after each feature (`cache`) and the sheet-metal
state. Six kinds of features stand for all: one without a sketch, one that
modifies, one from a sketch, one that repeats another, and the two of sheet
metal, which have state besides the shape. `Rebuild` is `_rebuild_from`: a suffix
replay from the cache if it can, a full replay else; `Settle` is what a command
does with the result, the roll-back included, which loads the part and so replays
it. An expression is a number or a name; a parameter reaches the features that use
it directly or through a chain of others. `stale` is a history variable: a command was
run after which the code does not replay what depends on it.

### PlannerRequests

One turn on its way to a plan or a repair: two attempts, the fixed plans, and the
two ways to a language model. `stage` is where the turn's thread is, `flag` and
`handle` what a provider knows of Stop and of its process, `child` the process.
Stop in the web server is two steps of another thread (`SetStop`, `CancelAgent`),
in the desktop one. Every report of the turn looks at the event (`Tell`).

### PromptSlots

`events`, `agents` and `free` are `cancel_events`, `active_agents` and the
semaphore. A prompt registers or is refused, waits for a slot or gives up, looks
at its event, works, and takes back slot and event in two steps (`EndSlot`,
`EndEvent`), as the `finally` block does. A socket that goes away cancels
whatever turn its project has then. `Turn` is the threads that run prompts, so
they may send again.

### ProjectRuntimes

`items` is the pool, `model` the edits in an engine, `files` what
`workspace.json` holds, `lock` the operation lock of a runtime. A request gets
its runtime under the manager's lock and takes the operation lock later: `idle`
are the runtimes nobody used for longer than the limit. A request that fails
restores its snapshot; `Save` needs only the engine lock and may write a model in
the middle of somebody's operation. Deleting a project is four steps (asked, dropped,
row, files), during which requests that passed their check go on. `acked` is a
history variable: edits that were answered with success.

### VisualJobs

`status` and `stored` are the status in memory and in the file of a job, which
`_update` writes together unless the file cannot be written; `engine`, `ours` and
`workspace` are the edits in the engine, in the snapshot of the job that builds, and
in `workspace.json`. At this commit `extract_spec` passes an argument that
`complete_json` does not have, so every job fails there (`ImagesAccepted = FALSE`).
The run has `TRUE`, to reach the code behind it; the theorems hold for both.

### CodexClient

`pending` and `box` are the waiters, `wire` the questions a process may still
answer, `lifecycle` the caller that keeps the lifecycle lock for "initialize".
A caller is in `start`, sends, waits, takes the answer back and cleans up; a turn
is several requests, of which the last two, interrupt and delete, are made only
if the process runs. The reader of a process that ended wakes all waiters while
it holds `_pending_lock`, one `put` at a time. A process or number is used again
in the model when no trace of it is left, so it needs no bound on either.

### Fabrication

`model` is at rest or `Unfinished` (in the middle of a turn), `stamp` the
revision, `meshes` the cache. A command holds the engine lock from
`CommandBegins` to `CommandSucceeds`, `CommandFails` or `CommandStops`, and a
reader of the revision can look in between. `_changed` is called at most once in
a command. One that raises after it is restored under the revision there was
before it (`pre`), which the next command then counts up to again; one without
a snapshot, or whose snapshot does not load, leaves what it did. A turn may be rolled
back to any snapshot it took, and may end with its half in the model (`left`).

A request for a mesh reads the key, looks it up, draws, stores and reads again,
each a step of its own. What it is for (`want`) is settled when it has its mesh,
since these steps are the same for all. `cut` is the model in the file that was
made for a request: of the mesh (3MF), of the model under the operation lock (STL,
STEP and what is sliced or quoted), or of the model under the engine lock alone
(the document). `again` is a history variable: the revisions that a restoration
left to a second model. That the model which is exported may be another one than
the one that was checked is in the model, and no property forbids it: nothing in the
code does.

### DesktopView

`events_queue` is abstracted to what is in it (`agent`, `manual`, `changed`),
`job` is the mesh thread whose result is still wanted, `views` the cache. Actions
of the window are the handlers of the Qt thread, each as a whole. A command is one
step, since the window draws under the engine lock only and is told of the end of
every change. It may raise (`CommandRaises`, `RunTask`): then the revision is
the one there was and the shape may be another. A task that raised only sets
the status line (`_manual_finished`), whose box is taken to be answered at once.
A roll-back in a plan goes to any revision since the plan began
(`PlanRollsBack`), or raises and leaves what the plan did (`PlanStays`).
`failed` says that "3D View refresh failed" was shown since the last drawing; that
another text may have taken its place since is left out. `misused` is a history
variable: the last revision that was drawn in a plan before a roll-back, or at
which a command that raised left another shape.

### AiTurn

`model` is the open documents, abstracted to the sequence of the edits they are
made of: two models are equal exactly when the same edits led to them. `disk` is
what `workspace.json` holds. `plan`, `step`, `call`, `snap` and `moved` are the
locals of `execute` and `execute_stepwise` (`moved`: the revision differs from
the one the plan started with); `stage`, `attempt`, `request`, `outer` and
`completed` those of the recovery. `pc` is where the turn thread is. `before`
and `faults` are history variables: the model when the turn began, and what
happened since the last clean save that no rollback takes back:

* `rollback`: restoring a snapshot raised (every caller swallows it);
* `stray`: a call given up by its client changed the model later;
* `midsave`: Save or Download was pressed during a turn;
* `late`: the turn failed after its plan was accepted: the report of "Saving
  project..." raised because of a cancel, the write of `workspace.json` failed,
  or the chat messages could not be stored.

A plan is a sequence of calls of three kinds: edits, reads
(`NON_REVISION_COMMANDS`), and calls that count as edits and change nothing. The
empty sequence stands for a plan `validate_plan` refuses. A call is executed,
refused by the engine (which restores the workspace itself), executed after the
client's timeout but before the rollback (which waits for the engine lock), or
left waiting and executed at any later time. The agent may answer with any plan,
the same plan, nothing, or an exception. Cancelling sets a flag that is looked at
where the code reports progress. Other commands of the user wait for the
operation lock, so they happen between turns; Save does not.

The number of calls in `completed` follows the result list of the code, a call
that was executed and then rolled back because its last report raised included:
the closed loop always ends in that case, which is why the agent never sees it.

## Runs

| Run | Instance | What it shows |
| --- | --- | --- |
| `workspace` | 3 session ids, 1 document file, 1 STEP file, 2 contents, 5 revisions, stacks of 2 | `TypeOK`, `TabsConsistent`, `RevisionTracksModel`, and that undo and redo implement `VersionHistory` (`ImplementsHistory`) |
| `workspace_undo` | same | violated: `UndoneWorkIsUnsaved` |
| `workspace_imports` | same | violated: `ImportedFilesStayReadable` |
| `assembly_links` | 3 session ids, 3 files, 1 occurrence name, 2 part versions, no undo, no rollback (`PlainSpec`) | `AssembliesFollow`, `CleanIsSaved`, `SaveCommits`, `DiscardReachesParents` |
| `assembly_undo` | 2 session ids, 1 file, stacks of 1, rollbacks; and four more views, see below | `AssembliesFollow`; `ShapeIsHistory`, `ReferencesResolve`, `ParameterReachesModel` (part); `HealthTellsTruth`, `SolvingNeverWorsens` (poses); `OnlyFinishedIsMade`, `StaleMeshNeedsRollback` (fabrication); `WindowShowsModel` (desktop); `DocumentsTypeOK` |
| `assembly_failure` | 2 session ids, 2 files, rollbacks | violated: `FailedCommandChangesNothing` |
| `ai_turn` | 2 edits, 1 read, 1 call without effect, plans of 2 calls, 1 continuation and 1 repair, 1 kind of fault | `TypeOK`, `DiskIsBetweenTurns`, `FailedTurnLeavesModel`, `SuccessIsWhatItReports` |
| `ai_turn_ends` | 1 edit, 1 call without effect, 2 continuations and 2 repairs | `AgentIsToldTheTruth`, and `TurnEnds` under fairness |
| `ai_turn_cancel` | as `ai_turn` | violated: `AllOrNothing` |
| `part_rollback` | 3 features, 1 sketch, 2 parameters, 6 commands | violated: `RefusedChangesNothing` |
| `codex_client` | 2 callers of which 1 makes turns, 2 processes, 2 request numbers | `ClientTypeOK`, `AnswersFit`, `NothingLeftBehind`, and `CallersReturn` under fairness |
| `web_services` | runtimes: 1 project, 2 requests, 2 runtimes; slots: 2 projects, 3 threads, 1 slot; 2 jobs, 2 workers; 1 turn to a plan | `AckedSurvives`, `OneEnginePerProject`, `ReaperDiesOfDeletion`, `OneTurnPerProject`, `CancelledNeverBegins`, `StopIsHeard`, `DoneIsDurable`, `CancelledLeavesModel`, `ServicesTypeOK`; `IdleIsEvicted`, `PromptsEnd`, `JobsEnd` under fairness |

Bounds. `MaxRevision` and `MaxHistory` bound a run of the workspace to five commands
that advance the revision; three tabs give a middle tab, which the closing arithmetic
needs, and saves do not count, so a save can come anywhere in between. One document
file is enough for two tabs on the same path (a new document saved over an open one).
`MaxCalls` 2 gives a prefix and a failing call; `MaxRepairs` 1 gives a continuation
after a prefix, the fallback, the rewriting and a repair, and `ai_turn_ends` has the
code's 2. `MaxModel` 0 starts every turn and command from an empty model or from the
few edits a crash, a save or an earlier turn left; `MaxFaults` 1 allows one kind of
fault besides `late` between two clean saves. The theorems hold for every value of all
of these.

`assembly_links` has a part in a subassembly in an assembly, the least that needs
more than one pass, and a third file for a Save-As of any of the three. One
occurrence name is enough for a chain; an assembly with two occurrences is not in
the runs. A session id is used once (a uuid in the code), so three ids also bound
the run. `Overwriting` says over which files of other documents one is saved: over
those that other tabs show (`"open"`), over the others (`"closed"`), or over none.
The runs leave it out; two theorems leave out `"open"` and the others nothing (with
`"closed"`, `assembly_links` has 325,000 states and holds too). What the properties say of assemblies that contain
themselves is excluded (`NoCycle`, `AllOpen`): see the hazard at `core/document.py:2198`.

`CleanIsSaved` and `SaveCommits` are about documents that are `InPlace`. What that
leaves out, the proof attempt found, and it needs four tabs and four files, more
than the run has. An assembly `s` shows one component, which was never moved or
turned, so its shape is the very object of the component
(`core/assembly.py:86-93`); an assembly `r` shows `s`; both are saved. Now the
component is saved under another name. `save_document` writes the new path into
`s` and marks it unsaved, but the rebuilt `s` has the shape object it had, so `r`
is not stale and stays without unsaved changes, while the file of `s` still names
the old file. Open that old file in another tab, edit and save it: closing `r` and
opening it again shows the edit, which `r` never did. `Refiled(s)` is the state of
`s` in between, and the one thing excluded; the component itself may change as it
likes.

The other views of `assembly_undo`: five commands on a part of three features, two
sketches and two parameters (a feature before, at and after the one that is
edited, and two that share a parameter or a sketch, one number with which the
kernel refuses to build); four commands on two components, two constraints and two
joints, placed at 0 or 1 (two relations that contradict each other, and a chain to
ground); one request at a time against commands, turns and two models at rest, with
revisions to 2, so that one can be used twice and passed; a window with two shapes,
which are symmetric, and revisions to 2. Two requests would share nothing but the
cache, which a view and an edit already race for.

`web_services`: two requests and the reaper are the three parties that race for
one runtime, and projects share no runtime. Three turns in two projects with one
slot give one at work, one that waits and one that is refused. Two jobs are one
that builds and one that waits for the lock. In `codex_client` a second process
gives late answers of the first, and a single request beside a turn is what the
pool adds. The theorems about these modules hold for any numbers of them.

Deadlock is not checked where the bounds on revisions, commands, history and session
ids stop a behaviour, and where every call may be over. The sets of sessions and of
edits are symmetric in the safety runs, and so are files, names and versions in
`AssemblyLinks`.

Fairness. The workspace only does what it is told, so it has no liveness. `TurnEnds`
assumes weak fairness of the steps of the turn's own thread, its agent and its call:
providers have timeouts, the client of the bridge has a socket timeout of 45 s, and
the rest is sequential code. Nothing is assumed of the user, of abandoned calls, of
other turns or of the process.

* `IdleIsEvicted`: weak fairness of each request's own thread and of the reaper's
  visit to a project; the reaper sleeps for a minute between two. A runtime whose
  reaper died of an exception is the exception the property names.
* `PromptsEnd`: weak fairness of the turn's thread; waiting for a slot ends after
  ten seconds, with or without one.
* `JobsEnd`: strong fairness of a worker's step, because the operation lock of the
  project is free again and again while others have it in between.
* `CallersReturn`: strong fairness of callers, who share `_lifecycle_lock` and
  `_pending_lock`, and of the reader. Answers are not fair: a child may never
  answer, and every caller but the event loop has a timeout, the loop ten minutes.

Nothing is assumed of users, sockets, child processes, deletions and crashes.

## Findings

* `workspace_undo`: save, edit, save, undo. The document shows the first version,
  the file holds the second, and the dirty flag is clear because it was restored
  from the snapshot; closing or deleting asks nothing.
* `workspace_imports`: open a STEP file, close with save. The STEP file is
  overwritten with a CADia document under the name of a STEP file; `save_document`
  refuses such a path, `close_document` does not.
* `assembly_failure`: save an assembly, then any command that raises. The rollback
  loads the assembly's snapshot, whose paths are relative to its own directory,
  from a temporary file: its occurrences name files that do not exist, and it stops
  following its parts. An undo of a saved assembly goes the same way.
* `part_rollback`: two features use one parameter, or a sketch is drawn into after
  a feature has used it; the code replays from the edited feature on, or nothing,
  so the shape is not the one of the history. A later command that raises loads
  the snapshot, which replays everything: features nobody edited change their
  shape in a command that was refused.
* `ai_turn_cancel`: cancel after the last "Modeling step complete" reports. The
  turn is reported as cancelled, the edits stay in the open model and are not
  persisted, so they disappear at the next restart.

What the properties had to make room for, and the hazards of PROJECT.json list at
their lines: `CallersReturn` excepts `Stuck`, a reader that puts its error into the
full queue of a waiter that timed out, and keeps `_pending_lock` for ever;
`StopIsHeard` excepts a Stop that comes before the process of the planner is
registered (`missed`); `IdleIsEvicted` and `ReaperDiesOfDeletion` a reaper that
dies when the project it evicts was deleted; `JobsEnd` a job that was cancelled
when it was over and says "cancelling" until the restart; `StaleMeshNeedsRollback`
revisions that a roll-back of a plan or of a command that raised left to a second
model, and `WindowShowsModel` those of them that had been drawn;
`OnlyFinishedIsMade` the 3MF file and the document, which do not wait for the end of
a turn, and what a turn left that was neither finished nor rolled back;
`ShapeIsHistory` the commands of `part_rollback`; `HealthTellsTruth` the early
return of the joint solver, which leaves every health as it was.

## Proofs

All for every value of the constants, from the assumptions named in the modules.

* `TypeCorrect`, `TabsStayConsistent`, `RevisionIsEnough` (`WorkspaceProofs`). The
  inductive invariant is `TypeOK /\ TabsConsistent`: removing a tab keeps the
  tabs distinct and the active one among the rest only because it was so before,
  and the histories of closed sessions have to be empty for a reused session.
* `WorkspaceImplementsHistory`: under the mapping that lines up the undo stack,
  the document and the reversed redo stack, every command is a step of
  `VersionHistory` or a stutter. The lemmas say what pushing and popping do to
  that line; the invariant is needed for the commands that open and close.
* `FailureIsAtomic`, `RestartFindsATurnBoundary` (`AiTurnProofs`). The invariant
  `ModelKept` names, for each place of the turn, where the model the turn began
  with is kept: in the outer snapshot during the closed loop, in the plan's
  snapshot while a whole plan runs, in the model elsewhere. `StageFits` ties the
  closed loop and a call at the host to their places. `DiskIsBetweenTurns` is
  proved together with it, because a failing turn leaves the file as it was and
  the model has to fit it.
* `TypeCorrect` (`AiTurnProofs`). `TypeOK` bounds the repairs and the position in
  the plan, so it is not inductive: `AttemptFits` says that a repair is only asked
  for while the count allows one, `StepFits` that the position is inside the plan
  while it runs and zero elsewhere.
* `LedgerMatchesModel`, `SuccessIsReported` (`AiTurnProofs`). The number of
  completed calls, the result list and the plan are kept in different variables,
  and the model in a fourth. `LedgerFits` says at each place of the turn how far
  each of them has got; `LedgerTrue`, that the edits among the completed calls are
  what the model holds beyond where the turn began. The edits of a sequence are
  selected by a recursive function; the lemmas say what it does to `Append`,
  concatenation and prefixes.
* `AnswersReachTheirCallers`, `CallsLeaveNothing`, `ClientTypeCorrect`
  (`AiTurnProofs`). `NumbersFit`: a number is one caller's from the moment it
  is registered to the moment it is taken back. `AnswersOnTheWay`: so a question on
  any pipe with a number in use is of that caller. `TurnsFit` gives the turn that
  is active its place.

`ServicesProofs`, about the four modules of the server:

* `NoAckedEditIsLost`, `ProjectsHaveOneEngine`, `OnlyDeletionKillsReaper`,
  `RuntimesTypeCorrect`. `CopiesFit`: what was acknowledged is in every copy
  from which the model could be restored or written. That needs all requests on
  the runtime of the pool (`RequestsFit`, `PoolFits`), which needs that no request
  is between `get` and the lock of a runtime that counts as idle (`IdleFits`).
* `TurnsAreAlone`, `WaitersHearCancel`, `SlotsTypeCorrect`.
  A turn is registered exactly while its project has its event (`EventsFit`); one
  that was cancelled while it waited keeps its event set to its end (`WarnedFit`).
  That slots do not leak (`SlotsAdd`) is arithmetic of finite cardinalities.
* `StoppedTurnsEnd`, `RequestsTypeCorrect`: after Stop at most one request is
  begun, the one already announced (`LateIsLast`), and a process is known to the
  thread that kills it or that thread found none (`StopReaches`).
* `DoneJobsAreDurable`, `CancelledJobsLeaveModel`, `JobsTypeCorrect`: what was
  reported is in every copy of the model, the snapshot another job would go back
  to included; what was withdrawn in none.
* `ServicesAreTheirParts`, `ServicesTypeCorrect`: a behaviour of `MCServices` is
  one of each of the four parts (a stutter in all but one), so what is proved of
  the parts holds of what the run explores.

`DocumentsProofs`, about the two users of a mesh cache by revision:

* `NoHalfTurnIsMade`, `MeshIsOfItsRevision`, `FabricationTypeCorrect`: a key is of
  a revision that was given out, or of one that a restoration took back
  (`KeysArePast`), so a mesh that is stored late is of the model of now or its
  revision has had two models (`LateMeshFits`). Outside a turn the model is no half
  unless a turn left one (`TurnFits`), so what is exported under the
  operation lock is none.
* `StillWindowIsTrue`, `DesktopTypeCorrect`: what is in the cache, drawn by a
  thread, or was looked at last is of a revision the engine has passed
  (`KeysArePassed`). So whatever is drawn of the revision of now is the model of
  now, and is on the screen, on its way or failed (`DrawnIsSolid`); a window with
  no work left has nothing on its way.

and about the views of `MCDocuments` together:

* `DocumentsAreTheirParts`, `DocumentsTypeCorrect`: a behaviour of the run is one
  of each of the five views, so their theorems hold of it.

`AssemblyLinksProofs`:

* `AssembliesAlwaysFollow`, `LinksTypeCorrect`, from the invariant `LinksInv`
  (`AlwaysLinksInv`). `DocFits` relates a document to the others: an assembly shows
  what its occurrences show, and an occurrence that shows the object of its tab
  shows the tab's shape, so a comparison of objects tells what a comparison of
  shapes would. It is kept by whatever follows one tab, by each command before it
  follows, and by a roll-back, which leaves no links at all (`Loose`). That `Sync`
  is enough: after a pass only occurrences of tabs with a link into what was stale
  before can be stale (`PassWave`), so after k passes only what shows tabs from
  which k links lead on; with as many tabs as there are links to follow, an
  assembly without a cycle has none (`HeightsEnd`, from `BelowIsLeast`: `Below` is
  everything links lead to, because a growing set of tabs stands still after as
  many steps as there are tabs, `Saturates`). For loading it is enough here to know
  that the recursion over files ends, because each level has one file less to visit
  (`UnvisitedFalls`), and that it returns a shape.
* `DiscardAlwaysReachesParents`: `LinksInv` fixes what `BackToDisk` leaves in each
  occurrence that was placed from the file (`BackToDiskShows`), and following does
  not change an occurrence that gets no link (`KeepsLinks`).
* `CleanIsAlwaysSaved` and `SavesAlwaysCommit`, for any number of tabs and files
  and any depth. They are theorems of `PlainSpec` without `"open"` in
  `Overwriting`, and could not be of more: an undo puts back the dirty flag along
  with the content (`workspace_undo`), a roll-back takes the file names out of an
  assembly (`assembly_failure`), and a document saved over the file of another
  tab leaves that tab clean. `PlainSpec` has every command, saves that stop half-way
  included, but those three. Of the constants they assume that no file is the value
  for "no file" (`NoFileAssumption`), and that there are finitely many paths
  (`LinksAssumption`). The invariant is `LinksInv /\ SavedInv` (`PlainInv`):
  - no two tabs show one file (`OwnPaths`), and an occurrence that is linked to a
    tab names the file of that tab (`ByPath`; otherwise reading would follow
    another chain of files than the links do);
  - each document fits its file (`FilesFit`): the kind, the components and the
    paths of the components agree, and for a part the shape, except for a set `B`
    of tabs with objects that were never saved. The tabs of `B` are dirty, and who
    shows one of them does not show the object it has now. This is what an
    assembly inherits: when it follows, either nothing it shows is in `B`, or it
    gets a new object and enters `B` itself. A dirty assembly with one component
    may also differ in that component's path, which is `Refiled`;
  - nothing is stale, told of any set of tabs of which none contains itself
    (`FollowsIn`), because a cycle somewhere else must not spoil the claim about
    this one.

  From it: the file of whatever a clean document that is `InPlace` shows has what
  that shows, level by level (`CleanMirrors`, an induction down the finite heights
  of the links), so `Loading` goes from file to file as the links go from tab to tab
  and composes the same shapes (`LoadsBack`; that a path may be visited already does not matter where
  nothing contains itself). Each command keeps `FilesFit` by one of three lemmas:
  it makes a new object (`EditingSaved`), keeps the object (`ReshowingSaved`), or
  writes files in the order of the dependencies (`SavingFits`, `RenamedFits`). For
  `SavesAlwaysCommit` it is left to show that the saved document is still clean
  when the others have followed: nothing below it moves in a pass, since a save
  changes no shape (`SyncQuiet`, `SaveStill`).

`PartHistoryProofs`:

* `ShapeFollowsHistory`, `ReferencesHold`, `ParameterArrives`, `PartTypeCorrect`,
  `PartInvariant`. The invariant `PartInv` says that the cached shapes are those
  of the prefixes of the history, that the sheet-metal state is that of a full
  replay, and that every reference names something before it. The argument has
  three layers: two features that ask for the same have the same effect on the
  same shape; two histories that agree up to some feature replay alike up to it,
  so a replay of a suffix from the cache is a full replay; and each command
  leaves a part whose history agrees with the old one up to where it replays from
  (one lemma per command), which `Settle` accepts or rolls back. Where the code
  replays too little (`part_rollback`) the history variable `stale` is set, and
  the invariant stands without it.

`AssemblyPosesProofs`:

* `HealthIsTrue`, `SolversNeverWorsen`, `PosesTypeCorrect`. `Solution` relates an
  assembly to what a solver makes of it, and holds of each of the three solvers
  and so of `Solved`: `Frame` is what no step of any of them touches (which
  components there are, what is grounded and where it stands); `NoWorse` is the
  order of the scores, transitive because the largest error and the sum are
  compared in that order, so it goes through any number of passes and into the
  fallback; and every way out judges the relations last, of the poses it leaves.
  The two lists of relations are solved alone or as one, so a score of the
  constraints has to be carried over to all relations (`QuietBetter`: suppressed
  joints add nothing). Then each command hands the solvers a well-formed assembly
  (`DocOK`). The invariant is `Solution(posed, asm)`.

`Recursion` is what these proofs share. The library's induction theorems take an
operator and cannot be used here, so induction is stated on a set of numbers
(`Induction`, `InductionTo`, from a least element), and `RecursionExists` and
`RecursionOver` say that the recursive function of a step given as a function
exists; a recursive definition of the models is then shown to be that function.

Only model-checked: the liveness properties (`TurnEnds`, `IdleIsEvicted`,
`PromptsEnd`, `JobsEnd`, `CallersReturn`), which are out of the reach of the
prover. Every safety property of a passing run is stated by a theorem. The
properties that the code violates are of course not theorems.

## Not modelled

* Geometry (sketch solver, topology, generators, rotations) is real arithmetic on
  the OCCT kernel; a command of it is an edit that succeeds or raises.
* Expressions of several parameters, and the parser of expressions.
* Undo and redo of the web runtime without the engine lock
  (`cad_runtime.py:268`): `Workspace` takes them as one step, and what interleaves
  inside one is not in any module. The selection a prompt talks about
  (`routes/ai.py:501`), and the files an AI plan saves.
* The turn with GitHub Copilot, whose agent edits through the MCP gateway instead of
  handing over a plan.
* Framing, token check and rate limit of the bridge; accounts, sessions and
  credentials (single database transactions); the tool baker (one thread, one
  file); the wire formats of the providers.
* The web frontend and the older Tk window: their requests are inputs of the
  modules of the server.

PROJECT.json gives the reason for each component, and names the hazards no
property covers.

## Plan

1. `EngineThreads`: undo and redo without the engine lock against its holders.
2. The Copilot turn as another way through `AiTurn`, and files in its plans.
3. Expressions of several parameters in `PartHistory`, and components with more
   than one solver pass in `AssemblyPoses` (three in a chain).
4. Proofs: a refinement of an abstract transaction by `AiTurn`; `CleanIsSaved` of
   the commands after an undo that crosses no save.
