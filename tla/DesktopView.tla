----------------------------- MODULE DesktopView -----------------------------
(***************************************************************************)
(* What the window of the desktop application shows (ui/qt_app.py): the    *)
(* events that the threads at work put into a queue, the poll that empties *)
(* it, meshes that are built in threads of their own and kept by revision. *)
(*                                                                         *)
(* The engine is changed by an AI turn, by a task that the user started    *)
(* and by external clients of the bridge. Actions of the window are those  *)
(* of the Qt thread, each a handler as a whole. A view names what is       *)
(* drawn: a Picture of the active document, or Blank.                      *)
(***************************************************************************)
EXTENDS Naturals, FiniteSets, FiniteSetsExt

CONSTANTS
  Picture, Blank,   \* shapes of the active document; that it has none
  Unseen,           \* nothing in the cache, nothing on the screen
  MaxRevision       \* bound on engine.revision

ASSUME DesktopAssumption ==
  /\ Blank \notin Picture /\ Unseen \notin Picture \cup {Blank}
  /\ MaxRevision \in Nat

VARIABLES
  solid, rev,    \* the shape and revision of the engine
  base,          \* the revision of the first snapshot of the plan at work
  agent,         \* agent_busy and the plan: "idle", "busy", "plan", "done"
  manual,        \* manual_busy: "idle", "busy", "done", "error"
  changed,       \* cad_changed is in events_queue
  last,          \* _last_revision
  edgeMode,      \* the selection mode is Edge
  views,         \* _mesh_cache: whose faces, and if edges too, by revision
  job,           \* _pending_mesh_key, and the shape its thread builds
  screen,        \* whose faces are shown
  failed,        \* the status line has said that the last drawing failed
  ahead,         \* the last revision drawn since that snapshot
  misused        \* the last one drawn before a roll-back in the plan, or left
                 \* with another shape by a command that raised

dvVars == <<solid, rev, base, agent, manual, changed, last, edgeMode, views,
            job, screen, failed, ahead, misused>>

View == Picture \cup {Blank}
Revision == 0..MaxRevision
NoJob == [rev |-> 0, faces |-> FALSE, edges |-> FALSE, of |-> Unseen]
NoView == [faces |-> Unseen, edges |-> FALSE]

\* The types of the variables, and that a thread at work has something to do.
DesktopTypeOK ==
  /\ solid \in View /\ rev \in Revision
  /\ base \in Revision
  /\ agent \in {"idle", "busy", "plan", "done"}
  /\ manual \in {"idle", "busy", "done", "error"}
  /\ changed \in BOOLEAN /\ edgeMode \in BOOLEAN /\ failed \in BOOLEAN
  /\ last \in Revision
  /\ views \in [Revision -> [faces : View \cup {Unseen}, edges : BOOLEAN]]
  /\ \/ job = NoJob
     \/ /\ job \in [rev : Revision, faces : BOOLEAN, edges : BOOLEAN, of : View]
        /\ job.faces \/ job.edges
  /\ screen \in View \cup {Unseen}
  /\ ahead \in Revision /\ misused \in Revision

----------------------------------------------------------------------------
(* The engine                                                              *)

window == <<last, edgeMode, views, job, screen, failed>>

\* A command is one step: the window may read the revision in the middle of
\* one, but takes engine.lock to draw, and looks again at the event of its end.
Changes ==
  /\ rev < MaxRevision
  /\ solid' \in View /\ rev' = rev + 1 /\ changed' = TRUE

\* A command that raises: _restore_workspace gives the revision back, with what
\* the snapshots load to; or there was none, or it does not load, and what was
\* done stays, with or without an event.
Raised ==
  /\ solid' \in View /\ changed' \in {changed, TRUE} /\ UNCHANGED rev
  /\ misused' = IF solid' = solid THEN misused ELSE Max({misused, rev})

\* A command of an external client, undo, redo or another document.
ClientCommand ==
  /\ Changes
  /\ UNCHANGED <<base, agent, manual, window, ahead, misused>>

\* One of those, of the plan or of _engine_call, which then does not refresh.
CommandRaises ==
  /\ Raised
  /\ UNCHANGED <<base, agent, manual, window, ahead>>

\* send_prompt, which does not look at manual_busy.
SendPrompt ==
  /\ agent = "idle"
  /\ agent' = "busy"
  /\ UNCHANGED <<solid, rev, base, manual, changed, window, ahead, misused>>

\* The executor takes a snapshot of the workspace and begins a plan, or the
\* closed loop one, with more snapshots to come.
PlanBegins ==
  /\ agent = "busy" /\ rev < MaxRevision
  /\ agent' = "plan" /\ base' = rev /\ ahead' = 0
  /\ UNCHANGED <<solid, rev, manual, changed, window, misused>>

PlanStep ==
  /\ agent = "plan" /\ Changes
  /\ UNCHANGED <<base, agent, manual, window, ahead, misused>>

\* _rollback, of the whole plan or of the call that failed: the revision is the
\* one of the snapshot plus one, whatever it had come to. Then the plan goes
\* on, or the turn plans again or ends.
PlanRollsBack ==
  /\ agent = "plan"
  /\ \E r \in base..rev : r < MaxRevision /\ rev' = r + 1
  /\ solid' \in View /\ changed' = TRUE
  /\ agent' \in {"plan", "busy"}
  /\ base' = IF agent' = "plan" THEN base ELSE 0
  /\ ahead' = 0 /\ misused' = Max({misused, ahead})
  /\ UNCHANGED <<manual, window>>

\* The roll-back raises, and what the plan did stays.
PlanStays ==
  /\ agent = "plan"
  /\ agent' = "busy" /\ base' = 0 /\ ahead' = 0
  /\ UNCHANGED <<solid, rev, manual, changed, window, misused>>

\* The plan is executed, or there never was one: agent_done, agent_error.
TurnEnds ==
  /\ agent \in {"busy", "plan"}
  /\ agent' = "done" /\ base' = 0 /\ ahead' = 0
  /\ UNCHANGED <<solid, rev, manual, changed, window, misused>>

\* _engine_call_async: open, save, delete, relink.
StartTask ==
  /\ manual = "idle" /\ agent = "idle"
  /\ manual' = "busy"
  /\ UNCHANGED <<solid, rev, base, agent, changed, window, ahead, misused>>

\* The task changes something or nothing, and then the host may raise; or the
\* task raises.
RunTask ==
  /\ manual = "busy"
  /\ \/ /\ manual' \in {"done", "error"} /\ UNCHANGED misused
        /\ Changes \/ UNCHANGED <<solid, rev, changed>>
     \/ manual' = "error" /\ Raised
  /\ UNCHANGED <<base, agent, window, ahead>>

----------------------------------------------------------------------------
(* Drawing                                                                 *)

\* What is drawn while a plan is at work is of a revision that the roll-back
\* may give to another model.
Ahead == IF agent = "plan" /\ rev > base THEN rev ELSE ahead

\* _apply_mesh_cache
ShowCached(vs) ==
  screen' = IF vs[rev].faces # Unseen THEN vs[rev].faces ELSE screen

\* _schedule_mesh_build: what the cache lacks is built by a new thread, unless
\* the last one is at it. The result of an earlier thread will not be used
\* (_mesh_job_serial), so it is forgotten here.
Schedule(vs, edges) ==
  LET next == [rev |-> rev, faces |-> vs[rev].faces = Unseen,
               edges |-> edges /\ ~vs[rev].edges, of |-> solid]
  IN  IF ~next.faces /\ ~next.edges
      THEN ShowCached(vs) /\ failed' = FALSE /\ ahead' = Ahead /\ UNCHANGED job
      ELSE /\ job' = IF [job EXCEPT !.of = solid] = next THEN job ELSE next
           /\ failed' = FALSE /\ ahead' = Ahead
           /\ UNCHANGED screen

\* _render_locked: a document without a shape is blank at once, and what is
\* being drawn will not be used.
Render ==
  IF solid = Blank
  THEN /\ job' = NoJob
       /\ views' = [views EXCEPT ![rev] = [faces |-> Blank, edges |-> TRUE]]
       /\ screen' = Blank /\ failed' = FALSE /\ ahead' = Ahead
  ELSE UNCHANGED views /\ Schedule(views, edgeMode)

Refresh == last' = rev /\ Render

AgentFinished == agent' = IF agent = "done" THEN "idle" ELSE agent
ManualFinished ==
  manual' = IF manual \in {"done", "error"} THEN "idle" ELSE manual

\* _poll every 100 ms: the end of a turn, or of a task that did not fail,
\* refreshes the window; changes only do while no turn is at work. The message
\* box of a task that failed is taken to be answered at once.
Poll ==
  LET done == agent = "done" \/ manual = "done"
      asked == changed \/ rev # last
      agentBusy == agent \in {"busy", "plan"}
  IN
  /\ done \/ asked \/ manual = "error"
  /\ AgentFinished /\ ManualFinished
  /\ changed' = FALSE
  /\ IF done \/ (asked /\ ~agentBusy) THEN Refresh
     ELSE UNCHANGED <<last, views, job, screen, failed, ahead>>
  /\ UNCHANGED <<solid, rev, base, edgeMode, misused>>

\* _engine_call, which does not look at agent_busy: another camera, tab or new
\* document, and a refresh. What it changes in the engine is ClientCommand.
LookAgain ==
  /\ Refresh
  /\ UNCHANGED <<solid, rev, base, agent, manual, changed, edgeMode, misused>>

\* _apply_pick_mode as the user chooses Face or Edge.
ChooseMode ==
  /\ edgeMode' = ~edgeMode
  /\ IF edgeMode' /\ ~views[rev].edges
     THEN Schedule(views, TRUE)
     ELSE UNCHANGED <<job, screen, failed, ahead>>
  /\ UNCHANGED <<solid, rev, base, agent, manual, changed, last, views,
                 misused>>

\* The revisions with anything in the cache.
Cached(vs) == {r \in Revision : vs[r] # NoView}

\* A plausible slip in Kept: the oldest two are kept.
KeptOldest(vs) ==
  [r \in Revision |->
     IF Cardinality({q \in Cached(vs) : q < r}) < 2 THEN vs[r] ELSE NoView]

\* Only the highest two revisions are kept.
Kept(vs) ==
  [r \in Revision |->
     IF Cardinality({q \in Cached(vs) : q > r}) < 2 THEN vs[r] ELSE NoView]

\* _build_mesh_snapshot_worker: the faces, the edges or both.
Drawn(v) == [faces |-> IF job.faces THEN job.of ELSE v.faces,
             edges |-> job.edges \/ v.edges]

\* _mesh_ready: the view is kept and, if it is of the revision of now, shown;
\* then in Edge mode edges that the cache lacks are asked for.
MeshReady ==
  LET r == job.rev
      vs == Kept([views EXCEPT ![r] = Drawn(@)])
      shown == r = rev /\ vs[r].faces # Unseen
      more == shown /\ edgeMode /\ ~vs[r].edges
  IN
  /\ job # NoJob
  /\ views' = vs
  /\ IF shown THEN ShowCached(vs) /\ failed' = FALSE
     ELSE UNCHANGED <<screen, failed>>
  /\ job' = IF more THEN [rev |-> rev, faces |-> FALSE, edges |-> TRUE,
                          of |-> solid]
            ELSE NoJob
  /\ ahead' = IF more THEN Ahead ELSE ahead
  /\ UNCHANGED <<solid, rev, base, agent, manual, changed, last, edgeMode,
                 misused>>

\* _mesh_error
MeshError ==
  /\ job # NoJob
  /\ job' = NoJob
  /\ failed' = (failed \/ job.rev = rev)
  /\ UNCHANGED <<solid, rev, base, agent, manual, changed, last, edgeMode,
                 views, screen, ahead, misused>>

----------------------------------------------------------------------------
DesktopInit ==
  /\ solid = Blank /\ rev = 0 /\ base = 0
  /\ agent = "idle" /\ manual = "idle" /\ changed = FALSE
  /\ last = 0 /\ edgeMode = FALSE
  /\ views = [r \in Revision |->
                IF r = 0 THEN [faces |-> Blank, edges |-> TRUE] ELSE NoView]
  /\ job = NoJob /\ screen = Blank /\ failed = FALSE
  /\ ahead = 0 /\ misused = 0

DesktopNext ==
  \/ ClientCommand \/ CommandRaises \/ SendPrompt
  \/ PlanBegins \/ PlanStep \/ PlanRollsBack \/ PlanStays \/ TurnEnds
  \/ StartTask \/ RunTask
  \/ Poll \/ LookAgain \/ ChooseMode \/ MeshReady \/ MeshError

DesktopSpec == DesktopInit /\ [][DesktopNext]_dvVars

----------------------------------------------------------------------------
\* Nothing is under way, and nothing is left to make the window look again.
Still ==
  /\ agent = "idle" /\ manual = "idle" /\ ~changed /\ last = rev
  /\ job = NoJob

\* When all is still the window shows the model of the engine, or has said that
\* it could not. There are two exceptions, both of a cache that knows a shape
\* by its revision only. After a roll-back in a plan of which something had
\* been drawn, the cache may give what was drawn then, or lose the new; and a
\* command that raised may leave another shape under the revision there was.
\* Both end once the engine has passed those revisions.
WindowShowsModel ==
  Still => screen = solid \/ failed \/ misused >= rev

=============================================================================
