-------------------------- MODULE PlannerRequests ---------------------------
(* How a turn gets a plan, or a repair of one, from a language model: over *)
(* the HTTP API of a provider (APICompatibleAgent, providers/), or from    *)
(* the Codex command line (CodexAgent), in the web server and in the       *)
(* desktop application; two attempts, the fixed plans that are the last    *)
(* resort, and Stop, which another thread presses at any time.             *)
(*                                                                         *)
(* Each turn of the web server has an agent, an event and a provider of    *)
(* its own, and the agent of the desktop keeps nothing from one turn to    *)
(* the next: a behaviour is one turn.                                      *)
EXTENDS Naturals

VARIABLES
  host,      \* whose turn: "web", "desktop"
  via,       \* "api", "cli"
  purpose,   \* "plan", or the "repair" of a failed plan or of its rest
  stage,     \* where the turn is
  attempt,   \* 1 or 2
  stopSet,   \* the cancel event of the turn, of the web server
  stopping,  \* a thread has set it, and has yet to call agent.cancel
  flag,      \* provider._cancelled
  child,     \* the last process of the command line
  handle,    \* agent.proc is that process
  overdue,   \* requests that began after Stop
  missed     \* a Stop found no agent, or no process, to cancel

plVars == <<host, via, purpose, stage, attempt, stopSet, stopping, flag, child,
            handle, overdue, missed>>
plKind == <<host, via, purpose>>
plStop == <<stopSet, stopping, missed>>

Over == {"planned", "failed", "stopped"}

\* The types of the variables. Only a turn that has begun has processes.
RequestsTypeOK ==
  /\ host \in {"web", "desktop"} /\ via \in {"api", "cli"}
  /\ purpose \in {"plan", "repair"}
  /\ stage \in {"new", "begun", "asking", "posting", "answering", "started",
                "reading", "reaping", "rejected"} \cup Over
  /\ attempt \in 1..2 /\ overdue \in 0..2
  /\ stopSet \in BOOLEAN /\ stopping \in BOOLEAN /\ missed \in BOOLEAN
  /\ flag \in BOOLEAN /\ handle \in BOOLEAN
  /\ child \in {"none", "running", "answered", "broken", "killed"}
  /\ handle => child # "none"

----------------------------------------------------------------------------
(* The turn.                                                               *)

\* A plausible slip in Tell: what it reports is not listened to.
TellDeaf(next) == stage' = next

\* on_event: in the web server a report raises once Stop was pressed
\* (guarded_event), and the planner raises that on (_planner_cancelled).
Tell(next) ==
  stage' = IF host = "web" /\ stopSet THEN "stopped" ELSE next

\* execute_prompt_sync, send_prompt: the turn has an event, but no agent that
\* Stop could find. A repair is asked for later, by the same agent.
BeginRequest(h, v, p) ==
  /\ stage = "new"
  /\ h = "desktop" => v = "cli"
  /\ host' = h /\ via' = v /\ purpose' = p
  /\ stage' = IF h = "web" /\ p = "plan" THEN "begun" ELSE "asking"
  /\ UNCHANGED <<attempt, flag, child, handle, overdue, plStop>>

\* active_agents gets the agent.
RegisterAgent ==
  /\ stage = "begun" /\ stage' = "asking"
  /\ UNCHANGED <<plKind, attempt, flag, child, handle, overdue, plStop>>

\* direct_plan knows what to do: asked first if so configured, and last.
PlanDirectly ==
  /\ purpose = "plan"
  /\ \/ stage = "asking" /\ attempt = 1
     \/ stage = "rejected" /\ attempt = 2
  /\ Tell("planned")
  /\ UNCHANGED <<plKind, attempt, flag, child, handle, overdue, plStop>>

\* A second attempt, with the error of the first.
Retry ==
  /\ stage = "rejected" /\ purpose = "plan" /\ attempt = 1
  /\ Tell("asking")
  /\ attempt' = 2
  /\ UNCHANGED <<plKind, flag, child, handle, overdue, plStop>>

\* The error of the last attempt, and any error of a repair, is raised.
GiveUpPlanning ==
  /\ stage = "rejected" /\ (purpose = "repair" \/ attempt = 2)
  /\ stage' = "failed"
  /\ UNCHANGED <<plKind, attempt, flag, child, handle, overdue, plStop>>

\* _extract_json_object and _validate_planner_plan accept it or do not.
Judgement == stage' \in {"planned", "rejected"}

CountLate == overdue' = IF stopSet THEN overdue + 1 ELSE overdue

----------------------------------------------------------------------------
(* A request over the API (complete_json).                                 *)

Announce ==
  /\ stage = "asking" /\ via = "api"
  /\ flag' = FALSE
  /\ Tell("posting")
  /\ UNCHANGED <<plKind, attempt, child, handle, overdue, plStop>>

Post ==
  /\ stage = "posting"
  /\ stage' = "answering"
  /\ CountLate
  /\ UNCHANGED <<plKind, attempt, flag, child, handle, plStop>>

\* The answer counts for nothing after a cancel; it is reported, and judged.
\* An error, or no text, is an attempt that failed.
Answer ==
  /\ stage = "answering"
  /\ \/ stage' = "rejected" /\ ~flag
     \/ IF flag \/ (host = "web" /\ stopSet) THEN stage' = "stopped"
        ELSE Judgement
  /\ UNCHANGED <<plKind, attempt, flag, child, handle, overdue, plStop>>

\* The request itself raises, cancelled or not.
PostFails ==
  /\ stage = "answering"
  /\ stage' = "rejected"
  /\ UNCHANGED <<plKind, attempt, flag, child, handle, overdue, plStop>>

----------------------------------------------------------------------------
(* A request over the command line (_run_planner).                         *)

\* Popen; there may be no executable.
Spawn ==
  /\ stage = "asking" /\ via = "cli"
  /\ \/ /\ stage' = "started" /\ child' = "running" /\ handle' = FALSE
        /\ CountLate
     \/ /\ stage' = "rejected"
        /\ UNCHANGED <<child, handle, overdue>>
  /\ UNCHANGED <<plKind, attempt, flag, plStop>>

\* self.proc = p, and the prompt is written to it.
RegisterProcess ==
  /\ stage = "started"
  /\ stage' = "reading" /\ handle' = TRUE
  /\ UNCHANGED <<plKind, attempt, flag, child, overdue, plStop>>

\* "turn.started", and "turn.completed", without which there is no answer,
\* are reported. A report that raises leaves the process to itself.
ReadStarted ==
  /\ stage = "reading"
  /\ Tell("reading")
  /\ UNCHANGED <<plKind, attempt, flag, child, handle, overdue, plStop>>

ReadCompleted ==
  /\ stage = "reading" /\ child # "broken"
  /\ Tell("reaping")
  /\ UNCHANGED <<plKind, attempt, flag, child, handle, overdue, plStop>>

\* The end of its output, of a process that broke or was killed.
ReadEnd ==
  /\ stage = "reading" /\ child \in {"broken", "killed"}
  /\ stage' = "reaping"
  /\ UNCHANGED <<plKind, attempt, flag, child, handle, overdue, plStop>>

\* p.wait(). That it was killed is an exit code like others.
Reap ==
  /\ stage = "reaping" /\ child # "running"
  /\ handle' = FALSE
  /\ IF child = "answered" THEN Judgement ELSE stage' = "rejected"
  /\ UNCHANGED <<plKind, attempt, flag, child, overdue, plStop>>

\* The process ends.
ChildEnds ==
  /\ child = "running"
  /\ child' \in {"answered", "broken"}
  /\ child' = "answered" => stage # "started"
  /\ UNCHANGED <<plKind, stage, attempt, flag, handle, overdue, plStop>>

----------------------------------------------------------------------------
(* Stop.                                                                   *)

\* agent.cancel: the process that is registered is terminated if it runs, or
\* the flag of the provider is set.
Cancelled(found) ==
  /\ child' = IF found /\ handle /\ child = "running" THEN "killed" ELSE child
  /\ flag' = IF found /\ via = "api" THEN TRUE ELSE flag
  /\ missed' = (missed \/ ~found \/ (via = "cli" /\ ~handle))

\* cancel_prompt: the event and the agent are looked up together.
SetStop ==
  /\ host = "web" /\ stage \notin {"new"} \cup Over /\ ~stopping
  /\ stopSet' = TRUE
  /\ IF stage = "begun" THEN stopping' = FALSE /\ Cancelled(FALSE)
     ELSE stopping' = TRUE /\ UNCHANGED <<child, flag, missed>>
  /\ UNCHANGED <<plKind, stage, attempt, handle, overdue>>

CancelAgent ==
  /\ stopping /\ stopping' = FALSE
  /\ Cancelled(TRUE)
  /\ UNCHANGED <<plKind, stage, attempt, stopSet, handle, overdue>>

\* stop_agent of the desktop: no event, and the reports go on.
StopDesktop ==
  /\ host = "desktop" /\ stage \notin {"new"} \cup Over
  /\ Cancelled(TRUE)
  /\ UNCHANGED <<plKind, stage, attempt, stopSet, stopping, handle, overdue>>

----------------------------------------------------------------------------
RequestsInit ==
  /\ host = "web" /\ via = "api" /\ purpose = "plan"
  /\ stage = "new" /\ attempt = 1
  /\ stopSet = FALSE /\ stopping = FALSE /\ missed = FALSE
  /\ flag = FALSE /\ child = "none" /\ handle = FALSE /\ overdue = 0

RequestsNext ==
  \/ \E h \in {"web", "desktop"}, v \in {"api", "cli"},
        p \in {"plan", "repair"} : BeginRequest(h, v, p)
  \/ RegisterAgent \/ PlanDirectly \/ Retry \/ GiveUpPlanning
  \/ Announce \/ Post \/ Answer \/ PostFails
  \/ Spawn \/ RegisterProcess \/ ReadStarted \/ ReadCompleted \/ ReadEnd
  \/ Reap \/ ChildEnds
  \/ SetStop \/ CancelAgent \/ StopDesktop

RequestsSpec == RequestsInit /\ [][RequestsNext]_plVars

----------------------------------------------------------------------------
\* A turn of the web server that was stopped asks the model for nothing more,
\* but for the one request it was about to send, and the answer to that one
\* is never planned with (cancel_prompt; codex_agent.py, _planner_cancelled).
NoLatePlan ==
  host = "web" => overdue <= 1 /\ (stage = "planned" => overdue = 0)

\* A process of the command line outlives its turn only if the thread that
\* pressed Stop has yet to kill it, or came when there was none to kill: it
\* had not been started, or not been registered (CodexAgent.cancel).
NoProcessLeft ==
  stage \in Over /\ child = "running" => stopping \/ missed

\* Both: Stop is heard wherever planning is when it is pressed.
StopIsHeard == NoLatePlan /\ NoProcessLeft
=============================================================================
