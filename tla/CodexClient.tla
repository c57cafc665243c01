----------------------------- MODULE CodexClient -----------------------------
(***************************************************************************)
(* One AppServerClient of the web server (providers/app_server.py): a      *)
(* child process that is started on demand, JSON-RPC requests over its     *)
(* pipes, the reader thread that hands answers to the callers, turns, and  *)
(* the pool, which may stop the client under them.                         *)
(*                                                                         *)
(* The code never reuses a process or a request number. Here one is reused *)
(* when no trace of it is left, which needs no bound.                      *)
(***************************************************************************)
EXTENDS Naturals, FiniteSets

CONSTANTS
  Caller,            \* threads of the server that call the client
  Planner,           \* those of them that make turns (complete_json),
                     \* the others make single requests
  Process,           \* child processes of which a trace is left at a time
  RequestId,           \* request numbers in use at a time
  Nobody

ASSUME ClientAssumption ==
  /\ Planner \subseteq Caller
  /\ Nobody \notin Caller \cup Process \cup RequestId
  /\ RequestId \subseteq Nat /\ IsFiniteSet(RequestId)

VARIABLES
  child,     \* _process
  alive,     \* processes that run
  wire,      \* questions a process was sent and may still answer
  reader,    \* reader thread of a process: "reading", "waking", "done"
  wake,      \* waiters a reader still has to wake
  lifecycle, \* the caller that keeps _lifecycle_lock for "initialize"
  activeTurn,    \* the caller whose turn is _active_turn
  pending,   \* the keys of _pending
  box,       \* what is in the queue of a waiter
  cpc, cstage, number, back      \* locals of a caller

processVars == <<child, alive, wire, reader, wake>>
clientVars == <<lifecycle, activeTurn, pending, box>>
cRequest == <<number, back>>
cVars == <<processVars, clientVars, cpc, cstage, cRequest>>

\* What a waiter gets; "exited" is the error the reader puts.
Reply == [to: Caller \cup {Nobody},
          is: {"none", "result", "error", "exited", "timeout"}]
Empty == [to |-> Nobody, is |-> "none"]

\* The request a caller is making; "thread" to "delete" are those of a turn.
TurnStage == {"thread", "begin", "loop", "interrupt", "delete"}
CallStage == {"none", "ask"} \cup TurnStage

\* The types of the variables. No process runs but the one in _process.
ClientTypeOK ==
  /\ child \in Process \cup {Nobody}
  /\ alive \subseteq Process \cap {child}
  /\ wire \in [Process -> SUBSET [id: RequestId, from: Caller]]
  /\ reader \in [Process -> {"reading", "waking", "done"}]
  /\ wake \in [Process -> SUBSET RequestId]
  /\ lifecycle \in Caller \cup {Nobody}
  /\ activeTurn \in Caller \cup {Nobody}
  /\ pending \subseteq RequestId
  /\ box \in [RequestId -> Reply]
  /\ cpc \in [Caller -> {"idle", "start", "send", "wait", "back", "loop"}]
  /\ cstage \in [Caller -> CallStage]
  /\ number \in [Caller -> RequestId \cup {Nobody}]
  /\ back \in [Caller -> Reply]

Running == child \in alive

\* _pending_lock is kept across steps only by a reader that wakes waiters.
PendingFree == \A p \in Process : reader[p] # "waking"

FreeProcess ==
  {p \in Process \ alive : reader[p] = "done" /\ wire[p] = {} /\ child # p}

\* A plausible slip in NewNumber: counting from one again after a restart,
\* the way _event_seq does.
NewNumberFromOne(i) == i \notin pending

\* _next_id only grows: a number never comes back while a trace is left.
NewNumber(i) ==
  /\ i \notin pending
  /\ \A p \in Process : i \notin {q.id : q \in wire[p]}

Go(k, p, s) == /\ cpc' = [cpc EXCEPT ![k] = p]
               /\ cstage' = [cstage EXCEPT ![k] = s]

\* A plausible slip in Stop: a child that is forgotten but not terminated.
StopForgets == child' = Nobody /\ activeTurn' = Nobody /\ alive' = alive

\* stop(): the child is forgotten and terminated; nobody is woken.
Stop == /\ alive' = alive \ {child}
        /\ child' = Nobody
        /\ activeTurn' = Nobody

----------------------------------------------------------------------------
(* start                                                                   *)

\* account, models, login, logout, rate_limits, and the interrupt of cancel:
\* one request.
CallOnce(k) ==
  /\ k \in Caller \ Planner /\ cpc[k] = "idle"
  /\ Go(k, "start", "ask")
  /\ UNCHANGED <<processVars, clientVars, cRequest>>

\* complete_json: one turn at a time, under _turn_lock.
CallTurn(k) ==
  /\ k \in Planner /\ cpc[k] = "idle"
  /\ \A j \in Caller : cstage[j] \notin TurnStage
  /\ Go(k, "start", "thread")
  /\ UNCHANGED <<processVars, clientVars, cRequest>>

StartRunning(k) ==
  /\ cpc[k] = "start" /\ lifecycle = Nobody /\ Running
  /\ Go(k, "send", cstage[k])
  /\ UNCHANGED <<processVars, clientVars, cRequest>>

\* A new child; the lifecycle lock is kept for its "initialize".
StartChild(k) ==
  /\ cpc[k] = "start" /\ lifecycle = Nobody /\ ~ Running
  /\ FreeProcess # {}
  /\ child' = CHOOSE p \in FreeProcess : TRUE
  /\ alive' = alive \cup {child'}
  /\ reader' = [reader EXCEPT ![child'] = "reading"]
  /\ activeTurn' = Nobody
  /\ lifecycle' = k
  /\ Go(k, "send", cstage[k])
  /\ UNCHANGED <<wire, wake, pending, box, cRequest>>

\* What the caller of _request does next: ok says whether it got a result,
\* up whether the child runs. The requests at the end of a turn are made
\* only then, and their exceptions are dropped.
AfterRequest(k, ok, up) ==
  CASE cstage[k] = "thread" /\ ok -> Go(k, "start", "begin")
    [] cstage[k] = "begin" /\ ok -> Go(k, "loop", "loop")
    [] cstage[k] = "interrupt" /\ up -> Go(k, "start", "delete")
    [] OTHER -> Go(k, "idle", "none")

ActiveAfter(k, ok) ==
  CASE cstage[k] = "begin" /\ ok -> k
    [] cstage[k] = "interrupt" -> Nobody
    [] OTHER -> activeTurn

\* The codex command is not found, or its directories cannot be made.
StartFails(k) ==
  /\ cpc[k] = "start" /\ lifecycle = Nobody /\ ~ Running
  /\ child' = Nobody
  /\ activeTurn' = Nobody
  /\ AfterRequest(k, FALSE, FALSE)
  /\ UNCHANGED <<alive, wire, reader, wake, lifecycle, pending, box, cRequest>>

----------------------------------------------------------------------------
(* _request                                                                *)

\* The request of k failed or succeeded. When it was "initialize", start()
\* goes on to the request it was made for, or stops the child and raises.
EndRequest(k, ok) ==
  \/ /\ lifecycle = k /\ ok
     /\ lifecycle' = Nobody
     /\ Go(k, "send", cstage[k])
     /\ UNCHANGED <<alive, child, activeTurn>>
  \/ /\ lifecycle = k /\ ~ ok
     /\ Stop
     /\ lifecycle' = Nobody
     /\ AfterRequest(k, FALSE, FALSE)
  \/ /\ lifecycle # k
     /\ AfterRequest(k, ok, Running)
     /\ activeTurn' = ActiveAfter(k, ok)
     /\ UNCHANGED <<alive, child, lifecycle>>

\* A waiter is registered and the line is written.
SendRequest(k) ==
  /\ cpc[k] = "send" /\ PendingFree /\ Running
  /\ \E i \in RequestId :
       /\ NewNumber(i) /\ \A j \in RequestId : NewNumber(j) => i <= j
       /\ pending' = pending \cup {i}
       /\ box' = [box EXCEPT ![i] = Empty]
       /\ wire' = [wire EXCEPT ![child] = @ \cup {[id |-> i, from |-> k]}]
       /\ number' = [number EXCEPT ![k] = i]
  /\ Go(k, "wait", cstage[k])
  /\ UNCHANGED <<child, alive, reader, wake, lifecycle, activeTurn, back>>

\* _send_raw raises: the child is gone. The waiter is taken back at once.
SendFails(k) ==
  /\ cpc[k] = "send" /\ PendingFree /\ ~ Running
  /\ EndRequest(k, FALSE)
  /\ UNCHANGED <<wire, reader, wake, pending, box, cRequest>>

\* waiter.get returns.
TakeAnswer(k) ==
  /\ cpc[k] = "wait" /\ box[number[k]] # Empty
  /\ back' = [back EXCEPT ![k] = box[number[k]]]
  /\ box' = [box EXCEPT ![number[k]] = Empty]
  /\ Go(k, "back", cstage[k])
  /\ UNCHANGED <<processVars, lifecycle, activeTurn, pending, number>>

\* A plausible slip in TimeOut: waiting without a timeout.
TimeOutNever(k) == FALSE /\ UNCHANGED cVars

\* waiter.get raises queue.Empty.
TimeOut(k) ==
  /\ cpc[k] = "wait" /\ box[number[k]] = Empty
  /\ back' = [back EXCEPT ![k].is = "timeout"]
  /\ Go(k, "back", cstage[k])
  /\ UNCHANGED <<processVars, clientVars, number>>

\* A plausible slip in Clean: the waiter is taken back on success only.
CleanOnSuccess(k) ==
  /\ cpc[k] = "back" /\ PendingFree
  /\ pending' = IF back[k].is = "result" THEN pending \ {number[k]} ELSE pending
  /\ box' = [box EXCEPT ![number[k]] = Empty]
  /\ number' = [number EXCEPT ![k] = Nobody]
  /\ back' = [back EXCEPT ![k] = Empty]
  /\ EndRequest(k, back[k].is = "result")
  /\ UNCHANGED <<wire, reader, wake>>

\* The finally block of _request.
Clean(k) ==
  /\ cpc[k] = "back" /\ PendingFree
  /\ pending' = pending \ {number[k]}
  /\ box' = [box EXCEPT ![number[k]] = Empty]
  /\ number' = [number EXCEPT ![k] = Nobody]
  /\ back' = [back EXCEPT ![k] = Empty]
  /\ EndRequest(k, back[k].is = "result")
  /\ UNCHANGED <<wire, reader, wake>>

\* The event loop of complete_json ends: with the plan, with an error, after
\* ten minutes, or because the turn was interrupted. It does not see that the
\* child has gone.
LoopEnds(k) ==
  /\ cpc[k] = "loop"
  /\ \/ Running /\ Go(k, "start", "interrupt") /\ activeTurn' = activeTurn
     \/ Running /\ Go(k, "start", "delete") /\ activeTurn' = Nobody
     \/ ~ Running /\ Go(k, "idle", "none") /\ activeTurn' = Nobody
  /\ UNCHANGED <<processVars, lifecycle, pending, box, cRequest>>

----------------------------------------------------------------------------
(* The pool, the child process and the reader thread                       *)

\* get, evict_idle, drop and close_all stop a client, whoever uses it.
StopByPool ==
  /\ lifecycle = Nobody /\ child # Nobody
  /\ Stop
  /\ UNCHANGED <<wire, reader, wake, lifecycle, pending, box, cpc, cstage,
                 cRequest>>

Die(p) ==
  /\ p \in alive /\ alive' = alive \ {p}
  /\ UNCHANGED <<child, wire, reader, wake, clientVars, cpc, cstage, cRequest>>

\* The reader reads an answer, perhaps after its process was replaced. One
\* without the id the caller needs is as good as an error.
Deliver(p) ==
  /\ reader[p] = "reading" /\ PendingFree
  /\ \E q \in wire[p], is \in {"result", "error"} :
       /\ q.id \in pending /\ box[q.id] = Empty
       /\ box' = [box EXCEPT ![q.id] = [to |-> q.from, is |-> is]]
       /\ wire' = [wire EXCEPT ![p] = @ \ {q}]
  /\ UNCHANGED <<child, alive, reader, wake, lifecycle, activeTurn, pending,
                 cpc, cstage, cRequest>>

\* An answer nobody waits for any more is dropped; so is, in the model, one
\* that never comes.
DeliverLate(p) ==
  /\ reader[p] = "reading" /\ PendingFree
  /\ \E q \in wire[p] :
       /\ q.id \notin pending
       /\ wire' = [wire EXCEPT ![p] = @ \ {q}]
  /\ UNCHANGED <<child, alive, reader, wake, clientVars, cpc, cstage, cRequest>>

\* End of the pipe. Only the reader of the current child wakes the waiters.
ReaderEnds(p) ==
  /\ reader[p] = "reading" /\ p \notin alive
  /\ \/ /\ child # p
        /\ reader' = [reader EXCEPT ![p] = "done"]
        /\ wake' = wake
     \/ /\ child = p /\ PendingFree
        /\ reader' = [reader EXCEPT ![p] = "waking"]
        /\ wake' = [wake EXCEPT ![p] = pending]
  /\ wire' = [wire EXCEPT ![p] = {}]
  /\ UNCHANGED <<child, alive, clientVars, cpc, cstage, cRequest>>

\* waiter.put(error) blocks while the queue of the waiter is full.
Wake(p) ==
  /\ reader[p] = "waking"
  /\ \/ \E i \in wake[p] :
          /\ box[i] = Empty
          /\ box' = [box EXCEPT ![i] = [to |-> Nobody, is |-> "exited"]]
          /\ wake' = [wake EXCEPT ![p] = @ \ {i}]
          /\ reader' = reader
     \/ /\ wake[p] = {}
        /\ reader' = [reader EXCEPT ![p] = "done"]
        /\ UNCHANGED <<box, wake>>
  /\ UNCHANGED <<child, alive, wire, lifecycle, activeTurn, pending, cpc,
                 cstage, cRequest>>

----------------------------------------------------------------------------
ClientInit ==
  /\ child = Nobody /\ alive = {} /\ wire = [p \in Process |-> {}]
  /\ reader = [p \in Process |-> "done"] /\ wake = [p \in Process |-> {}]
  /\ lifecycle = Nobody /\ activeTurn = Nobody /\ pending = {}
  /\ box = [i \in RequestId |-> Empty]
  /\ cpc = [k \in Caller |-> "idle"] /\ cstage = [k \in Caller |-> "none"]
  /\ number = [k \in Caller |-> Nobody] /\ back = [k \in Caller |-> Empty]

\* What a caller does once it was called, and what a reader does unasked.
CallerStep(k) ==
  \/ StartRunning(k) \/ StartChild(k) \/ StartFails(k)
  \/ SendRequest(k) \/ SendFails(k) \/ TakeAnswer(k) \/ TimeOut(k) \/ Clean(k)
  \/ LoopEnds(k)
ReaderStep(p) == DeliverLate(p) \/ ReaderEnds(p) \/ Wake(p)

ClientNext ==
  \/ \E k \in Caller : CallOnce(k) \/ CallTurn(k) \/ CallerStep(k)
  \/ StopByPool
  \/ \E p \in Process : Deliver(p) \/ Die(p) \/ ReaderStep(p)

\* Threads of the server run and locks are handed on; readers read to the end
\* of their pipe. A child need never answer, and nobody need stop it. (A
\* question that is never answered leaves the wire by DeliverLate: that
\* request numbers do not run out is all its fairness says.)
ClientFairness ==
  /\ \A k \in Caller : SF_cVars(CallerStep(k))
  /\ \A p \in Process : SF_cVars(ReaderStep(p))

ClientSpec == ClientInit /\ [][ClientNext]_cVars
ClientFairSpec == ClientSpec /\ ClientFairness

----------------------------------------------------------------------------
\* Every answer a caller takes is the answer to its own question, though
\* answers come late, after a timeout, and from a child that was replaced.
AnswersFit ==
  \A k \in Caller : cpc[k] = "back" => back[k].to \in {k, Nobody}

\* Whatever is registered belongs to a call that is not over: a request or a
\* turn left behind would keep the pool from ever evicting the client.
NothingLeftBehind ==
  /\ \A i \in pending :
       \E k \in Caller : number[k] = i /\ cpc[k] \in {"wait", "back"}
  /\ activeTurn # Nobody => cstage[activeTurn] \in {"loop", "interrupt"}

\* A reader whose error goes into the queue of a waiter that timed out and was
\* answered after that: it keeps _pending_lock and waits for ever.
Stuck ==
  \E p \in Process, k \in Caller :
    /\ reader[p] = "waking"
    /\ cpc[k] = "back" /\ number[k] \in wake[p] /\ box[number[k]] # Empty

\* Every call returns: a child that never answers, that ends, or that is
\* stopped under its callers costs them a timeout. The one exception is Stuck.
CallersReturn == \A k \in Caller : cpc[k] # "idle" ~> (cpc[k] = "idle" \/ Stuck)

=============================================================================
