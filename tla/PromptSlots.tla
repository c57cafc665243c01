----------------------------- MODULE PromptSlots -----------------------------
(***************************************************************************)
(* The modelling turns of all projects of the web server (routes/ai.py,    *)
(* execute_prompt_sync and cancel_prompt; main.py, project_socket): one    *)
(* turn per project, a bounded number of them at a time, cancellation by   *)
(* the user, and websockets that go away during their turn. What a turn    *)
(* does to the model is in AiTurn.                                         *)
(***************************************************************************)
EXTENDS Naturals, FiniteSets

CONSTANTS
  Space,     \* the projects that prompts are about
  Turn,      \* threads that run prompts
  MaxSlots,  \* settings.max_concurrent_ai_turns
  NoTurn

ASSUME SlotsAssumption ==
  MaxSlots \in Nat \ {0} /\ NoTurn \notin Turn /\ Space # {}

VARIABLES
  events,    \* cancel_events: the turn whose event a project has
  isSet,     \* turns whose event is set
  agents,    \* active_agents: the turn whose agent a project has
  free,      \* the count of the semaphore ai_turn_slots
  space,     \* project of a turn that is not idle
  step,      \* where a turn is
  socket,    \* websocket of a project: its active_task, or "closed"
  warned     \* turns that were cancelled before they began to edit

slVars == <<events, isSet, agents, free, space, step, socket, warned>>

\* Steps of a turn that has registered its event, that holds a slot, and that
\* may change the model.
Registered == {"waiting", "checking", "body", "planning", "executing",
               "saving", "ending", "leaving"}
HoldsSlot == Registered \ {"waiting", "leaving"}
Working == {"planning", "executing", "saving"}
Holders == {t \in Turn : step[t] \in HoldsSlot}

\* The types of the variables. The semaphore and the turns that hold a slot
\* add up.
SlotsTypeOK ==
  /\ events \in [Space -> Turn \cup {NoTurn}]
  /\ isSet \subseteq Turn
  /\ agents \in [Space -> Turn \cup {NoTurn}]
  /\ free \in 0..MaxSlots
  /\ space \in [Turn -> Space]
  /\ step \in [Turn -> {"idle", "sent"} \cup Registered]
  /\ socket \in [Space -> Turn \cup {NoTurn, "closed"}]
  /\ warned \subseteq Turn
  /\ free + Cardinality(Holders) = MaxSlots

Move(t, s) == step' = [step EXCEPT ![t] = s]

----------------------------------------------------------------------------
\* A prompt arrives, over http or over the websocket of its project, which
\* makes one at a time; a thread of the executor will run it.
SendPrompt(t, p) ==
  /\ step[t] = "idle"
  /\ space' = [space EXCEPT ![t] = p]
  /\ Move(t, "sent")
  /\ \/ socket' = socket
     \/ socket[p] = NoTurn /\ socket' = [socket EXCEPT ![p] = t]
  /\ UNCHANGED <<events, isSet, agents, free, warned>>

Somewhere == CHOOSE p \in Space : TRUE

\* The call of the turn returns; its websocket may take the next prompt.
LeaveSocket(t) ==
  /\ space' = [space EXCEPT ![t] = Somewhere]
  /\ socket' = [p \in Space |-> IF socket[p] = t THEN NoTurn ELSE socket[p]]

Register(t) ==
  /\ step[t] = "sent" /\ events[space[t]] = NoTurn
  /\ events' = [events EXCEPT ![space[t]] = t]
  /\ Move(t, "waiting")
  /\ UNCHANGED <<isSet, agents, free, space, socket, warned>>

\* A plausible slip in Refuse: the cleanup of a turn that never registered.
RefuseCleans(t) ==
  /\ step[t] = "sent" /\ events[space[t]] # NoTurn
  /\ events' = [events EXCEPT ![space[t]] = NoTurn]
  /\ Move(t, "idle")
  /\ LeaveSocket(t)
  /\ UNCHANGED <<isSet, agents, free, warned>>

\* "A modeling task is already running in this project."
Refuse(t) ==
  /\ step[t] = "sent" /\ events[space[t]] # NoTurn
  /\ Move(t, "idle")
  /\ LeaveSocket(t)
  /\ UNCHANGED <<events, isSet, agents, free, warned>>

Acquire(t) ==
  /\ step[t] = "waiting" /\ free > 0
  /\ free' = free - 1
  /\ Move(t, "checking")
  /\ UNCHANGED <<events, isSet, agents, space, socket, warned>>

\* A plausible slip in GiveUp: acquire without a timeout.
GiveUpNever(t) == FALSE /\ UNCHANGED slVars

\* No slot within ten seconds.
GiveUp(t) ==
  /\ step[t] = "waiting"
  /\ Move(t, "leaving")
  /\ UNCHANGED <<events, isSet, agents, free, space, socket, warned>>

\* A plausible slip in CheckEvent: no look at the event after the wait.
CheckEventNever(t) ==
  /\ step[t] = "checking"
  /\ Move(t, "body")
  /\ UNCHANGED <<events, isSet, agents, free, space, socket, warned>>

\* The event may have been set while the turn waited for its slot.
CheckEvent(t) ==
  /\ step[t] = "checking"
  /\ Move(t, IF t \in isSet THEN "ending" ELSE "body")
  /\ UNCHANGED <<events, isSet, agents, free, space, socket, warned>>

\* The agent is made known; then the turn waits for operation_lock and plans.
Plan(t) ==
  /\ step[t] = "body"
  /\ agents' = [agents EXCEPT ![space[t]] = t]
  /\ Move(t, "planning")
  /\ UNCHANGED <<events, isSet, free, space, socket, warned>>

\* guarded_event: every report of progress raises once the event is set.
Report(t) ==
  /\ \/ step[t] = "planning" /\ t \notin isSet /\ Move(t, "executing")
     \/ step[t] = "executing" /\ t \notin isSet /\ Move(t, "saving")
     \/ /\ step[t] \in {"planning", "executing"} /\ t \in isSet
        /\ Move(t, "ending")
  /\ UNCHANGED <<events, isSet, agents, free, space, socket, warned>>

\* The turn fails, or it is saved and its messages are stored.
BodyEnds(t) ==
  /\ step[t] \in Working \cup {"body"}
  /\ Move(t, "ending")
  /\ UNCHANGED <<events, isSet, agents, free, space, socket, warned>>

\* A plausible slip in EndSlot: the slot of a cancelled turn is not released.
EndSlotUnlessCancelled(t) ==
  /\ step[t] = "ending"
  /\ agents' = [p \in Space |-> IF agents[p] = t THEN NoTurn ELSE agents[p]]
  /\ free' = IF t \in isSet THEN free ELSE free + 1
  /\ Move(t, "leaving")
  /\ UNCHANGED <<events, isSet, space, socket, warned>>

\* The two finally blocks: the agent is forgotten and the slot is released ...
EndSlot(t) ==
  /\ step[t] = "ending"
  /\ agents' = [p \in Space |-> IF agents[p] = t THEN NoTurn ELSE agents[p]]
  /\ free' = free + 1
  /\ Move(t, "leaving")
  /\ UNCHANGED <<events, isSet, space, socket, warned>>

\* ... and then, under cancel_lock, the event is removed.
EndEvent(t) ==
  /\ step[t] = "leaving"
  /\ events' = [p \in Space |-> IF events[p] = t THEN NoTurn ELSE events[p]]
  /\ isSet' = isSet \ {t}
  /\ warned' = warned \ {t}
  /\ Move(t, "idle")
  /\ LeaveSocket(t)
  /\ UNCHANGED <<agents, free>>

----------------------------------------------------------------------------
\* cancel_prompt sets the event of whatever turn the project has. A prompt
\* whose thread has not registered yet is not found.
CancelPrompt(p) ==
  LET t == events[p] IN
  IF t = NoTurn
  THEN UNCHANGED <<isSet, warned>>
  ELSE /\ isSet' = isSet \cup {t}
       /\ warned' = IF step[t] \in {"waiting", "checking"}
                    THEN warned \cup {t} ELSE warned

Cancel(p) ==
  /\ CancelPrompt(p)
  /\ UNCHANGED <<events, agents, free, space, step, socket>>

Connect(p) ==
  /\ socket[p] = "closed"
  /\ socket' = [socket EXCEPT ![p] = NoTurn]
  /\ UNCHANGED <<events, isSet, agents, free, space, step, warned>>

\* The browser is gone: the turn of the socket is cancelled, and its thread
\* is left to itself after five seconds.
Disconnect(p) ==
  /\ socket[p] # "closed"
  /\ IF socket[p] = NoTurn THEN UNCHANGED <<isSet, warned>> ELSE CancelPrompt(p)
  /\ socket' = [socket EXCEPT ![p] = "closed"]
  /\ UNCHANGED <<events, agents, free, space, step>>

----------------------------------------------------------------------------
SlotsInit ==
  /\ events = [p \in Space |-> NoTurn] /\ isSet = {}
  /\ agents = [p \in Space |-> NoTurn] /\ free = MaxSlots
  /\ space = [t \in Turn |-> Somewhere]
  /\ step = [t \in Turn |-> "idle"]
  /\ socket = [p \in Space |-> "closed"] /\ warned = {}

\* What the thread of a turn does; model providers and CAD calls time out.
TurnStep(t) ==
  \/ Register(t) \/ Refuse(t) \/ Acquire(t) \/ GiveUp(t) \/ CheckEvent(t)
  \/ Plan(t) \/ Report(t) \/ BodyEnds(t) \/ EndSlot(t) \/ EndEvent(t)

SlotsNext ==
  \/ \E t \in Turn : TurnStep(t) \/ \E p \in Space : SendPrompt(t, p)
  \/ \E p \in Space : Cancel(p) \/ Connect(p) \/ Disconnect(p)

SlotsFairness == \A t \in Turn : WF_slVars(TurnStep(t))
SlotsSpec == SlotsInit /\ [][SlotsNext]_slVars
SlotsFairSpec == SlotsSpec /\ SlotsFairness

----------------------------------------------------------------------------
\* Two turns never work on the model of one project, and a cancel finds the
\* one that does: whatever turns are refused, give up or end around it.
OneTurnPerProject ==
  \A t \in Turn :
    step[t] \in Registered => /\ events[space[t]] = t
                              /\ agents[space[t]] \in {t, NoTurn}

\* A turn that was cancelled while it waited never begins to work.
CancelledNeverBegins == \A t \in warned : step[t] \notin Working

\* Every prompt ends, so its slot comes back and its project takes the next.
PromptsEnd == \A t \in Turn : step[t] # "idle" ~> step[t] = "idle"

=============================================================================
