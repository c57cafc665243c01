--------------------------- MODULE ServicesProofs ---------------------------
(* Proofs about the services of the web server: PlannerRequests,           *)
(* PromptSlots, VisualJobs and ProjectRuntimes, and MCServices, which has  *)
(* them side by side.                                                      *)
EXTENDS MCServices, FiniteSetTheorems, TLAPS

----------------------------------------------------------------------------
(***************************************************************************)
(* Proofs about PlannerRequests: Stop is heard wherever a turn is on its   *)
(* way to a plan.                                                          *)
(*                                                                         *)
(* The argument: a request that begins after Stop is one that was announced*)
(* before it, and every way on from it passes a report, which raises, or   *)
(* the end of a process without an answer. A process is either killed by   *)
(* the thread that pressed Stop, or that thread found none and says so.    *)
(***************************************************************************)

(* Only a turn of the web server that has begun has its event set.         *)
StopIsWebs == stopSet => host = "web" /\ stage # "new"

(* What was asked for after Stop is the last request of the turn.          *)
LateIsLast ==
  overdue # 0 =>
    /\ stopSet /\ overdue = 1
    /\ stage \in {"answering", "started", "reading", "reaping", "rejected",
                  "stopped", "failed"}
    /\ stage = "reaping" => child \in {"broken", "killed"}

(* A process is registered and runs only while its answer is waited for,   *)
(* or when a report of it raised.                                          *)
ProcessFits ==
  /\ handle => stage \in {"reading", "reaping", "stopped"}
  /\ child = "running" =>
       /\ via = "cli"
       /\ \/ stage \in {"started", "reading", "reaping"}
          \/ stage = "stopped" /\ stopSet

(* After Stop, a process that runs or is about to be started is not        *)
(* forgotten.                                                              *)
StopReaches ==
  /\ stopSet /\ via = "cli"
  /\ child = "running" \/ stage \in {"begun", "asking", "started"}
  => stopping \/ missed

RequestsInv == StopIsWebs /\ LateIsLast /\ ProcessFits /\ StopReaches

(* Every step of the specification, one disjunct per action.               *)
LEMMA RequestCases ==
  ASSUME RequestsNext, NEW P,
         \A h \in {"web", "desktop"}, v \in {"api", "cli"},
            p \in {"plan", "repair"} : BeginRequest(h, v, p) => P,
         RegisterAgent => P, PlanDirectly => P, Retry => P,
         GiveUpPlanning => P, Announce => P, Post => P, Answer => P,
         PostFails => P, Spawn => P, RegisterProcess => P, ReadStarted => P,
         ReadCompleted => P, ReadEnd => P, Reap => P, ChildEnds => P,
         SetStop => P, CancelAgent => P, StopDesktop => P
  PROVE  P
  BY Zenon DEF RequestsNext

LEMMA RequestsInitInv == RequestsInit => RequestsInv
  BY DEF RequestsInit, RequestsInv, StopIsWebs, LateIsLast, ProcessFits,
         StopReaches

LEMMA RequestsStepInv == RequestsInv /\ [RequestsNext]_plVars => RequestsInv'
<1> SUFFICES ASSUME RequestsInv, [RequestsNext]_plVars PROVE RequestsInv'
  OBVIOUS
<1> USE DEF RequestsInv, StopIsWebs, LateIsLast, ProcessFits, StopReaches,
            plKind, plStop
<1>1. CASE UNCHANGED plVars
  BY <1>1 DEF plVars
<1>2. CASE RequestsNext
  <2>1. \A h \in {"web", "desktop"}, v \in {"api", "cli"},
           p \in {"plan", "repair"} : BeginRequest(h, v, p) => RequestsInv'
    BY DEF BeginRequest
  <2>2. RegisterAgent => RequestsInv'
    BY DEF RegisterAgent
  <2>3. PlanDirectly => RequestsInv'
    BY DEF PlanDirectly, Tell
  <2>4. Retry => RequestsInv'
    BY DEF Retry, Tell
  <2>5. GiveUpPlanning => RequestsInv'
    BY DEF GiveUpPlanning
  <2>6. Announce => RequestsInv'
    BY DEF Announce, Tell
  <2>7. Post => RequestsInv'
    BY DEF Post, CountLate
  <2>8. Answer => RequestsInv'
    BY DEF Answer, Judgement
  <2>9. PostFails => RequestsInv'
    BY DEF PostFails
  <2>10. Spawn => RequestsInv'
    BY DEF Spawn, CountLate
  <2>11. RegisterProcess => RequestsInv'
    BY DEF RegisterProcess
  <2>12. ReadStarted => RequestsInv'
    BY DEF ReadStarted, Tell
  <2>13. ReadCompleted => RequestsInv'
    BY DEF ReadCompleted, Tell
  <2>14. ReadEnd => RequestsInv'
    BY DEF ReadEnd
  <2>15. Reap => RequestsInv'
    BY DEF Reap, Judgement
  <2>16. ChildEnds => RequestsInv'
    BY DEF ChildEnds
  <2>17. ASSUME SetStop PROVE RequestsInv'
    <3>1. /\ host = "web" /\ stage \notin {"new"} \cup Over /\ stopSet'
          /\ UNCHANGED <<plKind, stage, attempt, handle, overdue>>
      BY <2>17, Zenon DEF SetStop
    <3>2. CASE stage = "begun"
      <4>1. child' = child /\ missed'
        BY <2>17, <3>2, Zenon DEF SetStop, Cancelled
      <4> QED
        BY <3>1, <3>2, <4>1
    <3>3. CASE stage # "begun"
      <4>1. stopping' /\ UNCHANGED <<child, flag, missed>>
        BY <2>17, <3>3, Zenon DEF SetStop
      <4> QED
        BY <3>1, <3>3, <4>1
    <3> QED
      BY <3>2, <3>3
  <2>18. ASSUME CancelAgent PROVE RequestsInv'
    <3>1. UNCHANGED <<plKind, stage, attempt, stopSet, handle, overdue>>
      BY <2>18, Zenon DEF CancelAgent
    <3>2. child' \in {child, "killed"} /\ (child' = "running" => ~handle)
      <4>1. child' = IF handle /\ child = "running" THEN "killed" ELSE child
        BY <2>18, Zenon DEF CancelAgent, Cancelled
      <4> QED
        BY <4>1
    <3>3. via = "cli" /\ ~handle => missed'
      BY <2>18, Zenon DEF CancelAgent, Cancelled
    <3> QED
      BY <3>1, <3>2, <3>3
  <2>19. StopDesktop => RequestsInv'
    BY DEF StopDesktop, Cancelled, Over
  <2> HIDE DEF RequestsInv
  <2> QED
    BY <1>2, <2>1, <2>2, <2>3, <2>4, <2>5, <2>6, <2>7, <2>8, <2>9, <2>10,
       <2>11, <2>12, <2>13, <2>14, <2>15, <2>16, <2>17, <2>18, <2>19,
       RequestCases, Zenon
<1> QED
  BY <1>1, <1>2

(* StopIsHeard (cancel_prompt, CodexAgent.cancel): a turn of the web server*)
(* that was stopped sends at most the request it was about to send and     *)
(* never goes on with its answer, and a process of the command line that   *)
(* is left running was not there to be killed.                             *)
THEOREM StoppedTurnsEnd == RequestsSpec => []StopIsHeard
<1>1. RequestsInv => StopIsHeard
  BY DEF RequestsInv, StopIsWebs, LateIsLast, ProcessFits, StopReaches,
         StopIsHeard, NoLatePlan, NoProcessLeft, Over
<1> QED
  BY <1>1, RequestsInitInv, RequestsStepInv, PTL DEF RequestsSpec

(* A process that is about to be registered is there.                      *)
RequestsTypes == RequestsTypeOK /\ (stage = "started" => child # "none")

LEMMA RequestsStepTypes ==
  RequestsTypes /\ RequestsInv /\ [RequestsNext]_plVars => RequestsTypes'
<1> SUFFICES ASSUME RequestsTypes, RequestsInv, [RequestsNext]_plVars
             PROVE  RequestsTypes'
  OBVIOUS
<1> USE DEF RequestsTypes, RequestsTypeOK, Over, plKind, plStop
<1>1. CASE UNCHANGED plVars
  BY <1>1 DEF plVars
<1>2. CASE RequestsNext
  <2>1. \A h \in {"web", "desktop"}, v \in {"api", "cli"},
           p \in {"plan", "repair"} : BeginRequest(h, v, p) => RequestsTypes'
    BY DEF BeginRequest
  <2>2. RegisterAgent => RequestsTypes'
    BY DEF RegisterAgent
  <2>3. PlanDirectly => RequestsTypes'
    BY DEF PlanDirectly, Tell
  <2>4. Retry => RequestsTypes'
    BY DEF Retry, Tell
  <2>5. GiveUpPlanning => RequestsTypes'
    BY DEF GiveUpPlanning
  <2>6. ASSUME Announce PROVE RequestsTypes'
    <3>1. flag' \in BOOLEAN
      BY <2>6, Zenon DEF Announce
    <3> QED
      BY <2>6, <3>1 DEF Announce, Tell
  <2>7. ASSUME Post PROVE RequestsTypes'
    <3>1. overdue = 0
      BY <2>7 DEF Post, RequestsInv, LateIsLast
    <3> QED
      BY <2>7, <3>1 DEF Post, CountLate
  <2>8. Answer => RequestsTypes'
    BY DEF Answer, Judgement
  <2>9. PostFails => RequestsTypes'
    BY DEF PostFails
  <2>10. ASSUME Spawn PROVE RequestsTypes'
    <3>1. overdue = 0
      BY <2>10 DEF Spawn, RequestsInv, LateIsLast
    <3>2. handle' \in BOOLEAN
      BY <2>10, Zenon DEF Spawn
    <3>3. handle' => child' # "none"
      BY <2>10, Zenon DEF Spawn
    <3> QED
      BY <2>10, <3>1, <3>2, <3>3 DEF Spawn, CountLate
  <2>11. RegisterProcess => RequestsTypes'
    BY DEF RegisterProcess
  <2>12. ReadStarted => RequestsTypes'
    BY DEF ReadStarted, Tell
  <2>13. ReadCompleted => RequestsTypes'
    BY DEF ReadCompleted, Tell
  <2>14. ReadEnd => RequestsTypes'
    BY DEF ReadEnd
  <2>15. Reap => RequestsTypes'
    BY DEF Reap, Judgement
  <2>16. ChildEnds => RequestsTypes'
    BY DEF ChildEnds
  <2>17. ASSUME NEW found \in BOOLEAN, Cancelled(found)
         PROVE  /\ flag' \in BOOLEAN /\ missed' \in BOOLEAN
                /\ child' \in {child, "killed"}
    <3>1. flag' \in BOOLEAN /\ missed' \in BOOLEAN
      BY <2>17, Zenon DEF Cancelled
    <3>2. child' \in {child, "killed"}
      BY <2>17, Zenon DEF Cancelled
    <3> QED
      BY <3>1, <3>2, Zenon
  <2>18. ASSUME SetStop PROVE RequestsTypes'
    <3>1. stopSet' \in BOOLEAN /\ stopping' \in BOOLEAN
      BY <2>18, Zenon DEF SetStop
    <3>2. /\ flag' \in BOOLEAN /\ missed' \in BOOLEAN
          /\ child' \in {child, "killed"}
      <4>1. CASE stage = "begun"
        BY <2>17, <2>18, <4>1, Zenon DEF SetStop
      <4>2. CASE stage # "begun"
        BY <2>18, <4>2, Zenon DEF SetStop
      <4> QED
        BY <4>1, <4>2
    <3>3. UNCHANGED <<plKind, stage, attempt, handle, overdue>>
      BY <2>18, Zenon DEF SetStop
    <3> QED
      BY <3>1, <3>2, <3>3
  <2>19. ASSUME CancelAgent PROVE RequestsTypes'
    <3>1. /\ stopping' \in BOOLEAN
          /\ UNCHANGED <<plKind, stage, attempt, stopSet, handle, overdue>>
      BY <2>19, Zenon DEF CancelAgent
    <3>2. /\ flag' \in BOOLEAN /\ missed' \in BOOLEAN
          /\ child' \in {child, "killed"}
      BY <2>17, <2>19, Zenon DEF CancelAgent
    <3> QED
      BY <3>1, <3>2
  <2>20. ASSUME StopDesktop PROVE RequestsTypes'
    <3>1. /\ flag' \in BOOLEAN /\ missed' \in BOOLEAN
          /\ child' \in {child, "killed"}
      BY <2>17, <2>20, Zenon DEF StopDesktop
    <3>2. UNCHANGED <<plKind, stage, attempt, stopSet, stopping, handle,
                      overdue>>
      BY <2>20, Zenon DEF StopDesktop
    <3> QED
      BY <3>1, <3>2
  <2> HIDE DEF RequestsTypes
  <2> QED
    BY <1>2, <2>1, <2>2, <2>3, <2>4, <2>5, <2>6, <2>7, <2>8, <2>9, <2>10,
       <2>11, <2>12, <2>13, <2>14, <2>15, <2>16, <2>18, <2>19, <2>20,
       RequestCases, Zenon
<1> QED
  BY <1>1, <1>2

(* RequestsTypeOK: a handle is always of a process that was started.       *)
THEOREM RequestsTypeCorrect == RequestsSpec => []RequestsTypeOK
<1>1. ASSUME RequestsInit PROVE RequestsTypes
  <2>1. /\ stopSet \in BOOLEAN /\ stopping \in BOOLEAN /\ missed \in BOOLEAN
        /\ flag \in BOOLEAN /\ handle \in BOOLEAN
    BY <1>1, Zenon DEF RequestsInit
  <2>2. ~handle
    BY <1>1, Zenon DEF RequestsInit
  <2> QED
    BY <1>1, <2>1, <2>2 DEF RequestsInit, RequestsTypes, RequestsTypeOK
<1>2. RequestsTypes => RequestsTypeOK
  BY DEF RequestsTypes
<1> QED
  BY <1>1, <1>2, RequestsInitInv, RequestsStepInv, RequestsStepTypes, PTL
  DEF RequestsSpec

----------------------------------------------------------------------------
(***************************************************************************)
(* Proofs about PromptSlots, for any projects, any number of threads and   *)
(* any number of slots.                                                    *)
(*                                                                         *)
(* The argument: a turn is registered exactly while its project has its    *)
(* event, an agent is known only while its turn is registered, and a turn  *)
(* that was cancelled before it began keeps its event set and goes to its  *)
(* end. The turns that hold a slot are finitely many, because each of them *)
(* took one.                                                               *)
(***************************************************************************)

(* SlotsTypeOK without the count of the slots.                             *)
SlotTypes ==
  /\ events \in [Space -> Turn \cup {NoTurn}]
  /\ isSet \subseteq Turn
  /\ agents \in [Space -> Turn \cup {NoTurn}]
  /\ space \in [Turn -> Space]
  /\ step \in [Turn -> {"idle", "sent"} \cup Registered]
  /\ socket \in [Space -> Turn \cup {NoTurn, "closed"}]
  /\ warned \subseteq Turn

(* A turn that is registered has the event of its project, and no other    *)
(* turn is behind an event.                                                *)
EventsFit ==
  /\ \A t \in Turn : step[t] \in Registered => events[space[t]] = t
  /\ \A p \in Space : events[p] # NoTurn =>
       step[events[p]] \in Registered /\ space[events[p]] = p

(* An agent belongs to a turn that is registered in that project.          *)
AgentsFit ==
  \A p \in Space : agents[p] # NoTurn =>
    step[agents[p]] \in Working \cup {"ending"} /\ space[agents[p]] = p

(* A turn that was cancelled before it began has its event set, and is on  *)
(* its way out.                                                            *)
WarnedFit ==
  \A t \in warned :
    t \in isSet /\ step[t] \in {"waiting", "checking", "ending", "leaving"}

(* The slots that are free and those that are held add up.                 *)
SlotsAdd ==
  free \in Nat /\ IsFiniteSet(Holders) /\ free + Cardinality(Holders) = MaxSlots

SlotsInv == SlotTypes /\ EventsFit /\ AgentsFit /\ WarnedFit

(* Every step of the specification, one disjunct per action.               *)
LEMMA SlotCases ==
  ASSUME SlotsNext, NEW P,
         \A t \in Turn : Register(t) => P, \A t \in Turn : Refuse(t) => P,
         \A t \in Turn : Acquire(t) => P, \A t \in Turn : GiveUp(t) => P,
         \A t \in Turn : CheckEvent(t) => P, \A t \in Turn : Plan(t) => P,
         \A t \in Turn : Report(t) => P, \A t \in Turn : BodyEnds(t) => P,
         \A t \in Turn : EndSlot(t) => P, \A t \in Turn : EndEvent(t) => P,
         \A t \in Turn, p \in Space : SendPrompt(t, p) => P,
         \A p \in Space : Cancel(p) => P, \A p \in Space : Connect(p) => P,
         \A p \in Space : Disconnect(p) => P
  PROVE  P
  BY Zenon DEF SlotsNext, TurnStep

LEMMA SomewhereIsASpace == Somewhere \in Space
  BY SlotsAssumption DEF Somewhere

LEMMA SlotsInitInv == SlotsInit => SlotsInv /\ SlotsAdd
<1> SUFFICES ASSUME SlotsInit PROVE SlotsInv /\ SlotsAdd
  OBVIOUS
<1>1. SlotsInv
  BY SlotsAssumption, SomewhereIsASpace
  DEF SlotsInit, SlotsInv, SlotTypes, EventsFit, AgentsFit, WarnedFit,
      Registered
<1>2. Holders = {}
  BY DEF SlotsInit, Holders, HoldsSlot, Registered
<1> QED
  BY <1>1, <1>2, SlotsAssumption, FS_EmptySet DEF SlotsInit, SlotsAdd

(* What CancelPrompt does to the events that are set.                      *)
LEMMA CancelKeepsInv ==
  ASSUME SlotsInv, NEW p \in Space, CancelPrompt(p),
         UNCHANGED <<events, agents, space, step>>,
         socket' \in [Space -> Turn \cup {NoTurn, "closed"}]
  PROVE  SlotsInv'
<1> USE DEF SlotsInv, SlotTypes, EventsFit, AgentsFit, WarnedFit
<1>1. CASE events[p] = NoTurn
  BY <1>1 DEF CancelPrompt
<1>2. CASE events[p] # NoTurn
  <2>1. events[p] \in Turn
    BY <1>2
  <2>2. isSet' = isSet \cup {events[p]}
    BY <1>2 DEF CancelPrompt
  <2>3. \/ warned' = warned
        \/ /\ step[events[p]] \in {"waiting", "checking"}
           /\ warned' = warned \cup {events[p]}
    BY <1>2 DEF CancelPrompt
  <2> QED
    BY <2>1, <2>2, <2>3
<1> QED
  BY <1>1, <1>2

LEMMA SlotsStepInv == SlotsInv /\ [SlotsNext]_slVars => SlotsInv'
<1> SUFFICES ASSUME SlotsInv, [SlotsNext]_slVars PROVE SlotsInv'
  OBVIOUS
<1> USE SlotsAssumption
    DEF SlotsInv, SlotTypes, EventsFit, AgentsFit, WarnedFit, Move,
        Registered, Working
<1>1. CASE UNCHANGED slVars
  BY <1>1 DEF slVars
<1>2. CASE SlotsNext
  <2>1. \A t \in Turn : Register(t) => SlotsInv'
    BY DEF Register
  <2>2. \A t \in Turn : Refuse(t) => SlotsInv'
    BY SomewhereIsASpace DEF Refuse, LeaveSocket
  <2>3. \A t \in Turn : Acquire(t) => SlotsInv'
    BY DEF Acquire
  <2>4. \A t \in Turn : GiveUp(t) => SlotsInv'
    BY DEF GiveUp
  <2>5. \A t \in Turn : CheckEvent(t) => SlotsInv'
    BY DEF CheckEvent
  <2>6. \A t \in Turn : Plan(t) => SlotsInv'
    BY DEF Plan
  <2>7. \A t \in Turn : Report(t) => SlotsInv'
    BY DEF Report
  <2>8. \A t \in Turn : BodyEnds(t) => SlotsInv'
    BY DEF BodyEnds
  <2>9. \A t \in Turn : EndSlot(t) => SlotsInv'
    BY DEF EndSlot
  <2>10. \A t \in Turn : EndEvent(t) => SlotsInv'
    BY SomewhereIsASpace DEF EndEvent, LeaveSocket
  <2>11. \A t \in Turn, p \in Space : SendPrompt(t, p) => SlotsInv'
    BY DEF SendPrompt
  <2>12. \A p \in Space : Cancel(p) => SlotsInv'
    BY CancelKeepsInv DEF Cancel
  <2>13. \A p \in Space : Connect(p) => SlotsInv'
    BY DEF Connect
  <2>14. \A p \in Space : Disconnect(p) => SlotsInv'
    BY CancelKeepsInv DEF Disconnect
  <2> HIDE DEF SlotsInv
  <2> QED
    BY <1>2, <2>1, <2>2, <2>3, <2>4, <2>5, <2>6, <2>7, <2>8, <2>9, <2>10,
       <2>11, <2>12, <2>13, <2>14, SlotCases, Zenon
<1> QED
  BY <1>1, <1>2

(* A turn that takes a slot is not among those that hold one, and one that *)
(* gives its slot back is.                                                 *)
LEMMA SlotsStepAdd ==
  SlotsInv /\ SlotsAdd /\ [SlotsNext]_slVars => SlotsAdd'
<1> SUFFICES ASSUME SlotsInv, SlotsAdd, [SlotsNext]_slVars PROVE SlotsAdd'
  OBVIOUS
<1> DEFINE Same == free' = free /\ Holders' = Holders
<1>1. Same => SlotsAdd'
  BY DEF SlotsAdd
<1>2. CASE UNCHANGED slVars
  BY <1>1, <1>2 DEF slVars, Holders
<1>3. CASE SlotsNext
  <2>1. SlotTypes
    BY DEF SlotsInv
  <2> USE <2>1 DEF SlotTypes, Holders, HoldsSlot, Registered, Move
  <2>2. \A t \in Turn : Register(t) => Same
    BY DEF Register
  <2>3. \A t \in Turn : Refuse(t) => Same
    BY DEF Refuse
  <2>4. ASSUME NEW t \in Turn, Acquire(t) PROVE SlotsAdd'
    <3>1. t \notin Holders /\ Holders' = Holders \cup {t}
      BY <2>4 DEF Acquire
    <3> HIDE <2>1 DEF Holders, SlotTypes
    <3>2. /\ IsFiniteSet(Holders')
          /\ Cardinality(Holders') = Cardinality(Holders) + 1
      BY <3>1, FS_AddElement DEF SlotsAdd
    <3>3. free' = free - 1 /\ free \in Nat /\ free > 0
      BY <2>4 DEF Acquire, SlotsAdd
    <3>4. Cardinality(Holders) \in Nat
      BY FS_CardinalityType DEF SlotsAdd
    <3> QED
      BY <3>2, <3>3, <3>4 DEF SlotsAdd
  <2>5. \A t \in Turn : GiveUp(t) => Same
    BY DEF GiveUp
  <2>6. \A t \in Turn : CheckEvent(t) => Same
    BY DEF CheckEvent
  <2>7. \A t \in Turn : Plan(t) => Same
    BY DEF Plan
  <2>8. \A t \in Turn : Report(t) => Same
    BY DEF Report
  <2>9. \A t \in Turn : BodyEnds(t) => Same
    BY DEF BodyEnds, Working
  <2>10. ASSUME NEW t \in Turn, EndSlot(t) PROVE SlotsAdd'
    <3>1. t \in Holders /\ Holders' = Holders \ {t}
      BY <2>10 DEF EndSlot
    <3> HIDE <2>1 DEF Holders, SlotTypes
    <3>2. /\ IsFiniteSet(Holders')
          /\ Cardinality(Holders') = Cardinality(Holders) - 1
      BY <3>1, FS_RemoveElement DEF SlotsAdd
    <3>3. free' = free + 1 /\ free \in Nat
      BY <2>10 DEF EndSlot, SlotsAdd
    <3>4. Cardinality(Holders) \in Nat
      BY FS_CardinalityType DEF SlotsAdd
    <3> QED
      BY <3>2, <3>3, <3>4 DEF SlotsAdd
  <2>11. \A t \in Turn : EndEvent(t) => Same
    BY DEF EndEvent
  <2>12. \A t \in Turn, p \in Space : SendPrompt(t, p) => Same
    BY DEF SendPrompt
  <2>13. \A p \in Space : Cancel(p) => Same
    BY DEF Cancel
  <2>14. \A p \in Space : Connect(p) => Same
    BY DEF Connect
  <2>15. \A p \in Space : Disconnect(p) => Same
    BY DEF Disconnect
  <2> HIDE DEF Same
  <2> QED
    BY <1>1, <1>3, <2>2, <2>3, <2>4, <2>5, <2>6, <2>7, <2>8, <2>9, <2>10,
       <2>11, <2>12, <2>13, <2>14, <2>15, SlotCases, Zenon
<1> QED
  BY <1>2, <1>3

LEMMA SlotsInvariant == SlotsSpec => [](SlotsInv /\ SlotsAdd)
  BY SlotsInitInv, SlotsStepInv, SlotsStepAdd, PTL DEF SlotsSpec

(* SlotsTypeOK: no slot is lost or given back twice (ai_turn_slots).       *)
THEOREM SlotsTypeCorrect == SlotsSpec => []SlotsTypeOK
<1>1. SlotsInv /\ SlotsAdd => SlotsTypeOK
  <2> SUFFICES ASSUME SlotsInv, SlotsAdd PROVE SlotsTypeOK
    OBVIOUS
  <2>1. Cardinality(Holders) \in Nat
    BY FS_CardinalityType DEF SlotsAdd
  <2>2. free \in 0..MaxSlots
    BY <2>1, SlotsAssumption DEF SlotsAdd
  <2> QED
    BY <2>2 DEF SlotsInv, SlotTypes, SlotsAdd, SlotsTypeOK
<1> QED
  BY <1>1, SlotsInvariant, PTL

(* OneTurnPerProject: a project never has two turns at work, and the event *)
(* and the agent that a cancel finds are those of the one it has           *)
(* (execute_prompt_sync, cancel_prompt).                                   *)
THEOREM TurnsAreAlone == SlotsSpec => []OneTurnPerProject
<1>1. SlotsInv => OneTurnPerProject
  <2> SUFFICES ASSUME SlotsInv, NEW t \in Turn, step[t] \in Registered
               PROVE  /\ events[space[t]] = t
                      /\ agents[space[t]] \in {t, NoTurn}
    BY DEF OneTurnPerProject
  <2>1. events[space[t]] = t /\ space[t] \in Space
    BY DEF SlotsInv, EventsFit, SlotTypes
  <2>2. ASSUME agents[space[t]] # NoTurn PROVE agents[space[t]] = t
    <3> DEFINE u == agents[space[t]]
    <3>1. u \in Turn /\ step[u] \in Registered /\ space[u] = space[t]
      BY <2>1, <2>2 DEF SlotsInv, SlotTypes, AgentsFit, Working, Registered
    <3>2. events[space[u]] = u
      BY <3>1 DEF SlotsInv, EventsFit
    <3> QED
      BY <2>1, <3>1, <3>2
  <2> QED
    BY <2>1, <2>2
<1> QED
  BY <1>1, SlotsInvariant, PTL

(* CancelledNeverBegins: a turn that was cancelled while it waited for its *)
(* slot does not begin, however the cancel and the wait end (ai.py, the    *)
(* look at the event after the wait).                                      *)
THEOREM WaitersHearCancel == SlotsSpec => []CancelledNeverBegins
<1>1. SlotsInv => CancelledNeverBegins
  BY DEF SlotsInv, WarnedFit, CancelledNeverBegins, Working
<1> QED
  BY <1>1, SlotsInvariant, PTL

----------------------------------------------------------------------------
(***************************************************************************)
(* Proofs about VisualJobs, for any number of jobs and of workers.         *)
(*                                                                         *)
(* The argument: what a finished job put into the model is there in every  *)
(* copy of it from which the model could be restored or written, the       *)
(* snapshot of the job that holds the lock included; what a job that was   *)
(* cancelled, or has yet to build, would put there is in none of them.     *)
(***************************************************************************)

(* JobsTypeOK without the count of the workers.                            *)
JobTypes ==
  /\ known \subseteq Job
  /\ status \in [Job -> Status]
  /\ stored \in [Job -> Status \cup {"none"}]
  /\ canceled \subseteq Job
  /\ phase \in [Job -> {"none", "queued", "over"} \cup AtWork]
  /\ engine \subseteq Job /\ ours \subseteq Job /\ workspace \subseteq Job
  /\ late \subseteq Job
  /\ opLock \in Job \cup {NoJob}
  /\ \A j \in Job : phase[j] \in {"build", "saved"} <=> opLock = j

(* A job says it is done, or is about to.                                  *)
Reported(j) ==
  \/ stored[j] = "done"
  \/ j \in known /\ status[j] = "done"
  \/ phase[j] = "report"

(* A job says it was cancelled.                                            *)
Withdrawn(j) ==
  stored[j] = "cancelled" \/ (j \in known /\ status[j] = "cancelled")

Unbuilt(j) == phase[j] \in {"queued", "begin", "extract", "plan"}

(* The snapshot of the job that builds, if there is one, has what the      *)
(* engine had before.                                                      *)
SnapshotFits == opLock # NoJob => ours \subseteq engine

(* What was reported is in every copy of the model.                        *)
ReportedIsKept ==
  \A j \in Job :
    /\ Reported(j) => /\ j \in engine /\ j \in workspace
                      /\ opLock # NoJob => j \in ours
    /\ phase[j] = "saved" => j \in engine /\ j \in workspace

(* What was withdrawn, or not built yet, is in none.                       *)
WithdrawnIsOut ==
  \A j \in Job :
    /\ Withdrawn(j) => phase[j] \in {"none", "over"}
    /\ Withdrawn(j) \/ Unbuilt(j) =>
         /\ j \notin engine /\ j \notin workspace
         /\ opLock # NoJob => j \notin ours
    /\ phase[j] = "build" => j \notin ours /\ j \notin workspace

JobsInv == JobTypes /\ SnapshotFits /\ ReportedIsKept /\ WithdrawnIsOut

(* Every step of the specification, one disjunct per action.               *)
LEMMA JobCases ==
  ASSUME JobsNext, NEW P,
         \A j \in Job : Create(j) => P, \A j \in Job : TakeJob(j) => P,
         \A j \in Job : Begin(j) => P, \A j \in Job : Extract(j) => P,
         \A j \in Job : TakeLock(j) => P, \A j \in Job : Build(j) => P,
         \A j \in Job : PersistResult(j) => P, \A j \in Job : Unlock(j) => P,
         \A j \in Job : Finish(j) => P, \A j \in Job : Fail(j) => P,
         \A j \in Job : Fetch(j) => P, \A j \in Job : CancelJob(j) => P,
         \A j \in Job : Purge(j) => P, Restart => P
  PROVE  P
  BY Zenon DEF JobsNext, WorkerStep

LEMMA JobsInitInv == JobsInit => JobsInv
  BY JobsAssumption
  DEF JobsInit, JobsInv, JobTypes, Status, SnapshotFits, ReportedIsKept,
      WithdrawnIsOut, Reported, Withdrawn, Unbuilt

LEMMA JobsStepInv == JobsInv /\ [JobsNext]_vjVars => JobsInv'
<1> SUFFICES ASSUME JobsInv, [JobsNext]_vjVars PROVE JobsInv'
  OBVIOUS
<1> USE JobsAssumption
    DEF JobsInv, JobTypes, SnapshotFits, ReportedIsKept, WithdrawnIsOut,
        Reported, Withdrawn, Unbuilt, Status, Terminal, AtWork, Enter, Update
<1>1. CASE UNCHANGED vjVars
  BY <1>1 DEF vjVars
<1>2. CASE JobsNext
  <2>1. \A j \in Job : Create(j) => JobsInv'
    BY DEF Create
  <2>2. \A j \in Job : TakeJob(j) => JobsInv'
    BY DEF TakeJob
  <2>3. \A j \in Job : Begin(j) => JobsInv'
    BY DEF Begin
  <2>4. \A j \in Job : Extract(j) => JobsInv'
    BY DEF Extract
  <2>5. \A j \in Job : TakeLock(j) => JobsInv'
    BY DEF TakeLock
  <2>6. \A j \in Job : Build(j) => JobsInv'
    BY DEF Build
  <2>7. \A j \in Job : PersistResult(j) => JobsInv'
    BY DEF PersistResult
  <2>8. \A j \in Job : Unlock(j) => JobsInv'
    BY DEF Unlock
  <2>9. \A j \in Job : Finish(j) => JobsInv'
    BY DEF Finish
  <2>10. \A j \in Job : Fail(j) => JobsInv'
    BY DEF Fail
  <2>11. \A j \in Job : Fetch(j) => JobsInv'
    BY DEF Fetch
  <2>12. \A j \in Job : CancelJob(j) => JobsInv'
    BY DEF CancelJob
  <2>13. \A j \in Job : Purge(j) => JobsInv'
    BY DEF Purge
  <2>14. Restart => JobsInv'
    BY DEF Restart
  <2> HIDE DEF JobsInv
  <2> QED
    BY <1>2, <2>1, <2>2, <2>3, <2>4, <2>5, <2>6, <2>7, <2>8, <2>9, <2>10,
       <2>11, <2>12, <2>13, <2>14, JobCases, Zenon
<1> QED
  BY <1>1, <1>2

(* The jobs at work are finitely many, and not more than the workers.      *)
WorkersFit == IsFiniteSet(Running) /\ Cardinality(Running) <= Workers

LEMMA WorkersInitFit == JobsInit => WorkersFit
<1> SUFFICES ASSUME JobsInit PROVE WorkersFit
  OBVIOUS
<1>1. Running = {}
  BY DEF JobsInit, Running, AtWork
<1> QED
  BY <1>1, JobsAssumption, FS_EmptySet DEF WorkersFit

LEMMA WorkersStepFit ==
  JobsInv /\ WorkersFit /\ [JobsNext]_vjVars => WorkersFit'
<1> SUFFICES ASSUME JobsInv, WorkersFit, [JobsNext]_vjVars PROVE WorkersFit'
  OBVIOUS
<1> DEFINE Fewer == Running' \subseteq Running
<1>1. Fewer => WorkersFit'
  <2> SUFFICES ASSUME Fewer PROVE WorkersFit'
    OBVIOUS
  <2>1. /\ IsFiniteSet(Running')
        /\ Cardinality(Running') <= Cardinality(Running)
    BY FS_Subset DEF WorkersFit
  <2>2. Cardinality(Running) \in Nat /\ Cardinality(Running') \in Nat
    BY <2>1, FS_CardinalityType DEF WorkersFit
  <2> QED
    BY <2>1, <2>2, JobsAssumption DEF WorkersFit
<1>2. CASE UNCHANGED vjVars
  BY <1>1, <1>2 DEF vjVars, Running
<1>3. CASE JobsNext
  <2>1. JobTypes
    BY DEF JobsInv
  <2> USE <2>1 DEF JobTypes, Running, AtWork, Enter
  <2>2. \A j \in Job : Create(j) => Fewer
    BY DEF Create
  <2>3. ASSUME NEW j \in Job, TakeJob(j) PROVE WorkersFit'
    <3>1. Running' = Running \cup {j} /\ j \notin Running
      BY <2>3 DEF TakeJob
    <3>2. Cardinality(Running) < Workers
      BY <2>3 DEF TakeJob
    <3> HIDE <2>1 DEF JobTypes, Running
    <3>3. /\ IsFiniteSet(Running')
          /\ Cardinality(Running') = Cardinality(Running) + 1
      BY <3>1, FS_AddElement DEF WorkersFit
    <3>4. Cardinality(Running) \in Nat
      BY FS_CardinalityType DEF WorkersFit
    <3> QED
      BY <3>2, <3>3, <3>4, JobsAssumption DEF WorkersFit
  <2>4. \A j \in Job : Begin(j) => Fewer
    BY DEF Begin
  <2>5. \A j \in Job : Extract(j) => Fewer
    BY DEF Extract
  <2>6. \A j \in Job : TakeLock(j) => Fewer
    BY DEF TakeLock
  <2>7. \A j \in Job : Build(j) => Fewer
    BY DEF Build
  <2>8. \A j \in Job : PersistResult(j) => Fewer
    BY DEF PersistResult
  <2>9. \A j \in Job : Unlock(j) => Fewer
    BY DEF Unlock
  <2>10. \A j \in Job : Finish(j) => Fewer
    BY DEF Finish
  <2>11. \A j \in Job : Fail(j) => Fewer
    BY DEF Fail
  <2>12. \A j \in Job : Fetch(j) => Fewer
    BY DEF Fetch
  <2>13. \A j \in Job : CancelJob(j) => Fewer
    BY DEF CancelJob
  <2>14. \A j \in Job : Purge(j) => Fewer
    BY DEF Purge
  <2>15. Restart => Fewer
    BY DEF Restart
  <2> HIDE DEF Fewer
  <2> QED
    BY <1>1, <1>3, <2>2, <2>3, <2>4, <2>5, <2>6, <2>7, <2>8, <2>9, <2>10,
       <2>11, <2>12, <2>13, <2>14, <2>15, JobCases, Zenon
<1> QED
  BY <1>2, <1>3

LEMMA JobsInvariant == JobsSpec => [](JobsInv /\ WorkersFit)
  BY JobsInitInv, JobsStepInv, WorkersInitFit, WorkersStepFit, PTL
  DEF JobsSpec

(* JobsTypeOK: the pool never runs more jobs than it has workers, and the  *)
(* operation lock is held by the job that builds (VisualCadJobManager).    *)
THEOREM JobsTypeCorrect == JobsSpec => []JobsTypeOK
<1>1. JobsInv /\ WorkersFit => JobsTypeOK
  BY DEF JobsInv, JobTypes, WorkersFit, JobsTypeOK
<1> QED
  BY <1>1, JobsInvariant, PTL

(* DoneIsDurable: a job that says it is done has its model in              *)
(* workspace.json, whatever other jobs build, fail, restore and write, and *)
(* however often the server restarts (VisualCadJobManager._run).           *)
THEOREM DoneJobsAreDurable == JobsSpec => []DoneIsDurable
<1>1. JobsInv => DoneIsDurable
  BY DEF JobsInv, ReportedIsKept, Reported, DoneIsDurable
<1> QED
  BY <1>1, JobsInvariant, PTL

(* CancelledLeavesModel: a job that says it was cancelled has nothing in   *)
(* the model (_check_cancel and the roll-back of _reconstruct).            *)
THEOREM CancelledJobsLeaveModel == JobsSpec => []CancelledLeavesModel
<1>1. JobsInv => CancelledLeavesModel
  BY DEF JobsInv, WithdrawnIsOut, Withdrawn, CancelledLeavesModel
<1> QED
  BY <1>1, JobsInvariant, PTL

----------------------------------------------------------------------------
(***************************************************************************)
(* Proofs about ProjectRuntimes, for any projects, requests and runtimes.  *)
(*                                                                         *)
(* The argument: what was acknowledged is in every copy of a project from  *)
(* which its model could be restored or written: the engine of the pool,   *)
(* the snapshot an operation would go back to, the snapshot it is about to *)
(* write, and the file. The copies stay together because all requests work *)
(* on the runtime of the pool, which the reaper leaves alone while one of  *)
(* them has it.                                                            *)
(***************************************************************************)

InOperation == {"locked", "edited", "shot"}
Live(p) == deleting[p] = "no"

(* A request has a runtime, of its project, from get to its end, and holds *)
(* the lock of it in between.                                              *)
RequestsFit ==
  \A t \in Request :
    /\ using[t] # Nil <=> at[t] \in {"got"} \cup InOperation
    /\ using[t] # Nil => home[using[t]] = target[t]
    /\ at[t] \in InOperation => lock[using[t]] = t

(* A runtime of the pool is of its project, which has its files unless     *)
(* they are being deleted.                                                 *)
PoolFits ==
  \A p \in Project : items[p] # Nil =>
    /\ home[items[p]] = p
    /\ deleting[p] \in {"no", "asked"} => files[p] # Nil

(* No request is between get and the operation lock of an idle runtime.    *)
IdleFits == \A t \in Request : using[t] \in idle => at[t] # "got"

(* What was acknowledged is in all copies.                                 *)
CopiesFit ==
  /\ \A p \in Project :
       Live(p) /\ items[p] # Nil => acked[p] \subseteq model[items[p]]
  /\ \A t \in Request :
       /\ Live(target[t]) /\ at[t] \in InOperation =>
            acked[target[t]] \subseteq before[t]
       /\ at[t] \in {"edited", "shot"} => t \in model[using[t]]
       /\ at[t] = "shot" => shot[t] = model[using[t]]

RuntimesInv ==
  /\ RuntimesTypeOK /\ RequestsFit /\ PoolFits /\ IdleFits
  /\ OneEnginePerProject /\ CopiesFit /\ AckedSurvives
  /\ ReaperDiesOfDeletion

(* Every step of the specification, one disjunct per action.               *)
LEMMA RuntimeCases ==
  ASSUME RuntimesNext, NEW P,
         \A t \in Request : Check(t) => P,
         \A t \in Request : GetRuntime(t) => P,
         \A t \in Request : Lock(t) => P, \A t \in Request : Edit(t) => P,
         \A t \in Request : OperationFails(t) => P,
         \A t \in Request : Snapshot(t) => P,
         \A t \in Request : Replace(t) => P,
         \A t \in Request : Save(t) => P,
         \A p \in Project : Visit(p) => P, \A p \in Project : Evict(p) => P,
         \A p \in Project : AskDelete(p) => P,
         \A p \in Project : Drop(p) => P, \A p \in Project : DeleteRow(p) => P,
         \A p \in Project : DeleteFiles(p) => P,
         \A r \in Runtime : Age(r) => P, Crash => P
  PROVE  P
  BY Zenon DEF RuntimesNext, RequestStep

LEMMA RuntimesInitInv == RuntimesInit => RuntimesInv
  BY RuntimesAssumption
  DEF RuntimesInit, RuntimesInv, RuntimesTypeOK, RequestsFit, PoolFits,
      IdleFits, OneEnginePerProject, CopiesFit, AckedSurvives,
      ReaperDiesOfDeletion, InOperation, Live, Edits

LEMMA RuntimesStepInv == RuntimesInv /\ [RuntimesNext]_rtVars => RuntimesInv'
<1> SUFFICES ASSUME RuntimesInv, [RuntimesNext]_rtVars PROVE RuntimesInv'
  OBVIOUS
<1> USE RuntimesAssumption
    DEF RuntimesInv, RuntimesTypeOK, RequestsFit, PoolFits, IdleFits,
        OneEnginePerProject, CopiesFit, AckedSurvives, ReaperDiesOfDeletion,
        InOperation, Live, Edits, memory, locals
<1>1. CASE UNCHANGED rtVars
  BY <1>1 DEF rtVars
<1>2. CASE RuntimesNext
  <2>1. \A t \in Request : Check(t) => RuntimesInv'
    BY DEF Check
  <2>2. ASSUME NEW t \in Request, GetRuntime(t) PROVE RuntimesInv'
    <3>1. PICK r \in Runtime :
            /\ Get(target[t], r) /\ using' = [using EXCEPT ![t] = r]
      BY <2>2 DEF GetRuntime
    <3>2. /\ at[t] = "owned" /\ at' = [at EXCEPT ![t] = "got"]
          /\ idle' = idle \ {r}
          /\ UNCHANGED <<rows, lock, kind, target, shot, before, reaper,
                         deleting, acked>>
      BY <2>2, <3>1 DEF GetRuntime, Get
    <3>3. CASE items[target[t]] = r /\ UNCHANGED <<items, home, model, files>>
      BY <3>1, <3>2, <3>3
    <3>4. CASE items[target[t]] = Nil /\ r \in Unused /\ Load(target[t], r)
      <4> DEFINE start == IF files[target[t]] = Nil THEN {}
                          ELSE files[target[t]]
      <4>1. /\ target[t] \in Project /\ start \in Edits
            /\ \A p \in Project : items[p] # r
            /\ \A u \in Request : using[u] # r
            /\ home' = [home EXCEPT ![r] = target[t]]
            /\ model' = [model EXCEPT ![r] = start]
            /\ files' = [files EXCEPT ![target[t]] = start]
            /\ items' = [items EXCEPT ![target[t]] = r]
        BY <3>4 DEF Load, Unused
      <4>2. Live(target[t]) => acked[target[t]] \subseteq start
        OBVIOUS
      <4> HIDE DEF start
      <4>3. RuntimesTypeOK' /\ RequestsFit' /\ PoolFits' /\ IdleFits'
        BY <3>1, <3>2, <4>1
      <4>4. OneEnginePerProject' /\ ReaperDiesOfDeletion'
        BY <3>1, <3>2, <3>4, <4>1
      <4>5. CopiesFit'
        BY <3>1, <3>2, <4>1, <4>2
      <4>6. AckedSurvives'
        BY <3>1, <3>2, <4>1, <4>2
      <4> QED
        BY <4>3, <4>4, <4>5, <4>6
    <3> QED
      BY <3>1, <3>3, <3>4 DEF Get, NewRuntime
  <2>3. ASSUME NEW t \in Request, Lock(t) PROVE RuntimesInv'
    <3> DEFINE r == using[t]
    <3>1. /\ at[t] = "got" /\ lock[r] = Nil /\ r \in Runtime
          /\ lock' = [lock EXCEPT ![r] = t]
          /\ before' = [before EXCEPT ![t] = model[r]]
          /\ at' = [at EXCEPT ![t] = "locked"]
          /\ UNCHANGED <<rows, files, items, home, model, idle, kind, target,
                         using, shot, reaper, deleting, acked>>
      BY <2>3 DEF Lock
    <3>2. RuntimesTypeOK' /\ RequestsFit'
      BY <3>1
    <3>3. CopiesFit'
      BY <3>1
    <3> QED
      BY <3>1, <3>2, <3>3
  <2>4. \A t \in Request : Edit(t) => RuntimesInv'
    BY DEF Edit
  <2>5. \A t \in Request : OperationFails(t) => RuntimesInv'
    BY SMTT(60) DEF OperationFails, Forget
  <2>6. \A t \in Request : Snapshot(t) => RuntimesInv'
    BY DEF Snapshot
  <2>7. ASSUME NEW t \in Request, Replace(t) PROVE RuntimesInv'
    <3> DEFINE r == using[t]
               p == target[t]
    <3>1. /\ at[t] = "shot" /\ r \in Runtime /\ p \in Project /\ home[r] = p
          /\ t \in model[r] /\ shot[t] = model[r]
      BY <2>7 DEF Replace
    <3>2. /\ lock' = [lock EXCEPT ![r] = Nil] /\ Forget(t)
          /\ UNCHANGED <<rows, items, home, model, idle, target, reaper,
                         deleting>>
      BY <2>7 DEF Replace
    <3>3. CASE CanPersist(r)
      <4>1. /\ files' = [files EXCEPT ![p] = shot[t]]
            /\ at' = [at EXCEPT ![t] = "done"]
            /\ acked' = [acked EXCEPT ![p] = @ \cup {t}]
        BY <2>7, <3>1, <3>3 DEF Replace, Persisted
      <4>2. RuntimesTypeOK' /\ RequestsFit' /\ PoolFits'
        BY <3>1, <3>2, <4>1 DEF Forget
      <4>3. IdleFits' /\ OneEnginePerProject' /\ ReaperDiesOfDeletion'
        BY <3>1, <3>2, <4>1 DEF Forget
      <4>4. CopiesFit'
        BY <3>1, <3>2, <4>1 DEF Forget
      <4>5. AckedSurvives'
        BY <3>1, <3>2, <4>1 DEF Forget
      <4> QED
        BY <4>2, <4>3, <4>4, <4>5
    <3>4. CASE ~CanPersist(r)
      <4>1. at' = [at EXCEPT ![t] = "failed"] /\ UNCHANGED <<files, acked>>
        BY <2>7, <3>4 DEF Replace
      <4> QED
        BY <3>1, <3>2, <4>1 DEF Forget
    <3> QED
      BY <3>3, <3>4
  <2>8. \A t \in Request : Save(t) => RuntimesInv'
    BY DEF Save, CanPersist, Persisted, Forget
  <2>9. ASSUME NEW p \in Project, Visit(p) PROVE RuntimesInv'
    <3>1. PICK r \in Runtime : Get(p, r)
      BY <2>9 DEF Visit
    <3>2. /\ idle' = idle \ {r}
          /\ UNCHANGED <<rows, lock, locals, reaper, deleting, acked>>
      BY <2>9, <3>1 DEF Visit, Get
    <3>3. CASE items[p] = r /\ UNCHANGED <<items, home, model, files>>
      BY <3>2, <3>3
    <3>4. CASE items[p] = Nil /\ r \in Unused /\ Load(p, r)
      BY <3>2, <3>4 DEF Load, Unused
    <3> QED
      BY <3>1, <3>3, <3>4 DEF Get, NewRuntime
  <2>10. \A p \in Project : Evict(p) => RuntimesInv'
    BY DEF Evict, Stale, ClosePersists, CanPersist, Persisted
  <2>11. \A p \in Project : AskDelete(p) => RuntimesInv'
    BY DEF AskDelete
  <2>12. \A p \in Project : Drop(p) => RuntimesInv'
    BY DEF Drop, ClosePersists, CanPersist, Persisted
  <2>13. \A p \in Project : DeleteRow(p) => RuntimesInv'
    BY DEF DeleteRow
  <2>14. \A p \in Project : DeleteFiles(p) => RuntimesInv'
    BY DEF DeleteFiles
  <2>15. \A r \in Runtime : Age(r) => RuntimesInv'
    BY DEF Age
  <2>16. Crash => RuntimesInv'
    BY DEF Crash
  <2> HIDE DEF RuntimesInv
  <2> QED
    BY <1>2, <2>1, <2>2, <2>3, <2>4, <2>5, <2>6, <2>7, <2>8, <2>9, <2>10,
       <2>11, <2>12, <2>13, <2>14, <2>15, <2>16, RuntimeCases, Zenon
<1> QED
  BY <1>1, <1>2

LEMMA RuntimesInvariant == RuntimesSpec => []RuntimesInv
  BY RuntimesInitInv, RuntimesStepInv, PTL DEF RuntimesSpec

(* RuntimesTypeOK: an operation lock is held by a request in the middle of *)
(* its operation, and by nobody after it.                                  *)
THEOREM RuntimesTypeCorrect == RuntimesSpec => []RuntimesTypeOK
<1>1. RuntimesInv => RuntimesTypeOK
  BY DEF RuntimesInv
<1> QED
  BY <1>1, RuntimesInvariant, PTL

(* AckedSurvives: no edit that was answered with success is lost, through  *)
(* roll-backs, saves without the operation lock, evictions, reloads and    *)
(* crashes (CadRuntime.persist, evict_idle).                               *)
THEOREM NoAckedEditIsLost == RuntimesSpec => []AckedSurvives
<1>1. RuntimesInv => AckedSurvives
  BY DEF RuntimesInv
<1> QED
  BY <1>1, RuntimesInvariant, PTL

(* OneEnginePerProject: the reaper never takes a runtime from under a      *)
(* request, so that no project has two engines (CadRuntimeManager.get,     *)
(* evict_idle).                                                            *)
THEOREM ProjectsHaveOneEngine == RuntimesSpec => []OneEnginePerProject
<1>1. RuntimesInv => OneEnginePerProject
  BY DEF RuntimesInv
<1> QED
  BY <1>1, RuntimesInvariant, PTL

(* ReaperDiesOfDeletion: while no project is deleted the reaper lives      *)
(* (main.py, idle_reaper).                                                 *)
THEOREM OnlyDeletionKillsReaper == RuntimesSpec => []ReaperDiesOfDeletion
<1>1. RuntimesInv => ReaperDiesOfDeletion
  BY DEF RuntimesInv
<1> QED
  BY <1>1, RuntimesInvariant, PTL

----------------------------------------------------------------------------
(***************************************************************************)
(* MCServices: what runs side by side is, seen from each service, that     *)
(* service. So what was proved of it holds of all of them together.        *)
(***************************************************************************)

(* Each behaviour of the services is one of the runtimes, of the slots, of *)
(* the jobs and of the planner: a step of one leaves the others alone.     *)
THEOREM ServicesAreTheirParts ==
  ServicesSpec => RuntimesSpec /\ SlotsSpec /\ JobsSpec /\ RequestsSpec
<1> DEFINE all == <<service, rtVars, slVars, vjVars, plVars>>
<1>1. ServicesInit => RuntimesInit /\ SlotsInit /\ JobsInit /\ RequestsInit
  BY Zenon DEF ServicesInit
<1>2. [ServicesNext]_all =>
        /\ [RuntimesNext]_rtVars /\ [SlotsNext]_slVars
        /\ [JobsNext]_vjVars /\ [RequestsNext]_plVars
  BY Zenon DEF ServicesNext
<1>3. ServicesSpec => ServicesInit /\ [][ServicesNext]_all
  BY PTL DEF ServicesSpec
<1> QED
  BY <1>1, <1>2, <1>3, PTL DEF RuntimesSpec, SlotsSpec, JobsSpec, RequestsSpec

(* ServicesTypeOK: locks, slots, events and processes are held by what is  *)
(* at work, in whichever of the services.                                  *)
THEOREM ServicesTypeCorrect == ServicesSpec => []ServicesTypeOK
<1>1. RuntimesTypeOK /\ SlotsTypeOK /\ JobsTypeOK /\ RequestsTypeOK
        => ServicesTypeOK
  BY Zenon DEF ServicesTypeOK
<1> QED
  BY <1>1, ServicesAreTheirParts, RuntimesTypeCorrect, SlotsTypeCorrect,
     JobsTypeCorrect, RequestsTypeCorrect, PTL
=============================================================================
