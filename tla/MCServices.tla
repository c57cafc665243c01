----------------------------- MODULE MCServices -----------------------------
(* The services of the web server that share nothing but the process they  *)
(* run in. Each behaviour is of one of them, so that one run of TLC checks *)
(* them all without their product.                                         *)
EXTENDS ProjectRuntimes, PromptSlots, VisualJobs, PlannerRequests

VARIABLE service

ServicesInit ==
  /\ service \in {"runtimes", "slots", "jobs", "planner"}
  /\ RuntimesInit /\ SlotsInit /\ JobsInit /\ RequestsInit

ServicesNext ==
  /\ \/ /\ service = "runtimes" /\ RuntimesNext
        /\ UNCHANGED <<slVars, vjVars, plVars>>
     \/ /\ service = "slots" /\ SlotsNext
        /\ UNCHANGED <<rtVars, vjVars, plVars>>
     \/ /\ service = "jobs" /\ JobsNext
        /\ UNCHANGED <<rtVars, slVars, plVars>>
     \/ /\ service = "planner" /\ RequestsNext
        /\ UNCHANGED <<rtVars, slVars, vjVars>>
  /\ UNCHANGED service

(* The fairness of each, when it is the one that runs.                     *)
ServicesSpec ==
  /\ ServicesInit
  /\ [][ServicesNext]_<<service, rtVars, slVars, vjVars, plVars>>
  /\ \A q \in Request : WF_rtVars(service = "runtimes" /\ RequestStep(q))
  /\ \A p \in Project : WF_rtVars(service = "runtimes" /\ Evict(p))
  /\ \A t \in Turn : WF_slVars(service = "slots" /\ TurnStep(t))
  /\ \A j \in Job : SF_vjVars(service = "jobs" /\ WorkerStep(j))

\* The types of the variables of all services, and that locks, slots and
\* events are held by what is at work.
ServicesTypeOK ==
  RuntimesTypeOK /\ SlotsTypeOK /\ JobsTypeOK /\ RequestsTypeOK
=============================================================================
