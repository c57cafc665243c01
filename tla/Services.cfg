SPECIFICATION ServicesSpec
CONSTANTS
  Project = {p1}
  Request = {q1, q2}
  Runtime = {r1, r2}
  Nil = Nil
  Space = {a, b}
  Turn = {t1, t2, t3}
  MaxSlots = 1
  NoTurn = NoTurn
  Job = {j1, j2}
  Workers = 2
  ImagesAccepted = TRUE
  NoJob = NoJob
INVARIANTS ServicesTypeOK AckedSurvives OneEnginePerProject ReaperDiesOfDeletion
INVARIANTS OneTurnPerProject CancelledNeverBegins StopIsHeard
INVARIANTS DoneIsDurable CancelledLeavesModel
PROPERTIES IdleIsEvicted PromptsEnd JobsEnd
CHECK_DEADLOCK FALSE
