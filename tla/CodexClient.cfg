SPECIFICATION ClientFairSpec
CONSTANTS
  Caller = {k1, k2}
  Planner = {k1}
  Process = {p1, p2}
  RequestId = {1, 2}
  Nobody = Nobody
INVARIANTS ClientTypeOK AnswersFit NothingLeftBehind
PROPERTIES CallersReturn
CHECK_DEADLOCK FALSE
