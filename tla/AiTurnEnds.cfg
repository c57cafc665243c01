CONSTANTS
  EditCall = {hole}
  ReadCall = {}
  QuietCall = {topology}
  None = None
  MaxCalls = 2
  MaxRepairs = 2
  MaxModel = 0
  MaxFaults = 1
SPECIFICATION FairSpec
INVARIANT AgentIsToldTheTruth
PROPERTY TurnEnds
