CONSTANTS
  EditCall = {hole, fillet}
  ReadCall = {mass}
  QuietCall = {topology}
  None = None
  MaxCalls = 2
  MaxRepairs = 1
  MaxModel = 0
  MaxFaults = 1
SPECIFICATION Spec
INVARIANTS TypeOK DiskIsBetweenTurns
PROPERTIES FailedTurnLeavesModel SuccessIsWhatItReports
SYMMETRY Symmetry
