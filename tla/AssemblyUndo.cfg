SPECIFICATION DocumentsSpec
CONSTANTS
  Session = {s1, s2}
  Path = {file1}
  Elsewhere = elsewhere
  Name = {n1}
  Version = {v1, v2}
  None = None
  MaxHistory = 1
  Overwriting = {}
  Raising = TRUE
  Literal = {one, two, zero}
  Bad = {zero}
  Param = {d0, d1}
  MaxSketches = 2
  MaxFeatures = 3
  Kinds = {"box", "fillet", "extrude", "pattern", "base", "flange"}
  MaxCommands = 5
  Edge = {left, right}
  Nothing = Nothing
  Order = {o1}
  Body = {fits, large}
  Fitting = {fits}
  Unfinished = Unfinished
  NoShape = NoShape
  NoMesh = NoMesh
  MaxStamp = 2
  Picture = {b1, b2}
  Blank = Blank
  Unseen = Unseen
  MaxRevision = 2
  MaxComponents = 2
  MaxConstraints = 2
  MaxJoints = 2
  Reach = 1
  MaxPasses = 12
  MaxMoves = 4
  Missing = Missing
INVARIANTS DocumentsTypeOK AssembliesFollow ShapeIsHistory ReferencesResolve
INVARIANTS  HealthTellsTruth SolvingNeverWorsens
INVARIANTS OnlyFinishedIsMade 
PROPERTY ParameterReachesModel
SYMMETRY DocumentsSymmetry
CHECK_DEADLOCK FALSE
