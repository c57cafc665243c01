SPECIFICATION PartSpec
CONSTANTS
  Literal = {one, two, zero}
  Bad = {zero}
  Param = {d0, d1}
  MaxSketches = 1
  MaxFeatures = 3
  Kinds = {"box", "extrude"}
  MaxCommands = 6
  Edge = {left, right}
  Nothing = Nothing
PROPERTY RefusedChangesNothing
CHECK_DEADLOCK FALSE
