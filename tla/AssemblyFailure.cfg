CONSTANTS
  Session = {s1, s2}
  Path = {file1, file2}
  Elsewhere = elsewhere
  Name = {n1}
  Version = {v1, v2}
  None = None
  MaxHistory = 0
  Overwriting = {}
  Raising = TRUE
SPECIFICATION Spec
PROPERTIES FailedCommandChangesNothing
SYMMETRY Symmetry
CHECK_DEADLOCK FALSE
