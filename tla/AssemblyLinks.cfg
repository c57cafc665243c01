CONSTANTS
  Session = {s1, s2, s3}
  Path = {file1, file2, file3}
  Elsewhere = elsewhere
  Name = {n1}
  Version = {v1, v2}
  None = None
  MaxHistory = 0
  Overwriting = {}
  Raising = FALSE
SPECIFICATION PlainSpec
INVARIANTS AssembliesFollow CleanIsSaved
PROPERTIES SaveCommits DiscardReachesParents
SYMMETRY Symmetry
CHECK_DEADLOCK FALSE
