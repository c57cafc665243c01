CONSTANTS
  Session = {s1, s2, s3}
  NativePath = {part}
  ForeignPath = {step}
  Content = {blank, box}
  Blank = blank
  None = None
  MaxRevision = 5
  MaxHistory = 2
SPECIFICATION Spec
PROPERTY UndoneWorkIsUnsaved
SYMMETRY Symmetry
CHECK_DEADLOCK FALSE
