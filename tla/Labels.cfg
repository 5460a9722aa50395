CONSTANTS
  x = x
  y = y
  l1 = l1
  l2 = l2
  NoName = NoName
  MaxStatements = 5
  SourceKinds = {"block", "while", "labeled", "goto", "return", "return value", "declaration"}
  Label = {l1, l2}
  Name = {x, y}
  Params <- TwoParams
  Global = {}
  VoidFunction = FALSE
SPECIFICATION Spec
INVARIANTS
  BlocksAreComplete
  Invariant
  EarlyAllocasKeepEntryValid
  LabelsIdentifyStatements
\* A compilation ends.
CHECK_DEADLOCK FALSE
