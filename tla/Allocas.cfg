CONSTANTS
  x = x
  y = y
  l1 = l1
  l2 = l2
  NoName = NoName
  MaxStatements = 4
  SourceKinds = {"block", "if", "declaration", "expression"}
  Label = {}
  Name = {x}
  Params <- NoParams
  Global = {}
  VoidFunction = TRUE
SPECIFICATION Spec
INVARIANTS
  TerminatorIsLast
\* A compilation ends.
CHECK_DEADLOCK FALSE
