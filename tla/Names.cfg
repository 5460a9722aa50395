CONSTANTS
  x = x
  y = y
  l1 = l1
  l2 = l2
  NoName = NoName
  MaxStatements = 5
  SourceKinds = {"block", "empty", "if", "while", "declaration", "expression"}
  Label = {}
  Name = {x, y}
  Params <- OneParam
  Global = {x}
  VoidFunction = TRUE
SPECIFICATION Spec
INVARIANTS
  TypeOK
  LookupFindsInnermostDeclaration
  ResolutionsAgree
  EarlyAllocasKeepEntryValid
PROPERTIES
  AcceptedFunctionsCompile
\* A compilation ends.
CHECK_DEADLOCK FALSE
