CONSTANTS
  x = x
  y = y
  l1 = l1
  l2 = l2
  NoName = NoName
  MaxStatements = 6
  SourceKinds = {"block", "while", "if", "labeled", "goto", "break", "continue", "expression"}
  Label = {l1}
  Name = {}
  Params <- NoParams
  Global = {}
  VoidFunction = TRUE
SPECIFICATION ExecutionSpec
INVARIANTS
  ExecutionStaysInBlocks
  OneTerminator
  LoopCounterCountsLoops
  ElseBelongsToNearestIf
PROPERTIES
  ImplementsSource
  CompilationEnds
\* A compilation ends.
CHECK_DEADLOCK FALSE
