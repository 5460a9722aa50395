SPECIFICATION Spec
CONSTANTS
  Name = {f, g, h}
  External = {f, g, h}
  NoName = NoName
  Value = {"int"}
  Return = {"int"}
  MaxItems = 2
  MaxParams = 1
  MaxBody = 1
  BlockFunctions = TRUE
SYMMETRY NameSymmetry
INVARIANTS
  AcceptedProgramsCompile
  ArgumentsInRange
CHECK_DEADLOCK FALSE
