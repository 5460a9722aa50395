SPECIFICATION Spec
CONSTANTS
  Name = {f, a}
  External = {f}
  NoName = NoName
  Value = {"int"}
  Return = {"int"}
  MaxItems = 2
  MaxParams = 1
  MaxBody = 1
  BlockFunctions = FALSE
INVARIANT ArgumentsAreStored
CHECK_DEADLOCK FALSE
