SPECIFICATION Spec
CONSTANTS
  Name = {f, a}
  External = {f, a}
  NoName = NoName
  Value = {"int"}
  Return = {"int"}
  MaxItems = 3
  MaxParams = 1
  MaxBody = 1
  BlockFunctions = FALSE
SYMMETRY NameSymmetry
INVARIANTS
  LinkageTypeOK
  ArgumentsAreStoredUnlessUnlisted
  DefinedOnce
  ModuleImplementsProgram
CHECK_DEADLOCK FALSE
