SPECIFICATION CheckedSpec
CONSTANTS
  Tag = {T}
  Name = {p}
  Field = {a, b}
  MaxScopes = 3
  MaxDeclared = 3
  MaxFields = 1
  MaxOperators = 2
SYMMETRY Symmetry
INVARIANTS
  ScopesTypeOK
  ArrowFindsMeaning
  SizeofAcceptsCompleteStructs
PROPERTIES
  ResolutionDiffersOnlyWhereShadowed
  InnerIsOnlyCompleted
\* A program may end anywhere.
CHECK_DEADLOCK FALSE
