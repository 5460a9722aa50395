SPECIFICATION Spec
CONSTANTS
  TypeOfVariable <- Variables
  Vocabularies <- AllVocabularies
  MaxNodes <- Sizes
  AddressOf <- Layout
  Addresses = {0, 1, 8}
  Integer <- SmallIntegers
INVARIANTS
  AssignmentsHaveTheTypeOfTheLeft
\* The compilation of an expression ends.
CHECK_DEADLOCK FALSE
