SPECIFICATION Spec
CONSTANTS
  Vocabularies <- AllVocabularies
  MaxTokens <- Lengths
INVARIANTS
  ParserTypeOK
  AcceptsWithTheTree
  RefusesNoSentence
PROPERTIES
  ParsingEnds
\* A parse ends.
CHECK_DEADLOCK FALSE
