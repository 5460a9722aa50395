SPECIFICATION Spec
CONSTANTS
  Vocabularies <- AllVocabularies
  MaxLength <- Lengths
INVARIANTS
  LexerTypeOK
  LocationsFollowPositions
  LoopsReadTheirTokens
PROPERTIES
  LexerImplementsTokenization
  LexingEnds
\* The lexer stops behind the last token.
CHECK_DEADLOCK FALSE
