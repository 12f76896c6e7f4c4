CONSTANT Source <- MCSource
SPECIFICATION SyntaxSpec
INVARIANTS
  PositionsRight
  Lossless
  ErrorFreeIsGrammatical
  FieldsKept
PROPERTY Progress
CHECK_DEADLOCK FALSE
