CONSTANTS
  Size = 3
  Input <- MCInput
SPECIFICATION Spec
INVARIANTS
  SkippedForCause
  MadeAtOnce
CHECK_DEADLOCK FALSE
