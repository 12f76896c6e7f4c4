CONSTANTS
  A = A
  B = B
  File = {A, B}
  Handler = {h1}
  Kinds = {"edit", "load"}
  Includers <- MCIncluders
  MaxGen = 2
  Free = Free
  None = None
  NoFile = NoFile
SPECIFICATION Spec
INVARIANT DroppedResultsReplaced
CHECK_DEADLOCK FALSE
