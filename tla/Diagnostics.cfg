CONSTANTS
  A = A
  B = B
  File = {A, B}
  Handler = {h1, h2}
  Kinds = {"edit", "close", "drop", "delete", "rename", "lose"}
  Includers <- MCIncluders
  MaxGen = 3
  Free = Free
  None = None
  NoFile = NoFile
SPECIFICATION FairSpec
INVARIANTS
  ClearedStayClear
  ReportsKeepUp
  LatestIsShown
PROPERTIES
  NeverBackwards
  ChangesReturn
  LatestIsPublished
CHECK_DEADLOCK FALSE
