CONSTANTS
  outer = outer
  inner = inner
  x = x
  y = y
  pathA = pathA
  pathB = pathB
  Folder = {outer, inner}
  FolderOrder <- MCOrder
  Root = {outer, inner}
  File = {x, y}
  Within <- MCWithin
  Depth <- MCDepth
  Includes <- MCIncludes
  Config = {outer, inner}
  Project <- MCProject
  Modes <- MCModes
  Initial <- MCInitial
  Batches <- MCBatches
  DirOf <- MCDirOf
  MaxId = 2
  MaxLoads = 3
  MaxEvents = 2
  Inactive = Inactive
  Failed = Failed
  Pending = Pending
  NoView = NoView
  NoRoot = NoRoot
  NoFile = NoFile
SPECIFICATION FairSpec
INVARIANTS
  SnapshotsFollowed
  OwnedTracked
  ShownTracked
  LoadsBelong
PROPERTIES
  LoadsSettle
CHECK_DEADLOCK FALSE
