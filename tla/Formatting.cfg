CONSTANTS
  Formats <- MCFormats
  NotParseable = NotParseable
  Columns = {0, 1}
  Context = 1
SPECIFICATION Spec
INVARIANTS
  PositionsMap
  DiffPatches
PROPERTY EditsFormatSelection
CHECK_DEADLOCK FALSE
