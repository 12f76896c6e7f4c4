CONSTANTS
  IncludeName <- MCIncludeName
  BasicType <- MCBasicType
  MaxTypedefDepth = 4
  Projects <- MCProjects
  NewNames = {"N", "A"}
  RenameAt = {"definition"}
  MaxRenames = 2
SPECIFICATION Spec
INVARIANTS
  EditsFit
  ReferencesExact
  TypedefsStandForTargets
  CyclesReported
PROPERTY RenameKeepsMeaning
CHECK_DEADLOCK FALSE
