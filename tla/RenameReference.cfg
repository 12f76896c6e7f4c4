CONSTANTS
  IncludeName <- MCIncludeName
  BasicType <- MCBasicType
  MaxTypedefDepth = 4
  Projects <- MCServices
  NewNames = {"N", "A"}
  RenameAt = {"type"}
  MaxRenames = 2
SPECIFICATION Spec
INVARIANT EditsFit
CHECK_DEADLOCK FALSE
