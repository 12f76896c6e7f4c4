CONSTANTS
  IncludeName <- MCIncludeName
  BasicType <- MCBasicType
  MaxTypedefDepth = 4
  Projects <- MCServices
  NewNames = {"N", "A"}
  RenameAt = {"service"}
  MaxRenames = 2
SPECIFICATION Spec
INVARIANT ReferencesFollow
CHECK_DEADLOCK FALSE
