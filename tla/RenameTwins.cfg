CONSTANTS
  IncludeName <- MCIncludeName
  BasicType <- MCBasicType
  MaxTypedefDepth = 4
  Projects <- MCTwins
  NewNames = {"N", "A"}
  RenameAt = {"definition"}
  MaxRenames = 2
SPECIFICATION Spec
PROPERTY RenameKeepsMeaning
CHECK_DEADLOCK FALSE
