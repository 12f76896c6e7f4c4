CONSTANTS
  Input <- MCInput
  PrintWidth = 8
  TabWidth = 2
SPECIFICATION Spec
INVARIANTS
  PrintsMeaning
PROPERTY MeasuredRight
CHECK_DEADLOCK FALSE
