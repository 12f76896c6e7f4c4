CONSTANTS
  Inputs <- MCInputs
  Passes <- MCPasses
  TabWidth = 4
SPECIFICATION LayoutSpec
INVARIANTS
  NothingLost
  OutputParses
PROPERTY FormattingSettles
CHECK_DEADLOCK FALSE
