CONSTANTS
  Inputs <- MCReturn
  Passes <- MCPasses
  TabWidth = 4
SPECIFICATION LayoutSpec
INVARIANT OutputParses
CHECK_DEADLOCK FALSE
