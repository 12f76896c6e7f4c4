CONSTANTS
  Inputs <- MCBraces
  Passes <- MCPasses
  TabWidth = 4
SPECIFICATION LayoutSpec
INVARIANT NothingLost
CHECK_DEADLOCK FALSE
