CONSTANTS
  File = {1, 2, 3}
  T = "T"
  U = "U"
  Name = {"A", "B", "C", "D", "T", "U"}
  Initial <- Misnamed
  Targets <- MCTargets
  Broken = {3}
  MaxPasses = 10
  AnyFile = AnyFile
SPECIFICATION Spec
INVARIANT NeverOscillates
CHECK_DEADLOCK FALSE
