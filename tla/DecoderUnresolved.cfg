\* The decoder on every program: a jump that could not be followed is kept.
SPECIFICATION PartSpec
CONSTANTS
  Parts = {"decoder"}
  Graphs <- MCGraphs
  MaxNodes = 1
  MaxOps = 0
  MaxDepth = 1
INVARIANT UnresolvedKnown
CHECK_DEADLOCK FALSE
