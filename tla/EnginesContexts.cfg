\* Contexts for pointers too, and functions the analysis starts with call each other.
SPECIFICATION PartSpec
CONSTANTS
  Parts = {"shared"}
  Node <- MCNode
  MayDepend <- MCMayDepend
INVARIANT ContextsKnown
CHECK_DEADLOCK FALSE
