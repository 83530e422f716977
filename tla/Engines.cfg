\* The engines, each on every one of its inputs.
SPECIFICATION PartFairSpec
CONSTANTS
  Parts = {"roots", "merged", "tabulated"}
  Node <- MCNode
  MayDepend <- MCMayDepend
INVARIANT RootsCorrect
INVARIANTS Settled NothingGoneIsRead
PROPERTY Ends
CHECK_DEADLOCK FALSE
