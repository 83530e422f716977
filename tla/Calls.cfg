\* A jd_manager on every graph of some loops; every program of two instructions, a call
\* and two more; every sequence of three fields a function reads and three its caller
\* writes.
SPECIFICATION PartFairSpec
CONSTANTS
  AddressOf <- MCAddressOf
  None = None
  InitGraphs <- JumpGraphs
  Batches <- JumpBatches
  MaxCommits = 2
  Block <- MCBlock
  Pos <- MCPos
  Parts = {"jump", "short", "deep", "paths", "contexts"}
INVARIANTS LoopsCut AddressExact
INVARIANTS AppSound Passed
PROPERTY Answered
CHECK_DEADLOCK FALSE
