SPECIFICATION PartFairSpec
CONSTANTS
  Parts = {"ordered", "any_order"}
  Node <- MCNode
  Payload <- MCPayload
  InitNodes <- MCInitNodes
  InitGraphs <- OneGraph
  State <- MCState
  Bottom <- MCBottom
  StartState <- MCStartState
  Transform <- MCTransform
  Discovers <- MCDiscovers
  NewPayload <- MCNewPayload
  Join <- MCJoin
  Widen <- WidenTop
  Narrow <- MCNarrow
  Geq <- MCGeq
  JumpDir <- MCJumpDir
  Before <- MCBefore
  Widening = TRUE
  Observed = TRUE
  Changes <- MCChanges
  MaxChanges = 3
INVARIANT TypeOK
INVARIANT Solution
INVARIANT WideningRevisited
INVARIANT Exact
PROPERTY Terminates
PROPERTY Implements
