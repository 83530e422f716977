\* The graph under every sequence of three operations on at most two nodes, and
\* the decoder on every program of three instructions.
SPECIFICATION PartFairSpec
CONSTANTS
  Parts = {"cfg", "decoder"}
  Graphs <- MCGraphs
  MaxNodes = 2
  MaxOps = 3
  MaxDepth = 2
INVARIANTS InEdgesConverse JdManagerCurrent RecorderCurrent
INVARIANTS Faithful
PROPERTY Settles
CHECK_DEADLOCK FALSE
