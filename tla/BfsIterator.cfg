\* The iterator on every graph with some of eight edges, and phi_inserter on every
\* graph with some of six.
SPECIFICATION PartSpec
CONSTANTS
  Parts = {"iterator", "phi"}
  Node <- MCNode
  AddressNodes <- MCAddressNodes
  MayEdge <- MCMayEdge
  MaxRewrites = 1
INVARIANTS Complete AtMostTwice BreadthFirst
INVARIANT PhisInserted
CHECK_DEADLOCK FALSE
