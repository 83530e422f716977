--------------------------- MODULE MCBfsIterator ---------------------------
(***************************************************************************)
(* Instance of BfsIterator and PhiInserter for TLC.  part tells the loops  *)
(* that read or rewrite the graph from phi_inserter, whose loop collects   *)
(* its tasks.                                                              *)
(***************************************************************************)
EXTENDS PhiInserter

CONSTANT Parts

VARIABLE part

\* Four nodes, and every graph with some of these edges: self loops, cycles
\* through low and high ids, edges into and out of every node.
MCNode == 0..3
MCMayEdge == {<<0, 0>>, <<0, 1>>, <<1, 0>>, <<0, 2>>, <<1, 2>>, <<2, 1>>, <<2, 3>>,
              <<3, 0>>}

\* Besides each single node: no address node, two, and all of them.
MCAddressNodes == {{}, {1, 3}, {0, 2}, MCNode}

\* phi_inserter: a start node with a self loop and a loop through another node, two
\* ways into node 2, and start nodes behind each other.
PhiMayEdge == {<<0, 0>>, <<0, 1>>, <<1, 0>>, <<0, 2>>, <<1, 2>>, <<2, 3>>}

NoPhi == needs = {} /\ handed = {} /\ tasks = <<>> /\ graph = <<>> /\ next_id = 0 /\ pc = "none"

PartInit ==
  /\ part \in Parts
  /\ IF part = "phi" THEN PhiInit /\ edges \subseteq PhiMayEdge ELSE Init /\ NoPhi

PartNext ==
  /\ part' = part
  /\ \/ part = "iterator" /\ Next /\ UNCHANGED phi_vars
     \/ part = "phi" /\ PhiNext

PartSpec == PartInit /\ [][PartNext]_<<part, all_vars>>
=============================================================================
