---------------------------- MODULE BfsIterator ----------------------------
(***************************************************************************)
(* cfg::bfs_iterator.  It goes over the nodes of a graph breadth first:    *)
(* from one node, along the edges or against them, or from every address   *)
(* node.  A search from a node is called a component; the next one begins  *)
(* when the queue of the one before has run empty.                         *)
(*                                                                         *)
(* The loops over it read the graph, or rewrite the edges of the node they *)
(* are at before they go on (decomposer).                                  *)
(***************************************************************************)
EXTENDS Naturals, Sequences, FiniteSets, Functions

CONSTANTS Node,         \* ids of the nodes, those created later included
          AddressNodes, \* the sets of nodes that may be the address nodes
          MayEdge,      \* the pairs of nodes there may be an edge between
          MaxRewrites   \* how many nodes a loop rewrites

ASSUME NodeAssumption == Node \subseteq Nat /\ IsFiniteSet(Node)
ASSUME AddressNodesAssumption == AddressNodes \subseteq SUBSET Node
ASSUME MayEdgeAssumption == MayEdge \subseteq Node \X Node
ASSUME MaxRewritesAssumption == MaxRewrites \in Nat

VARIABLES edges,           \* the edges, turned round when the iterator goes backwards
          starts,          \* the nodes components was filled with
          seen, inner_component, components, end,
          rewrites,        \* how many nodes the loop has rewritten
          passed,          \* history: the nodes that were delivered and left
          expanded         \* history: those left by ++, and not by skip since

vars == <<edges, starts, seen, inner_component, components, end,
          rewrites, passed, expanded>>

\* A set of ids in the order std::set and std::map keep it in.
Ascending(S) ==
  {s \in [1..Cardinality(S) -> S] :
     /\ Range(s) = S
     /\ \A i, j \in DOMAIN s : i < j => s[i] < s[j]}

\* check_next_component, for the new values of the containers.
CheckNextComponent(q, cs, sn) ==
  IF q # <<>>
  THEN /\ inner_component' = q
       /\ components' = cs
       /\ end' = FALSE
  ELSE \/ /\ \A i \in DOMAIN cs : cs[i] \in sn
          /\ inner_component' = <<>>
          /\ components' = <<>>
          /\ end' = TRUE
       \/ \E i \in DOMAIN cs :
            /\ cs[i] \notin sn
            /\ \A j \in 1..(i - 1) : cs[j] \in sn
            /\ inner_component' = <<cs[i]>>
            /\ components' = SubSeq(cs, i + 1, Len(cs))
            /\ end' = FALSE

\* The constructors.  Nothing is seen yet, so that the first start node opens
\* the first component.
Init ==
  /\ edges \in SUBSET MayEdge
  /\ starts \in AddressNodes \cup {{n} : n \in Node}
  /\ seen = {}
  /\ \E cs \in Ascending(starts) :
       IF starts = {}
       THEN inner_component = <<>> /\ components = <<>>
       ELSE inner_component = <<Head(cs)>> /\ components = Tail(cs)
  /\ end = (starts = {})
  /\ rewrites = 0
  /\ passed = <<>>
  /\ expanded = {}

\* Faulty variants of Targets: the nodes that are seen already are enqueued
\* again; only the nodes with a greater id are.
TargetsAgain(n) == {m \in Node : <<n, m>> \in edges}
TargetsForward(n) == {m \in Node : <<n, m>> \in edges /\ m \notin seen /\ m > n}

\* The neighbours handle_edge enqueues.
Targets(n) == {m \in Node : <<n, m>> \in edges /\ m \notin seen}

\* Faulty variant of Enqueued: a stack.
EnqueuedInFront(to) == to \o Tail(inner_component)

Enqueued(to) == Tail(inner_component) \o to

\* operator++
Advance ==
  /\ ~end
  /\ LET next == Head(inner_component)
     IN /\ \E to \in Ascending(Targets(next)) :
             CheckNextComponent(Enqueued(to), components, seen \cup Targets(next))
        /\ seen' = seen \cup Targets(next)
        /\ passed' = Append(passed, next)
        /\ expanded' = expanded \cup {next}
  /\ UNCHANGED <<edges, starts, rewrites>>

\* skip
Skip ==
  /\ ~end
  /\ CheckNextComponent(Tail(inner_component), components, seen)
  /\ passed' = Append(passed, Head(inner_component))
  /\ expanded' = expanded \ {Head(inner_component)}
  /\ UNCHANGED <<edges, starts, seen, rewrites>>

\* A node that cfg::create_node has just returned.
Fresh(m) == m \notin starts \cup seen /\ \A e \in edges : m \notin {e[1], e[2]}

\* The body of the loop in decomposer::transform gives the node other edges, and
\* creates nodes with edges for the statements inside a branch or a loop.
Rewrite ==
  /\ ~end
  /\ rewrites < MaxRewrites
  /\ rewrites' = rewrites + 1
  /\ LET n == Head(inner_component)
     IN \E new \in SUBSET {e \in MayEdge : e[1] = n \/ Fresh(e[1])} :
          edges' = {e \in edges : e[1] # n} \cup new
  /\ UNCHANGED <<starts, seen, inner_component, components, end, passed, expanded>>

Next == Advance \/ Skip \/ Rewrite

Spec == Init /\ [][Next]_vars

-----------------------------------------------------------------------------

TypeOK ==
  /\ edges \subseteq Node \X Node
  /\ starts \subseteq Node
  /\ seen \subseteq Node
  /\ inner_component \in Seq(Node)
  /\ components \in Seq(Node)
  /\ end \in BOOLEAN
  /\ end <=> inner_component = <<>>
  /\ end => components = <<>>
  /\ rewrites \in 0..MaxRewrites
  /\ passed \in Seq(Node)
  /\ expanded \subseteq Range(passed)

\* A loop over the nodes misses none: at the end every start node was
\* delivered, and every neighbour of a node left by ++, those included that it
\* got while the loop was there.
Complete ==
  end => /\ starts \subseteq Range(passed)
         /\ \A e \in edges : e[1] \in expanded => e[2] \in Range(passed)

\* A node is delivered once, but for a node a component began with: that one is
\* delivered a second time when the search reaches it over an edge.  A loop over
\* the nodes ends, therefore.
AtMostTwice ==
  \A i, j \in DOMAIN passed : i < j /\ passed[i] = passed[j] =>
    /\ passed[i] \in starts \cap seen
    /\ \A k \in DOMAIN passed : passed[k] = passed[i] => k \in {i, j}

\* The nodes within k edges of the start nodes.
Within[k \in Nat] ==
  IF k = 0 THEN starts
  ELSE Within[k - 1] \cup {m \in Node : \E n \in Within[k - 1] : <<n, m>> \in edges}

\* Nodes come in the order of their distance from the one start node, as long as
\* none is skipped or rewritten; only the start node itself comes once out of turn.
BreadthFirst ==
  Cardinality(starts) = 1 /\ Range(passed) = expanded /\ rewrites = 0 =>
    \A i, j \in DOMAIN passed : \A k \in 0..Cardinality(Node) :
      i < j /\ passed[j] \in Within[k] \ starts => passed[i] \in Within[k]

\* "Set of already visited nodes": what was delivered and left is in seen.
AlreadyVisited == Range(passed) \subseteq seen
=============================================================================
