------------------------------ MODULE FpRoots ------------------------------
(***************************************************************************)
(* fp_analysis::roots.  The nodes the fixpoint engine starts from are      *)
(* found by a worklist over the dependency graph: the smallest node that   *)
(* was not reached yet is taken for a root, everything reachable from it   *)
(* inside the base set is swept by a breadth first search, and a node      *)
(* taken for a root earlier is withdrawn when a later search reaches it.   *)
(*                                                                         *)
(* A step handles one edge, so the intermediate states of the containers   *)
(* are visible.                                                            *)
(***************************************************************************)
EXTENDS Naturals, Sequences, Dependants

CONSTANTS Node,      \* the analysis nodes, ordered as the numbers are
          MayDepend  \* the pairs that may be recorded as dependencies

ASSUME NodeAssumption == Node \subseteq Nat
ASSUME MayDependAssumption == MayDepend \subseteq Node \X Node

VARIABLES all,    \* the base set, first argument
          deps,   \* dep_dants, second argument
          left,   \* nodes no search has reached
          result, \* the roots found so far
          bfs_q,  \* queue of the search under way
          todo,   \* edges of the node being expanded not handled yet
          pc

vars == <<all, deps, left, result, bfs_q, todo, pc>>

-----------------------------------------------------------------------------

Init == /\ all \in SUBSET Node
        /\ deps \in SUBSET MayDepend
        /\ left = all
        /\ result = {}
        /\ bfs_q = <<>>
        /\ todo = {}
        /\ pc = "outer"

\* The outer loop: left.begin() becomes a root for the time being.
TakeRoot ==
  /\ pc = "outer"
  /\ \E next \in left :
       /\ \A n \in left : next <= n
       /\ left' = left \ {next}
       /\ result' = result \cup {next}
       /\ bfs_q' = <<next>>
  /\ pc' = "search"
  /\ UNCHANGED <<all, deps, todo>>

\* The search takes the next node and looks up its dependants.
Expand ==
  /\ pc = "search"
  /\ bfs_q # <<>>
  /\ todo' = {e \in deps : e[1] = Head(bfs_q)}
  /\ bfs_q' = Tail(bfs_q)
  /\ pc' = "edges"
  /\ UNCHANGED <<all, deps, left, result>>

\* Faulty variant of Reach: only a node reached for the first time is withdrawn.
ReachKeepsStaleRoot(dep_dant) ==
  IF dep_dant \in left
  THEN /\ bfs_q' = Append(bfs_q, dep_dant)
       /\ left' = left \ {dep_dant}
       /\ result' = result \ {dep_dant}
  ELSE UNCHANGED <<left, bfs_q, result>>

\* An edge leads to dep_dant: it is enqueued if it was not reached before, and
\* in any case it is no root.
Reach(dep_dant) ==
  /\ IF dep_dant \in left
     THEN /\ bfs_q' = Append(bfs_q, dep_dant)
          /\ left' = left \ {dep_dant}
     ELSE UNCHANGED <<left, bfs_q>>
  /\ result' = result \ {dep_dant}

\* The inner loop handles the dependants of the node in ascending order.
Handle ==
  /\ pc = "edges"
  /\ \E e \in todo :
       /\ \A d \in todo : e[2] <= d[2]
       /\ todo' = todo \ {e}
       /\ Reach(e[2])
  /\ UNCHANGED <<all, deps, pc>>

EndEdges ==
  /\ pc = "edges"
  /\ todo = {}
  /\ pc' = "search"
  /\ UNCHANGED <<all, deps, left, result, bfs_q, todo>>

EndSearch ==
  /\ pc = "search"
  /\ bfs_q = <<>>
  /\ pc' = "outer"
  /\ UNCHANGED <<all, deps, left, result, bfs_q, todo>>

Return ==
  /\ pc = "outer"
  /\ left = {}
  /\ pc' = "done"
  /\ UNCHANGED <<all, deps, left, result, bfs_q, todo>>

Next == TakeRoot \/ Expand \/ Handle \/ EndEdges \/ EndSearch \/ Return

Spec == Init /\ [][Next]_vars

\* The loops are not interrupted: roots runs to completion on one thread.
FairSpec == Spec /\ WF_vars(Next)

-----------------------------------------------------------------------------

\* The containers keep their types: nothing outside the base set is ever taken
\* for a root or enqueued, although dep_dants may name nodes outside it.
TypeOK == /\ all \in SUBSET Node
          /\ deps \in SUBSET (Node \X Node)
          /\ left \in SUBSET all
          /\ result \in SUBSET all
          /\ bfs_q \in Seq(all)
          /\ todo \in SUBSET deps
          /\ pc \in {"outer", "search", "edges", "done"}

\* Whatever order the nodes are numbered in, roots returns exactly the nodes of
\* the base set on which none of the base set has an edge: a root taken too
\* early is withdrawn when a later search reaches it, also through nodes the
\* search finds already reached, and no other node is ever withdrawn.  The
\* engine's initialisation and its update step rely on it.
RootsCorrect == pc = "done" => result = RootsOf(all, deps)

\* The comment on init_fixpoint_pending calls the roots of the whole graph the
\* set of nodes the engine needs to process to begin with.  For that, a set of
\* nodes that holds the roots and is closed under the edges has to be the
\* whole base set: what no root reaches is never processed.
EveryNodeReached ==
  pc = "done" /\ all = Node =>
    \A S \in SUBSET all :
      (/\ result \subseteq S
       /\ \A e \in deps : e[1] \in S /\ e[2] \in all => e[2] \in S)
      => S = all

\* The search ends on every graph, cyclic ones included.
Terminates == <>(pc = "done")

=============================================================================
