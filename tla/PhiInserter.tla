---------------------------- MODULE PhiInserter ----------------------------
(***************************************************************************)
(* phi_inserter: an edge whose sink is reached by other definitions than   *)
(* it brings is split by a node, and a phi edge leads on from there.       *)
(*                                                                         *)
(* transform collects the tasks in a loop over the nodes, with the         *)
(* iterator of BfsIterator, and then carries them out one by one; update   *)
(* collects them from the edges it is handed.  The payloads are            *)
(* followed: an edge of the given graph has itself for its payload.        *)
(***************************************************************************)
EXTENDS BfsIterator, TLC

ASSUME NodesAreNumbered == Node = 0..(Cardinality(Node) - 1)

VARIABLES needs,    \* the edges reaching definitions ask a phi edge for
          handed,   \* updates, when update was called
          tasks,    \* tasks
          graph,    \* edge_payloads: payload of each edge
          next_id,  \* node_payloads.size()
          pc

phi_vars == <<needs, handed, tasks, graph, next_id, pc>>
all_vars == <<vars, phi_vars>>

PhiEdge == <<>>

\* A set of pairs of ids in the order std::set and std::map keep them in.
Before(d, e) == d[1] < e[1] \/ (d[1] = e[1] /\ d[2] < e[2])
AscendingPairs(S) ==
  {s \in [1..Cardinality(S) -> S] :
     \A i, j \in DOMAIN s : i < j => Before(s[i], s[j])}

PhiInit ==
  /\ Init
  /\ starts \in AddressNodes
  /\ needs \in SUBSET edges
  /\ graph = [e \in edges |-> e]
  /\ next_id = Cardinality(Node)
  /\ tasks = <<>>
  /\ \/ pc = "collect" /\ handed = {}
     \/ pc = "update" /\ handed \in SUBSET edges

\* The edges of a node that task_from_edge makes a task of.
Wanted(n) == {e \in needs : e[1] = n}

\* The body of the loop in transform(), and the ++ after it.
Collect ==
  /\ pc = "collect"
  /\ ~end
  /\ \E new \in AscendingPairs(Wanted(Head(inner_component))) : tasks' = tasks \o new
  /\ Advance
  /\ UNCHANGED <<needs, handed, graph, next_id, pc>>

EndCollect ==
  /\ pc = "collect"
  /\ end
  /\ pc' = "transform"
  /\ UNCHANGED <<vars, needs, handed, tasks, graph, next_id>>

\* The loop of update().
Update ==
  /\ pc = "update"
  /\ tasks' \in AscendingPairs(handed \cap needs)
  /\ pc' = "transform"
  /\ UNCHANGED <<vars, needs, handed, graph, next_id>>

\* Faulty variant of Split: the edge that was split stays.
SplitKeepingEdge(e) == (<<e[1], next_id>> :> graph[e]) @@ (<<next_id, e[2]>> :> PhiEdge) @@ graph

Split(e) ==
  [d \in (DOMAIN graph \ {e}) \cup {<<e[1], next_id>>, <<next_id, e[2]>>} |->
     CASE d = <<e[1], next_id>> -> graph[e]
       [] d = <<next_id, e[2]>> -> PhiEdge
       [] OTHER -> graph[d]]

\* One task of transform(tasks).  The new node is there by the time the edge is
\* looked up; at() throws when there is no such edge.
Transform ==
  /\ pc = "transform"
  /\ tasks # <<>>
  /\ next_id' = next_id + 1
  /\ IF Head(tasks) \in DOMAIN graph
     THEN /\ graph' = Split(Head(tasks))
          /\ tasks' = Tail(tasks)
          /\ pc' = pc
     ELSE /\ pc' = "thrown"
          /\ UNCHANGED <<graph, tasks>>
  /\ UNCHANGED <<vars, needs, handed>>

EndTransform ==
  /\ pc = "transform"
  /\ tasks = <<>>
  /\ pc' = "done"
  /\ UNCHANGED <<vars, needs, handed, tasks, graph, next_id>>

PhiNext == Collect \/ EndCollect \/ Update \/ Transform \/ EndTransform

PhiSpec == PhiInit /\ [][PhiNext]_all_vars

-----------------------------------------------------------------------------

\* transform() fails for one reason only: the iterator delivered a start node
\* twice, and the second task for an edge of that node finds it split already.
\* update() never fails.
ThrowsOnlyOnRevisit ==
  pc = "thrown" =>
    /\ handed = {}
    /\ \E i, j \in DOMAIN passed :
         i < j /\ passed[i] = passed[j] /\ passed[i] = Head(tasks)[1]

\* The edges the tasks were collected from.
Considered == {e \in edges : e \in handed \/ e[1] \in expanded}

\* While the tasks are carried out the edges split so far and those of the tasks left
\* are the edges that need it; each edge split has become one through a node of its own
\* with its payload, and a phi edge; no other edge is touched.  In the end no task is
\* left.  When transform() throws, midway, it is for the one reason above, no edge is
\* half split, and all that is too much is the node made for the task that failed.
PhisInserted ==
  LET split == edges \ DOMAIN graph
      new == DOMAIN graph \ edges
  IN pc \in {"transform", "thrown", "done"} =>
     /\ ThrowsOnlyOnRevisit
     /\ split \cup {tasks[i] : i \in DOMAIN tasks} = Considered \cap needs
     /\ pc = "done" => tasks = <<>>
     /\ \A e \in edges \ split : graph[e] = e
     /\ Cardinality(new) = 2 * Cardinality(split)
     /\ \A e \in split : \E n \in Cardinality(Node)..(next_id - 1) :
          /\ {d \in new : n \in {d[1], d[2]}} = {<<e[1], n>>, <<n, e[2]>>}
          /\ graph[<<e[1], n>>] = e /\ graph[<<n, e[2]>>] = PhiEdge
     /\ next_id = Cardinality(Node) + Cardinality(split) + (IF pc = "thrown" THEN 1 ELSE 0)
=============================================================================
