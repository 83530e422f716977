-------------------------- MODULE ConstraintSystem --------------------------
(***************************************************************************)
(* What fixpoint::iterate promises its callers, whatever the order it      *)
(* visits the nodes in: each edge of a graph is a constraint on the states *)
(* of its ends; while the engine runs states change one at a time and the  *)
(* graph gets edges and loses none; when it returns, every constraint is   *)
(* solved.  Fixpoint implements it.                                        *)
(***************************************************************************)
EXTENDS Naturals

CONSTANTS Node, State, Bottom, StartState(_), Transform(_,_,_,_), Geq(_,_),
          Observed  \* the engine is told of the edges the graph gets

VARIABLES nodes, payload,  \* the graph: its nodes, and edge -> payload
          state,           \* node -> domain state
          known,           \* the edges the engine knows of
          running          \* iterate has been called and has not returned

vars == <<nodes, payload, state, known, running>>

Edges == DOMAIN payload
InEdges(v) == {u \in nodes : <<u, v>> \in Edges}

\* The state at v satisfies its constraints: what every edge the engine knows
\* of yields or, without an edge, the start state.
SolvedAt(v) ==
  /\ InEdges(v) = {} => Geq(state[v], StartState(v))
  /\ \A u \in InEdges(v) :
       <<u, v>> \in known => Geq(state[v], Transform(u, v, payload[<<u, v>>], state[u]))

Init ==
  /\ nodes \subseteq Node
  /\ state = [v \in Node |-> Bottom]
  /\ known = Edges
  /\ running = FALSE

Learn == known' = IF Observed THEN Edges' ELSE known

\* Between two iterations the graph may change at will.
Change ==
  /\ ~running /\ running' = running
  /\ nodes \subseteq nodes' /\ nodes' \subseteq Node
  /\ Learn
  /\ UNCHANGED state

Call == ~running /\ running' = TRUE /\ UNCHANGED <<nodes, payload, state, known>>

\* An evaluation may make the graph grow.
Grow ==
  /\ running /\ running' = running
  /\ nodes \subseteq nodes' /\ nodes' \subseteq Node
  /\ \A e \in Edges : e \in Edges' /\ payload'[e] = payload[e]
  /\ Learn
  /\ UNCHANGED state

Update(v) ==
  /\ running
  /\ \E s \in State : state' = [state EXCEPT ![v] = s]
  /\ UNCHANGED <<nodes, payload, known, running>>

Return ==
  /\ running /\ running' = FALSE
  /\ \A v \in nodes : SolvedAt(v)
  /\ UNCHANGED <<nodes, payload, state, known>>

Next == Change \/ Call \/ Grow \/ (\E v \in nodes : Update(v)) \/ Return

Spec == Init /\ [][Next]_vars
=============================================================================
