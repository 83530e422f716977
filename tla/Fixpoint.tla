------------------------------ MODULE Fixpoint ------------------------------
(***************************************************************************)
(* The fixpoint engine (class fixpoint) iterating an analysis (class       *)
(* fp_analysis) over a control flow graph that grows while it is iterated: *)
(* evaluating the transformer of an edge may resolve a jump, which inserts *)
(* edges and commits them in the middle of an evaluation.                  *)
(*                                                                         *)
(* Everything runs on one thread; what interleaves is the commit, which    *)
(* calls back into the observers of the graph: the recorder of the         *)
(* analysis and, when it is registered, the engine itself.                 *)
(*                                                                         *)
(* The module covers every analysis whose states have the one context 0.   *)
(* Domain states are the elements of a set State with the operations of    *)
(* class domain_state as CONSTANT operators.                               *)
(***************************************************************************)
EXTENDS Naturals, Dependants

CONSTANTS
  Node,               \* node ids
  Payload,            \* edge payloads: what the transformers distinguish
  InitNodes,          \* the nodes of the graph the analysis is built on
  InitGraphs,         \* its possible edge_payloads: edge -> payload
  State,              \* domain states
  Bottom,             \* bottom(), the state init_state gives a node
  StartState(_),      \* start_state(node)
  Transform(_,_,_,_), \* transform(from, to, payload, state of from)
  Discovers(_,_,_,_), \* the edges that call inserts into the graph
  NewPayload(_),      \* and their payloads
  Join(_,_), Widen(_,_), Narrow(_,_), Geq(_,_),
  JumpDir(_,_),       \* jump_direction(from, to) for two distinct nodes
  Before(_,_),        \* node_comparers: the first is popped first
  Widening,           \* constructor argument
  Observed,           \* the engine is registered as an observer of the graph
  Changes,            \* update batches made to the graph between iterations
  MaxChanges          \* bound on their number

ASSUME NodeAssumption ==
  /\ Node \subseteq Nat
  /\ InitNodes \subseteq Node
  /\ \A g \in InitGraphs : /\ DOMAIN g \subseteq InitNodes \X InitNodes
                           /\ g \in [DOMAIN g -> Payload]
  /\ Observed \in BOOLEAN /\ Widening \in BOOLEAN /\ MaxChanges \in Nat

\* Geq is a preorder (two states may be equal to ==, which is >= both ways,
\* without being the same object), join an upper bound, and the box operator's
\* parts never return less than what was evaluated.
ASSUME DomainAssumption ==
  /\ Bottom \in State
  /\ \A s \in State : Geq(s, s)
  /\ \A s, t, u \in State : Geq(s, t) /\ Geq(t, u) => Geq(s, u)
  /\ \A s, t \in State :
       /\ Join(s, t) \in State /\ Geq(Join(s, t), s) /\ Geq(Join(s, t), t)
       /\ Widen(s, t) \in State /\ Geq(Widen(s, t), t)
       /\ Narrow(s, t) \in State /\ (Geq(s, t) => Geq(Narrow(s, t), t))

ASSUME TransformAssumption ==
  \A v \in Node :
    /\ StartState(v) \in State
    /\ \A u \in Node, s \in State, p \in Payload :
         /\ Transform(u, v, p, s) \in State
         /\ Discovers(u, v, p, s) \subseteq Node \X Node
         /\ NewPayload(<<u, v>>) \in Payload

ASSUME ChangesAssumption ==
  \A c \in Changes :
    /\ c.erase \subseteq Node \X Node
    /\ DOMAIN c.put \subseteq (Node \X Node) \ c.erase
    /\ c.put \in [DOMAIN c.put -> Payload]

VARIABLES
  \* the graph (class cfg)
  nodes, payload,
  \* the analysis (class fp_analysis)
  state, deps, fixpoint_pending, rec,
  \* the engine (class fixpoint, and the locals of iterate)
  worklist, pending, postprocess, updated_dirty,
  node, starting, constraints, todo, backward, needs_postprocessing,
  accumulator, pc,
  \* history: the edges the analysis was built on, the nodes whose last visit
  \* widened, and the number of changes made so far
  initial, widened, changes

graph_vars == <<nodes, payload>>
analysis_vars == <<state, deps, fixpoint_pending, rec>>
queue_vars == <<worklist, pending, postprocess>>
visit_vars == <<node, starting, constraints, backward>>
vars == <<graph_vars, analysis_vars, queue_vars, visit_vars, updated_dirty,
          todo, needs_postprocessing, accumulator, pc, initial, widened, changes>>

Edges == DOMAIN payload
InEdges(v) == {u \in nodes : <<u, v>> \in Edges}

-----------------------------------------------------------------------------
(* The graph changes and its observers are notified. *)

\* Faulty variant: the end of a new edge gets no node of its own.
ApplyForgetsNodes(put, erase) ==
  /\ payload' = [e \in (Edges \ erase) \cup DOMAIN put |->
                   IF e \in DOMAIN put THEN put[e] ELSE payload[e]]
  /\ nodes' = nodes

\* edge_payloads after edges are put (inserted or replaced) and erased.
Apply(put, erase) ==
  /\ payload' = [e \in (Edges \ erase) \cup DOMAIN put |->
                   IF e \in DOMAIN put THEN put[e] ELSE payload[e]]
  /\ nodes' = nodes \cup Endpoints(DOMAIN put)

\* fixpoint::notify marks both ends of every edge named, erased ones included.
Notify(edges) ==
  updated_dirty' =
    IF Observed THEN updated_dirty \cup Endpoints(edges) ELSE updated_dirty

\* fp_analysis::update: the roots among what is pending already and the ends of
\* the edges put are pending now, and the dependencies follow the edges.
\* init_state gives new nodes the bottom state, which they have here before.
UpdateAnalysis(put, erase) ==
  /\ fixpoint_pending' = RootsOf(fixpoint_pending \cup Endpoints(put), put)
  /\ deps' = (deps \ erase) \cup put

\* A transformer that modifies the graph between two iterations, and the commit
\* of its updates: the engine is notified, then its owner passes the updates
\* to the analysis (jd_manager for the machine addresses).
Change ==
  /\ pc = "idle"
  /\ Observed
  /\ changes < MaxChanges
  /\ \E c \in Changes :
       /\ c.erase \subseteq Edges
       /\ Apply(c.put, c.erase)
       /\ Notify(DOMAIN c.put \cup c.erase)
       /\ UpdateAnalysis(DOMAIN c.put, c.erase)
  /\ changes' = changes + 1
  /\ UNCHANGED <<state, rec, queue_vars, visit_vars, todo,
                 needs_postprocessing, accumulator, pc, initial, widened>>

-----------------------------------------------------------------------------
(* fixpoint::iterate *)

\* The prologue: what the analysis has pending is taken over, and
\* enqueue_updated_dirty schedules the nodes notify has marked.
Start ==
  /\ pc = "idle"
  /\ pending' = fixpoint_pending
  /\ fixpoint_pending' = {}
  /\ worklist' = updated_dirty
  /\ updated_dirty' = {}
  /\ postprocess' = {}
  /\ pc' = "select"
  /\ UNCHANGED <<graph_vars, state, deps, rec, visit_vars, todo,
                 needs_postprocessing, accumulator, initial, widened, changes>>

\* end(): the widened nodes become the worklist once, and only when, nothing
\* else is left to do.
Postprocess ==
  /\ pc = "select"
  /\ pending = {} /\ worklist = {} /\ postprocess # {}
  /\ worklist' = postprocess
  /\ postprocess' = {}
  /\ UNCHANGED <<graph_vars, analysis_vars, pending, visit_vars, updated_dirty,
                 todo, needs_postprocessing, accumulator, pc, initial,
                 widened, changes>>

End ==
  /\ pc = "select"
  /\ pending = {} /\ worklist = {} /\ postprocess = {}
  /\ pc' = "idle"
  /\ UNCHANGED <<graph_vars, analysis_vars, queue_vars, visit_vars,
                 updated_dirty, todo, needs_postprocessing, accumulator,
                 initial, widened, changes>>

\* constraints_at: a constraint for every incoming edge of n or, when there is
\* none, the one that yields the start state.  The transformers and payloads
\* are fixed here, before the first of them runs.
Visit(n) ==
  /\ node' = n
  /\ starting' = (InEdges(n) = {})
  /\ constraints' = IF InEdges(n) = {} THEN {n} ELSE InEdges(n)
  /\ todo' = constraints'
  /\ accumulator' = {}
  /\ backward' = FALSE
  /\ needs_postprocessing' = FALSE
  /\ pc' = "evaluate"
  /\ widened' = widened \ {n}
  /\ UNCHANGED <<graph_vars, analysis_vars, postprocess, updated_dirty,
                 initial, changes>>

\* next(): the worklist is exhausted before a pending root is looked at.
PopWorklist ==
  /\ pc = "select"
  /\ \E n \in worklist :
       /\ \A m \in worklist \ {n} : Before(n, m)
       /\ worklist' = worklist \ {n}
       /\ Visit(n)
  /\ UNCHANGED pending

PopPending ==
  /\ pc = "select"
  /\ worklist = {}
  /\ \E n \in pending :
       /\ \A m \in pending : n <= m
       /\ pending' = pending \ {n}
       /\ Visit(n)
  /\ UNCHANGED worklist

-----------------------------------------------------------------------------
(* One visit: the constraints are evaluated one after the other. *)

\* What the constraint from u yields, and the edges inserted on the way that
\* the graph does not have.  Nothing else happens to edges during a visit: transformers
\* look for an edge before they insert it, and the decoder, notified of it, rewrites the
\* edges of the block it has just merged, from which no constraint was collected yet.
Evaluated(u) ==
  IF starting THEN StartState(node)
  ELSE Transform(u, node, payload[<<u, node>>], state[u])

Found(u) ==
  IF starting THEN {}
  ELSE Discovers(u, node, payload[<<u, node>>], state[u]) \ Edges

\* A self loop counts as a forward edge.
Direction(u) == IF u = node THEN "FORWARD" ELSE JumpDir(u, node)

\* domain_state::box: the state to use and whether it was widened.
Box(current, s) ==
  IF Geq(current, s) THEN [state |-> Narrow(current, s), widened |-> FALSE]
                     ELSE [state |-> Widen(current, s), widened |-> TRUE]

Boxed(u) ==
  IF Widening /\ Direction(u) = "BACKWARD"
  THEN Box(state[node], Evaluated(u))
  ELSE [state |-> Evaluated(u), widened |-> FALSE]

AccumulateForgetsWidening(u) ==
  /\ accumulator' = IF accumulator = {} THEN {Boxed(u).state}
                    ELSE {Join(Boxed(u).state, a) : a \in accumulator}
  /\ needs_postprocessing' = Boxed(u).widened

\* The accumulator (here a set with at most one element) takes in the result.
Accumulate(u) ==
  /\ accumulator' = IF accumulator = {} THEN {Boxed(u).state}
                    ELSE {Join(Boxed(u).state, a) : a \in accumulator}
  /\ needs_postprocessing' = (Boxed(u).widened \/ needs_postprocessing)

\* process_constraint, with the commit inside the transformer: the recorder
\* notes the edges, the engine is notified if it observes the graph.
Evaluate ==
  /\ pc = "evaluate"
  /\ \E u \in todo :
       /\ \A w \in todo : u <= w
       /\ todo' = todo \ {u}
       /\ Apply([e \in Found(u) |-> NewPayload(e)], {})
       /\ rec' = rec \cup Found(u)
       /\ Notify(Found(u))
       /\ backward' = (backward \/ Direction(u) # "FORWARD")
       /\ Accumulate(u)
       /\ widened' = IF Boxed(u).widened THEN widened \cup {node} ELSE widened
  /\ pc' = IF todo' = {} THEN "finish" ELSE "evaluate"
  /\ UNCHANGED <<state, deps, fixpoint_pending, queue_vars, node, starting,
                 constraints, initial, changes>>

Equal(s, t) == Geq(s, t) /\ Geq(t, s)

\* Faulty variants: every visit propagates; a state is passed on only if the
\* new one is not above the old one.
PropagatesAlways(acc) == TRUE
PropagatesUnlessGrowing(acc) ==
  \/ ~backward /\ \E u \in constraints : constraints = {u}
  \/ ~Geq(acc, state[node])

\* A visit propagates if its node has one constraint and that is no backward
\* jump, or if the state changes.
Propagates(acc) ==
  \/ ~backward /\ \E u \in constraints : constraints = {u}
  \/ ~Equal(state[node], acc)

\* record_stop_commit and the pushes that follow it: the roots among the ends
\* of the edges recorded.  When it recorded nothing, nothing is pending.
Recorded == RootsOf(fixpoint_pending \cup Endpoints(rec), rec)

\* Faulty variant: the nodes notify has marked are not scheduled.
FinishDropsDirty(acc) ==
  /\ state' = IF Propagates(acc) THEN [state EXCEPT ![node] = acc] ELSE state
  /\ postprocess' = IF Propagates(acc) /\ needs_postprocessing
                    THEN postprocess \cup {node} ELSE postprocess
  /\ worklist' = worklist \cup Recorded
                   \cup (IF Propagates(acc) THEN DependantsOf(deps', node) ELSE {})

\* The end of a visit: the state is stored and the dependants are scheduled,
\* among them those the update just added, then the nodes notify has marked.
FinishWith(acc) ==
  /\ state' = IF Propagates(acc) THEN [state EXCEPT ![node] = acc] ELSE state
  /\ postprocess' = IF Propagates(acc) /\ needs_postprocessing
                    THEN postprocess \cup {node} ELSE postprocess
  /\ worklist' = worklist \cup Recorded \cup updated_dirty
                   \cup (IF Propagates(acc) THEN DependantsOf(deps', node) ELSE {})

Finish ==
  /\ pc = "finish"
  /\ deps' = deps \cup rec
  /\ rec' = {}
  /\ fixpoint_pending' = {}
  /\ \E acc \in accumulator : FinishWith(acc)
  /\ updated_dirty' = {}
  /\ pc' = "select"
  /\ UNCHANGED <<graph_vars, pending, visit_vars, todo, needs_postprocessing,
                 accumulator, initial, widened, changes>>

-----------------------------------------------------------------------------

\* The constructor of an analysis: init() derives the dependencies from the
\* edges, takes the roots of the whole graph for pending, and every node has
\* the bottom state.
Init ==
  /\ nodes = InitNodes
  /\ payload \in InitGraphs
  /\ initial = Edges
  /\ state = [v \in Node |-> Bottom]
  /\ deps = Edges
  /\ fixpoint_pending = RootsOf(InitNodes, Edges)
  /\ rec = {}
  /\ worklist = {} /\ pending = {} /\ postprocess = {}
  /\ updated_dirty = {}
  /\ node \in InitNodes /\ starting = FALSE /\ constraints = {} /\ todo = {}
  /\ backward = FALSE /\ needs_postprocessing = FALSE
  /\ accumulator = {}
  /\ pc = "idle"
  /\ widened = {} /\ changes = 0

Iterate == \/ Postprocess \/ End \/ PopWorklist \/ PopPending
           \/ Evaluate \/ Finish

Next == Change \/ Start \/ Iterate

Spec == Init /\ [][Next]_vars

\* iterate runs on the only thread, its loop is never interrupted.
FairSpec == Spec /\ WF_vars(Iterate)

-----------------------------------------------------------------------------

TypeOK ==
  /\ nodes \in SUBSET Node
  /\ Edges \subseteq nodes \X nodes /\ payload \in [Edges -> Payload]
  /\ state \in [Node -> State]
  /\ deps \subseteq nodes \X nodes
  /\ fixpoint_pending \subseteq nodes
  /\ rec \subseteq Edges
  /\ worklist \subseteq nodes /\ pending \subseteq nodes
  /\ postprocess \subseteq nodes /\ updated_dirty \subseteq nodes
  /\ node \in nodes /\ constraints \subseteq nodes /\ todo \subseteq constraints
  /\ starting \in BOOLEAN /\ backward \in BOOLEAN
  /\ needs_postprocessing \in BOOLEAN
  /\ accumulator \subseteq State
  /\ pc \in {"idle", "select", "evaluate", "finish"}
  /\ initial \subseteq nodes \X nodes
  /\ widened \subseteq nodes /\ changes \in 0..MaxChanges

\* The engine has nothing left to do.
Stable == pc = "idle" /\ updated_dirty = {} /\ fixpoint_pending = {}

\* The edges whose constraint the engine vouches for: all of them when it
\* observes the graph.  When it does not, an edge found by a visit that leaves
\* the state of its source as it was is scheduled by nothing but roots().
Tracked(e) == Observed \/ e \in initial

EdgeSolved(u, v) ==
  Geq(state[v], Transform(u, v, payload[<<u, v>>], state[u]))

SolvedAt(v) ==
  /\ InEdges(v) = {} => Geq(state[v], StartState(v))
  /\ \A u \in InEdges(v) : Tracked(<<u, v>>) => EdgeSolved(u, v)

\* When iterate returns, the states solve every constraint of the graph as it
\* is then, edges inserted during the iteration included: no visit was
\* forgotten, whatever order the nodes were visited in, although states are
\* overwritten and may shrink, and although constraints are collected before
\* the evaluations that change the graph.
Solution == Stable => \A v \in nodes : SolvedAt(v)

\* States of which each is above what the constraints of the graph make of the
\* others.
Solves(s) ==
  \A v \in nodes :
    /\ InEdges(v) = {} => Geq(s[v], StartState(v))
    /\ \A u \in InEdges(v) : Geq(s[v], Transform(u, v, payload[<<u, v>>], s[u]))

\* No state is ever above any solution of the graph there is by then, as long as the
\* graph only grows.
BelowSolutions ==
  changes = 0 => \A s \in [Node -> State] : Solves(s) => \A v \in nodes : Geq(s[v], state[v])

\* When iterate returns, the states are the least solution of the graph it leaves
\* behind: they solve it, and are below all that do.  A state is overwritten with
\* what its constraints make of older states of others, is pushed up by constraints
\* collected before the graph grew, and is never computed anew; nothing that is not
\* forced may stay in it.
Least == Stable /\ changes = 0 => Solves(state) /\ BelowSolutions

\* What that takes of the domain and its transformers: a least state, joins that are
\* least, widening that does no more than joining, and transformers that are monotone;
Monotone ==
  /\ \A s \in State : Geq(s, Bottom)
  /\ \A r, s, t \in State : Geq(r, s) /\ Geq(r, t) =>
       /\ Geq(r, Join(s, t))
       /\ Widening => Geq(r, Widen(s, t)) /\ Geq(r, Narrow(s, t))
  /\ \A u, v \in Node, p \in Payload, s, t \in State :
       Geq(s, t) => Geq(Transform(u, v, p, s), Transform(u, v, p, t))

\* and of the edges that are found: none leads to a node that had none at first, and a
\* new node has one, so that no node has or had its start state for want of an edge.
EntriesKept ==
  \A u, v \in Node, p \in Payload, s \in State : \A e \in Discovers(u, v, p, s) :
    /\ e[2] \in InitNodes => \A g \in InitGraphs : \E w \in InitNodes : <<w, e[2]>> \in DOMAIN g
    /\ e[1] \in InitNodes \cup {v} \/ \E d \in Discovers(u, v, p, s) : d[2] = e[1]

\* A state that was widened is always visited once more before iterate returns
\* (to be narrowed): no node's last visit widened.
WideningRevisited == pc = "idle" => widened = {}

\* iterate keeps its promise (ConstraintSystem): it changes one state at a time,
\* takes nothing away from the graph, and returns only from a solution.
CS == INSTANCE ConstraintSystem
        WITH known <- IF Observed THEN Edges ELSE initial, running <- (pc # "idle")
Implements == CS!Spec

\* iterate returns.
Terminates == pc # "idle" ~> pc = "idle"

=============================================================================
