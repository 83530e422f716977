---------------------------- MODULE JumpDirection ----------------------------
(***************************************************************************)
(* Which edges jump backwards (class jd_manager).  The fixpoint engine of  *)
(* an analysis asks it for every constraint it evaluates, and widens along *)
(* the edges that do; comparing addresses is how it finds the loops.  The  *)
(* address of a node is found by an analysis of its own (addr_machine),    *)
(* iterated by an engine of its own that asks the same jd_manager back.    *)
(* Both observe the graph; that inner iteration runs when somebody asks    *)
(* after a change, in the middle of a visit of the outer one.              *)
(*                                                                         *)
(* A visit of the inner engine is one step: its transformers insert no     *)
(* edges.  After the constructor, edges are inserted and replaced only.    *)
(***************************************************************************)
EXTENDS Naturals, FiniteSetsExt, Folds, Dependants

CONSTANTS
  AddressOf,   \* node id -> the address of an address_node, None for a plain node
  None,        \* an optional address without a value
  InitGraphs,  \* graphs a jd_manager is constructed for: edge -> kind of payload
  Batches,     \* what is committed at once
  MaxCommits,  \* bound on the number of commits
  Block, Pos   \* the code: the address of the block of a node, and its place there

Nodes == DOMAIN AddressOf
Kinds == {"plain", "flagged", "call"}

ASSUME GraphAssumption ==
  /\ Nodes \subseteq Nat /\ MaxCommits \in Nat
  /\ \A n \in Nodes : AddressOf[n] = None \/ AddressOf[n] \in Nat \ {0}
  /\ \A g \in InitGraphs \cup Batches :
       DOMAIN g \subseteq Nodes \X Nodes /\ g \in [DOMAIN g -> Kinds]

\* The code the graphs are built of.  A plain node belongs to the block of the node it
\* is entered from, and is entered backwards by flagged edges only: within an
\* instruction decomposer flags the edge that closes a loop.  Every address is reached
\* from an address nothing leads to, as all code that is decoded is reached from the
\* first node of a function.
ASSUME LayoutAssumption ==
  /\ IsFiniteSet(Nodes) /\ None \notin Nat
  /\ \A n \in Nodes :
       Block[n] \in Nat \ {0} /\ AddressOf[n] \in {None, Block[n]} /\ Pos[n] \in Nat
  /\ \A g \in InitGraphs \cup Batches : \A e \in DOMAIN g :
       AddressOf[e[2]] = None =>
         Block[e[1]] = Block[e[2]] /\ (g[e] = "plain" => Pos[e[1]] < Pos[e[2]])
  /\ \A g \in InitGraphs : \A R \in SUBSET Nodes :
       /\ \A n \in Nodes : AddressOf[n] # None /\ (\A e \in DOMAIN g : e[2] # n) => n \in R
       /\ \A e \in DOMAIN g : e[1] \in R => e[2] \in R
       => \A n \in Nodes : AddressOf[n] # None => n \in R

VARIABLES
  edges,             \* out_edge_payloads; "flagged" has jump_dir BACKWARD itself
  state,             \* addr.state
  fixpoint_pending,  \* of addr
  updated_dirty,     \* of fp
  notified,          \* of the manager
  pending, worklist, postprocess,  \* locals of fp.iterate
  running,           \* fp.iterate is running
  commits            \* history: the number of commits

queue_vars == <<pending, worklist, postprocess>>
vars == <<edges, state, fixpoint_pending, updated_dirty, notified, queue_vars, running, commits>>

IsAddress(n) == AddressOf[n] # None
InEdges(n) == {u \in Nodes : <<u, n>> \in DOMAIN edges}

-----------------------------------------------------------------------------
(* The answer of jump_direction, from the addresses known at the time. *)

\* Faulty variant: only smaller addresses lie behind.
DirectionStrict(u, v) ==
  IF edges[<<u, v>>] = "call" THEN "UNKNOWN"
  ELSE IF edges[<<u, v>>] = "flagged" THEN "BACKWARD"
  ELSE IF state[u] = None \/ state[v] = None THEN "UNKNOWN"
  ELSE IF state[v] < state[u] THEN "BACKWARD" ELSE "FORWARD"

Direction(u, v) ==
  IF edges[<<u, v>>] = "call" THEN "UNKNOWN"
  ELSE IF edges[<<u, v>>] = "flagged" THEN "BACKWARD"
  ELSE IF state[u] = None \/ state[v] = None THEN "UNKNOWN"
  ELSE IF \/ IsAddress(v) /\ state[v] = state[u]
          \/ state[v] < state[u]
  THEN "BACKWARD" ELSE "FORWARD"

-----------------------------------------------------------------------------
(* The domain and the transformer of addr_machine. *)

\* domop, both join and widening: two addresses have no join.
Join(s, t) == IF s = None THEN t ELSE IF t = None \/ s = t THEN s ELSE None

Geq(s, t) == t = None \/ s = t

\* box: narrow keeps the state.
Box(s, t) == IF Geq(s, t) THEN s ELSE Join(s, t)

Transform(u, v) == IF IsAddress(v) THEN AddressOf[v] ELSE state[u]

-----------------------------------------------------------------------------
(* fixpoint::iterate for the addresses *)

InDirection(u, v) == IF u = v THEN "FORWARD" ELSE Direction(u, v)

\* What the constraint of the edge from u contributes at v.
Evaluated(u, v) ==
  IF InDirection(u, v) = "BACKWARD" THEN Box(state[v], Transform(u, v)) ELSE Transform(u, v)

\* The constraints in the order of their nodes, or that of the start state.
Accumulated(v) ==
  IF InEdges(v) = {} THEN AddressOf[v]
  ELSE MapThenFoldSet(Join, None, LAMBDA u : Evaluated(u, v), Max, InEdges(v))

Widened(v) ==
  \E u \in InEdges(v) : InDirection(u, v) = "BACKWARD" /\ ~Geq(state[v], Transform(u, v))

\* Faulty variant: the state that comes from the only constraint is always passed on.
PropagatesAlone(v) ==
  \/ \A u \in InEdges(v) : InEdges(v) = {u}
  \/ state[v] # Accumulated(v)

Propagates(v) ==
  \/ /\ \A u \in InEdges(v) : InEdges(v) = {u} /\ InDirection(u, v) = "FORWARD"
  \/ state[v] # Accumulated(v)

Visit(v) ==
  /\ state' = IF Propagates(v) THEN [state EXCEPT ![v] = Accumulated(v)] ELSE state
  /\ postprocess' = IF Propagates(v) /\ Widened(v) THEN postprocess \cup {v} ELSE postprocess
  /\ worklist' = (worklist \ {v}) \cup (IF Propagates(v) THEN DependantsOf(DOMAIN edges, v) ELSE {})

PopWorklist ==
  /\ running
  /\ \E v \in worklist : (\A w \in worklist : v <= w) /\ Visit(v)
  /\ UNCHANGED <<edges, fixpoint_pending, updated_dirty, notified, pending, running, commits>>

PopPending ==
  /\ running /\ worklist = {}
  /\ \E v \in pending :
       /\ \A w \in pending : v <= w
       /\ pending' = pending \ {v}
       /\ Visit(v)
  /\ UNCHANGED <<edges, fixpoint_pending, updated_dirty, notified, running, commits>>

Postprocess ==
  /\ running /\ worklist = {} /\ pending = {} /\ postprocess # {}
  /\ worklist' = postprocess
  /\ postprocess' = {}
  /\ UNCHANGED <<edges, state, fixpoint_pending, updated_dirty, notified, pending, running,
                 commits>>

End ==
  /\ running /\ worklist = {} /\ pending = {} /\ postprocess = {}
  /\ running' = FALSE
  /\ UNCHANGED <<edges, state, fixpoint_pending, updated_dirty, notified, queue_vars, commits>>

-----------------------------------------------------------------------------
(* The manager *)

\* Faulty variant: the manager does not note that something has changed.
NotifySilently(put) ==
  /\ fixpoint_pending' = RootsOf(fixpoint_pending \cup Endpoints(put), put)
  /\ notified' = notified

\* notify: init_state gives new nodes no address, which they have here before.
Notify(put) ==
  /\ fixpoint_pending' = RootsOf(fixpoint_pending \cup Endpoints(put), put)
  /\ notified' = TRUE

\* The outer analysis, or the decoder, changes the graph and commits; the inner
\* engine is the first of the observers.  The dependencies of addr are the edges.
Commit ==
  /\ ~running /\ commits < MaxCommits
  /\ \E put \in Batches :
       /\ edges' = [e \in DOMAIN edges \cup DOMAIN put |-> IF e \in DOMAIN put THEN put[e] ELSE edges[e]]
       /\ updated_dirty' = updated_dirty \cup Endpoints(DOMAIN put)
       /\ Notify(DOMAIN put)
  /\ commits' = commits + 1
  /\ UNCHANGED <<state, queue_vars, running>>

\* The outer engine asks for a direction or an address: the prologue of iterate.
\* Without a change there is an answer at once.
Ask ==
  /\ ~running /\ notified
  /\ notified' = FALSE
  /\ pending' = fixpoint_pending /\ fixpoint_pending' = {}
  /\ worklist' = updated_dirty /\ updated_dirty' = {}
  /\ running' = TRUE
  /\ UNCHANGED <<edges, state, postprocess, commits>>

\* The constructor iterates before anything is observed.
Init ==
  /\ edges \in InitGraphs
  /\ state = [n \in Nodes |-> None]
  /\ pending = RootsOf(Nodes, DOMAIN edges) /\ fixpoint_pending = {}
  /\ updated_dirty = {} /\ worklist = {} /\ postprocess = {}
  /\ notified = FALSE /\ running = TRUE /\ commits = 0

Iterate == PopWorklist \/ PopPending \/ Postprocess \/ End

Next == Commit \/ Ask \/ Iterate

\* fp.iterate is a loop on the only thread.
Spec == Init /\ [][Next]_vars /\ WF_vars(Iterate)

-----------------------------------------------------------------------------

TypeOK ==
  /\ DOMAIN edges \subseteq Nodes \X Nodes /\ edges \in [DOMAIN edges -> Kinds]
  /\ DOMAIN state = Nodes
  /\ fixpoint_pending \subseteq Nodes /\ updated_dirty \subseteq Nodes
  /\ pending \subseteq Nodes /\ worklist \subseteq Nodes /\ postprocess \subseteq Nodes
  /\ notified \in BOOLEAN /\ running \in BOOLEAN
  /\ ~running => pending = {} /\ worklist = {} /\ postprocess = {}

\* Somebody who asks has an answer from states that are up to date.
UpToDate == ~running /\ ~notified

\* The nodes behind an address: in every set that holds the address nodes and whatever
\* one of its nodes leads to.
Closed(R) ==
  /\ \A n \in Nodes : IsAddress(n) => n \in R
  /\ \A e \in DOMAIN edges : e[1] \in R => e[2] \in R

Behind == {n \in Nodes : \A R \in SUBSET Nodes : Closed(R) => n \in R}

\* At no time, not in the middle of an iteration either, a node has another address than
\* that of its block; when somebody asks, every node behind an address has it.
AddressExact ==
  \A n \in Nodes :
    /\ state[n] \in {None, Block[n]}
    /\ UpToDate => (state[n] # None <=> n \in Behind)

\* The outer analysis widens in every loop: when it asks, no cycle of the graph
\* is made of edges that are not answered BACKWARD, but for calls, along which no
\* state returns.  Whatever edges closed the cycle, in whatever order and
\* after whatever questions they were inserted.
LoopsCut ==
  UpToDate =>
    \A S \in (SUBSET Nodes) \ {{}} :
      \E u \in S :
        \A v \in S :
          <<u, v>> \in DOMAIN edges => edges[<<u, v>>] = "call" \/ Direction(u, v) = "BACKWARD"

\* Every question is answered: the iteration it starts comes to an end, although a
\* visit of a node with one constraint always passes its state on unless that
\* constraint is a jump backwards, which only the addresses found so far can tell.
Answered == running ~> ~running
=============================================================================
