--------------------------- MODULE FixpointProofs ---------------------------
(***************************************************************************)
(* The engine computes a solution of the constraint system of the graph it *)
(* leaves behind, for every graph, domain, transformer, discovery of edges *)
(* and visiting order.                                                     *)
(***************************************************************************)
EXTENDS Fixpoint, TLAPS

\* No transformer makes anything of the bottom state: then a node that has
\* constraints but was never scheduled satisfies them.
Strict == \A u, v \in Node, p \in Payload : Geq(Bottom, Transform(u, v, p, Bottom))

MidVisit == pc \in {"evaluate", "finish"}

\* Where the parts of the engine's state are empty.
Control ==
  /\ ~MidVisit => rec = {}
  /\ pc # "idle" => fixpoint_pending = {}
  /\ pc = "idle" => worklist = {} /\ pending = {} /\ postprocess = {}
  /\ pc = "finish" => todo = {}

\* What will be visited without any further cause.
Scheduled == worklist \cup pending \cup updated_dirty \cup fixpoint_pending

\* The edges the visit has not taken into account: those found since it began.
\* Either its node is marked, or they are not vouched for.
Overlooked(u) == node \in updated_dirty \/ ~Tracked(<<u, node>>)

\* The constraints collected are those of the node, up to overlooked edges, and
\* the accumulator is above everything evaluated so far.
Collected ==
  MidVisit =>
    /\ starting => constraints = {node}
    /\ ~starting => constraints # {} /\ constraints \subseteq InEdges(node)
    /\ \A u \in InEdges(node) : (starting \/ u \notin constraints) => Overlooked(u)
    /\ accumulator = {} => todo = constraints
    /\ \A acc \in accumulator, u \in constraints \ todo : Geq(acc, Evaluated(u))

\* Every node is scheduled, or under way, or has its constraints satisfied, or
\* is a new node that record_stop_commit will find to be a root.
Covered(v) == \/ v \in Scheduled
              \/ MidVisit /\ v = node
              \/ SolvedAt(v)
              \/ InEdges(v) = {} /\ v \in Endpoints(rec)

\* The dependants of a node include its successors, but for those recorded.
Dependencies == /\ Edges \subseteq deps \cup rec
                /\ ~Observed => initial \subseteq Edges

IInv == /\ TypeOK /\ Control /\ Dependencies /\ Collected
        /\ \A v \in nodes : Covered(v)

USE NodeAssumption

LEMMA GeqTransitive ==
  ASSUME NEW s \in State, NEW t \in State, NEW r \in State, Geq(s, t), Geq(t, r)
  PROVE  Geq(s, r)
BY DomainAssumption

-----------------------------------------------------------------------------
\* What a change of the graph does to it.

LEMMA ApplyEffect ==
  ASSUME TypeOK, NEW put, NEW erase, Apply(put, erase),
         DOMAIN put \subseteq (Node \X Node) \ erase,
         \A e \in DOMAIN put : put[e] \in Payload
  PROVE  /\ Edges' = (Edges \ erase) \cup DOMAIN put
         /\ nodes' = nodes \cup Endpoints(DOMAIN put)
         /\ \A e \in Edges \ (erase \cup DOMAIN put) : payload'[e] = payload[e]
         /\ nodes' \subseteq Node
         /\ Edges' \subseteq nodes' \X nodes'
         /\ payload' \in [Edges' -> Payload]
<1>1. Edges' = (Edges \ erase) \cup DOMAIN put
  BY DEF Apply, Edges
<1>2. nodes' = nodes \cup Endpoints(DOMAIN put)
  BY DEF Apply
<1>3. \A e \in Edges \ (erase \cup DOMAIN put) : payload'[e] = payload[e]
  BY DEF Apply, Edges
<1>4. nodes' \subseteq Node
  BY <1>2 DEF TypeOK, Endpoints
<1>5. \A e \in DOMAIN put : e \in Endpoints(DOMAIN put) \X Endpoints(DOMAIN put)
  BY DEF Endpoints
<1>6. Edges' \subseteq nodes' \X nodes'
  BY <1>1, <1>2, <1>5 DEF TypeOK
<1>7. payload' \in [Edges' -> Payload]
  BY DEF Apply, TypeOK, Edges
<1> QED BY <1>1, <1>2, <1>3, <1>4, <1>6, <1>7

LEMMA EndpointsTyped ==
  ASSUME NEW S, NEW E, E \subseteq S \X S
  PROVE  Endpoints(E) \subseteq S
BY DEF Endpoints

\* The new edges of an evaluation.
LEMMA FoundTyped ==
  ASSUME TypeOK, Collected, pc = "evaluate", NEW u \in todo
  PROVE  /\ Found(u) \subseteq Node \X Node
         /\ Found(u) \cap Edges = {}
         /\ \A e \in Found(u) : NewPayload(e) \in Payload
<1>1. CASE starting
  BY <1>1 DEF Found
<1>2. CASE ~starting
  <2>1. <<u, node>> \in Edges /\ u \in nodes /\ node \in Node /\ u \in Node
    BY <1>2 DEF TypeOK, Collected, MidVisit, InEdges
  <2>2. payload[<<u, node>>] \in Payload /\ state[u] \in State
    BY <2>1 DEF TypeOK
  <2>3. Discovers(u, node, payload[<<u, node>>], state[u]) \subseteq Node \X Node
    BY <2>1, <2>2, TransformAssumption
  <2>4. Found(u) \subseteq Node \X Node /\ Found(u) \cap Edges = {}
    BY <1>2, <2>3 DEF Found
  <2>5. \A a, b \in Node : NewPayload(<<a, b>>) \in Payload
    BY TransformAssumption, <2>1, <2>2
  <2> QED BY <2>4, <2>5
<1> QED BY <1>1, <1>2

\* What a constraint yields is a state, and so is what the box makes of it;
\* the latter is above the former.
LEMMA BoxedAbove ==
  ASSUME TypeOK, Collected, pc = "evaluate", NEW u \in todo
  PROVE  /\ Evaluated(u) \in State
         /\ Boxed(u).state \in State
         /\ Boxed(u).widened \in BOOLEAN
         /\ Geq(Boxed(u).state, Evaluated(u))
         /\ Boxed(u).widened => ~Geq(state[node], Evaluated(u))
<1>1. Evaluated(u) \in State
  <2>1. CASE starting
    BY <2>1, TransformAssumption DEF Evaluated, TypeOK
  <2>2. CASE ~starting
    <3>1. <<u, node>> \in Edges /\ u \in nodes /\ node \in Node /\ u \in Node
      BY <2>2 DEF TypeOK, Collected, MidVisit, InEdges
    <3>2. payload[<<u, node>>] \in Payload /\ state[u] \in State
      BY <3>1 DEF TypeOK
    <3> QED BY <2>2, <3>1, <3>2, TransformAssumption DEF Evaluated
  <2> QED BY <2>1, <2>2
<1>2. state[node] \in State
  BY DEF TypeOK
<1> QED BY <1>1, <1>2, DomainAssumption DEF Boxed, Box

-----------------------------------------------------------------------------
\* One lemma for every action: it keeps the inductive invariant.

LEMMA InitIInv == ASSUME Strict, Init PROVE IInv
<1>1. TypeOK
  <2>1. Edges \subseteq InitNodes \X InitNodes /\ payload \in [Edges -> Payload]
    BY DEF Init, Edges
  <2>2. [v \in Node |-> Bottom] \in [Node -> State]
    BY DomainAssumption
  <2>3. RootsOf(InitNodes, Edges) \subseteq InitNodes
    BY DEF RootsOf
  <2>4. /\ nodes = InitNodes /\ state = [v \in Node |-> Bottom]
        /\ deps = Edges /\ initial = Edges
        /\ fixpoint_pending = RootsOf(InitNodes, Edges)
        /\ worklist = {} /\ pending = {} /\ postprocess = {}
        /\ updated_dirty = {} /\ rec = {} /\ node \in nodes
        /\ constraints = {} /\ todo = {} /\ accumulator = {} /\ widened = {}
        /\ starting = FALSE /\ backward = FALSE /\ needs_postprocessing = FALSE
        /\ pc = "idle" /\ changes = 0
    BY DEF Init
  <2>5. 0 \in 0..MaxChanges
    OBVIOUS
  <2> QED BY <2>1, <2>2, <2>3, <2>4, <2>5 DEF TypeOK
<1>2. Control /\ Dependencies /\ Collected
  BY DEF Init, Control, Dependencies, Collected, MidVisit
<1>3. ASSUME NEW v \in nodes PROVE Covered(v)
  <2>1. CASE InEdges(v) = {}
    <3>1. v \in fixpoint_pending
      BY <2>1 DEF Init, InEdges, RootsOf
    <3> QED BY <3>1 DEF Covered, Scheduled
  <2>2. CASE InEdges(v) # {}
    <3>1. ASSUME NEW u \in InEdges(v) PROVE EdgeSolved(u, v)
      <4>1. u \in Node /\ v \in Node /\ <<u, v>> \in Edges
        BY <1>1, <3>1 DEF InEdges, TypeOK
      <4>2. payload[<<u, v>>] \in Payload
        BY <1>1, <4>1 DEF TypeOK
      <4>3. state[u] = Bottom /\ state[v] = Bottom
        BY <4>1 DEF Init
      <4> QED BY <4>1, <4>2, <4>3 DEF EdgeSolved, Strict
    <3> QED BY <2>2, <3>1 DEF Covered, SolvedAt
  <2> QED BY <2>1, <2>2
<1> QED BY <1>1, <1>2, <1>3 DEF IInv

LEMMA ChangeIInv == ASSUME IInv, Change PROVE IInv'
<1> USE DEF IInv
<1>1. PICK c \in Changes : /\ c.erase \subseteq Edges
                           /\ Apply(c.put, c.erase)
                           /\ Notify(DOMAIN c.put \cup c.erase)
                           /\ UpdateAnalysis(DOMAIN c.put, c.erase)
  BY DEF Change
<1> DEFINE P == DOMAIN c.put
           Q == c.erase
<1>2. /\ pc = "idle" /\ pc' = pc /\ Observed /\ rec = {}
      /\ UNCHANGED <<state, rec, queue_vars, visit_vars, todo,
                     needs_postprocessing, accumulator, initial, widened>>
      /\ changes' \in 0..MaxChanges
  BY DEF Change, Control, MidVisit, TypeOK
<1>3. P \subseteq (Node \X Node) \ Q /\ \A e \in P : c.put[e] \in Payload
  BY ChangesAssumption
<1>4. /\ Edges' = (Edges \ Q) \cup P
      /\ nodes' = nodes \cup Endpoints(P)
      /\ \A e \in Edges \ (Q \cup P) : payload'[e] = payload[e]
      /\ nodes' \subseteq Node /\ Edges' \subseteq nodes' \X nodes'
      /\ payload' \in [Edges' -> Payload]
  BY <1>1, <1>3, ApplyEffect
<1>5. Q \subseteq nodes \X nodes /\ Endpoints(Q) \subseteq nodes
  BY <1>1, EndpointsTyped DEF TypeOK
<1>6. /\ updated_dirty' = updated_dirty \cup Endpoints(P \cup Q)
      /\ fixpoint_pending' = RootsOf(fixpoint_pending \cup Endpoints(P), P)
      /\ deps' = (deps \ Q) \cup P
  BY <1>1, <1>2 DEF Notify, UpdateAnalysis
<1>7. Endpoints(P \cup Q) = Endpoints(P) \cup Endpoints(Q)
  BY DEF Endpoints
<1>8. P \subseteq nodes' \X nodes'
  BY <1>4
<1>9. TypeOK'
  <2>1. fixpoint_pending' \subseteq nodes' /\ updated_dirty' \subseteq nodes'
    BY <1>4, <1>5, <1>6, <1>7 DEF RootsOf, TypeOK
  <2>2. deps' \subseteq nodes' \X nodes'
    BY <1>4, <1>6, <1>8 DEF TypeOK
  <2>3. nodes \subseteq nodes'
    BY <1>4
  <2>4. rec' = {}
    BY <1>2
  <2> QED BY <1>2, <1>4, <2>1, <2>2, <2>3, <2>4
          DEF TypeOK, queue_vars, visit_vars
<1>10. Control' /\ Collected'
  BY <1>2 DEF Control, Collected, MidVisit, queue_vars
<1>11. Dependencies'
  BY <1>2, <1>4, <1>6 DEF Dependencies
<1>12. ASSUME NEW v \in nodes' PROVE Covered(v)'
  <2>1. CASE v \in Endpoints(P \cup Q)
    BY <2>1, <1>6 DEF Covered, Scheduled
  <2>2. CASE v \notin Endpoints(P \cup Q)
    <3>1. v \in nodes /\ v \notin Endpoints(P) /\ v \notin Endpoints(Q)
      BY <2>2, <1>4, <1>7
    <3>2. \A u : <<u, v>> \notin P /\ <<u, v>> \notin Q
      BY <3>1 DEF Endpoints
    <3>3. CASE v \in Scheduled
      <4>1. v \in fixpoint_pending => v \in fixpoint_pending'
        BY <1>6, <3>2 DEF RootsOf
      <4> QED BY <3>3, <4>1, <1>2, <1>6 DEF Covered, Scheduled, queue_vars
    <3>4. CASE SolvedAt(v)
      <4>1. InEdges(v)' = InEdges(v)
        BY <3>2, <1>4 DEF InEdges, TypeOK
      <4>2. \A u \in InEdges(v) : payload'[<<u, v>>] = payload[<<u, v>>]
        BY <3>2, <1>4 DEF InEdges
      <4>3. state' = state /\ initial' = initial
        BY <1>2
      <4>4. \A u \in InEdges(v) : EdgeSolved(u, v)' <=> EdgeSolved(u, v)
        BY <4>2, <4>3 DEF EdgeSolved
      <4>5. \A u : Tracked(<<u, v>>)' <=> Tracked(<<u, v>>)
        BY <4>3 DEF Tracked
      <4>6. SolvedAt(v)'
        BY <3>4, <4>1, <4>3, <4>4, <4>5 DEF SolvedAt
      <4> QED BY <4>6 DEF Covered
    <3>5. CASE v \in Endpoints(rec)
      BY <3>5, <1>2 DEF Endpoints
    <3> QED BY <3>1, <3>3, <3>4, <3>5, <1>2 DEF Covered, MidVisit
  <2> QED BY <2>1, <2>2
<1> QED BY <1>9, <1>10, <1>11, <1>12

\* An action that leaves graph, states and recorder alone keeps what is solved.
LEMMA SolvedKept ==
  ASSUME UNCHANGED <<graph_vars, state, initial, rec>>, NEW v
  PROVE  /\ InEdges(v)' = InEdges(v)
         /\ SolvedAt(v)' <=> SolvedAt(v)
         /\ (v \in Endpoints(rec))' <=> v \in Endpoints(rec)
BY DEF graph_vars, InEdges, Edges, SolvedAt, EdgeSolved, Tracked

LEMMA StartIInv == ASSUME IInv, Start PROVE IInv'
<1> USE DEF IInv
<1>1. TypeOK' /\ Control' /\ Dependencies' /\ Collected'
  BY DEF Start, TypeOK, Control, Dependencies, Collected, MidVisit,
         graph_vars, visit_vars, Edges
<1>2. ASSUME NEW v \in nodes' PROVE Covered(v)'
  <2>1. Scheduled' = Scheduled
    BY DEF Start, Control, Scheduled
  <2>2. ~MidVisit /\ v \in nodes
    BY DEF Start, MidVisit, graph_vars
  <2>3. UNCHANGED <<graph_vars, state, initial, rec>>
    BY DEF Start
  <2> QED BY <2>1, <2>2, <2>3, SolvedKept DEF Covered
<1> QED BY <1>1, <1>2

LEMMA PostprocessEndIInv == ASSUME IInv, Postprocess \/ End PROVE IInv'
<1> USE DEF IInv
<1>1. TypeOK' /\ Control' /\ Dependencies' /\ Collected'
  BY DEF Postprocess, End, TypeOK, Control, Dependencies, Collected, MidVisit,
         graph_vars, analysis_vars, queue_vars, visit_vars, Edges
<1>2. ASSUME NEW v \in nodes' PROVE Covered(v)'
  <2>1. Scheduled \subseteq Scheduled'
    BY DEF Postprocess, End, Scheduled, analysis_vars, queue_vars
  <2>2. ~MidVisit /\ v \in nodes
    BY DEF Postprocess, End, MidVisit, graph_vars
  <2>3. UNCHANGED <<graph_vars, state, initial, rec>>
    BY DEF Postprocess, End, analysis_vars
  <2> QED BY <2>1, <2>2, <2>3, SolvedKept DEF Covered
<1> QED BY <1>1, <1>2

LEMMA PopIInv == ASSUME IInv, PopWorklist \/ PopPending PROVE IInv'
<1> USE DEF IInv
<1> DEFINE Popped(n) == \/ worklist' = worklist \ {n} /\ pending' = pending
                        \/ pending' = pending \ {n} /\ worklist' = worklist
<1>1. PICK n \in worklist \cup pending : Visit(n) /\ Popped(n)
  <2>1. CASE PopWorklist
    <3>1. PICK n \in worklist : worklist' = worklist \ {n} /\ Visit(n)
      BY <2>1 DEF PopWorklist
    <3> QED BY <2>1, <3>1 DEF PopWorklist
  <2>2. CASE PopPending
    <3>1. PICK n \in pending : pending' = pending \ {n} /\ Visit(n)
      BY <2>2 DEF PopPending
    <3> QED BY <2>2, <3>1 DEF PopPending
  <2> QED BY <2>1, <2>2
<1>2. /\ pc = "select" /\ pc' = "evaluate" /\ n \in nodes
      /\ UNCHANGED <<graph_vars, analysis_vars, postprocess, updated_dirty,
                     initial, changes>>
      /\ widened' = widened \ {n}
      /\ node' = n /\ todo' = constraints' /\ accumulator' = {}
      /\ starting' = (InEdges(n) = {}) /\ backward' = FALSE
      /\ needs_postprocessing' = FALSE
      /\ constraints' = IF InEdges(n) = {} THEN {n} ELSE InEdges(n)
  BY <1>1 DEF Visit, PopWorklist, PopPending, TypeOK
<1>3. TypeOK' /\ Control' /\ Dependencies'
  BY <1>1, <1>2 DEF TypeOK, Control, Dependencies, MidVisit, graph_vars,
                    analysis_vars, Edges, InEdges
<1>4. Collected'
  <2>1. InEdges(n)' = InEdges(n)
    BY <1>2 DEF InEdges, Edges, graph_vars
  <2> QED BY <1>2, <2>1 DEF Collected, MidVisit
<1>5. ASSUME NEW v \in nodes' PROVE Covered(v)'
  <2>1. CASE v = n
    BY <2>1, <1>2 DEF Covered, MidVisit
  <2>2. CASE v # n
    <3>1. v \in Scheduled => v \in Scheduled'
      BY <2>2, <1>1, <1>2 DEF Scheduled, analysis_vars
    <3>2. ~MidVisit /\ v \in nodes
      BY <1>2 DEF MidVisit, graph_vars
    <3>3. UNCHANGED <<graph_vars, state, initial, rec>>
      BY <1>2 DEF analysis_vars
    <3> QED BY <3>1, <3>2, <3>3, SolvedKept DEF Covered
  <2> QED BY <2>1, <2>2
<1> QED BY <1>3, <1>4, <1>5

LEMMA EvaluateIInv == ASSUME IInv, Evaluate PROVE IInv'
<1> USE DEF IInv
<1>1. PICK u \in todo : /\ todo' = todo \ {u}
                        /\ Apply([e \in Found(u) |-> NewPayload(e)], {})
                        /\ rec' = rec \cup Found(u)
                        /\ Notify(Found(u))
                        /\ backward' = (backward \/ Direction(u) # "FORWARD")
                        /\ Accumulate(u)
                        /\ widened' \subseteq widened \cup {node}
  BY DEF Evaluate
<1> DEFINE F == Found(u)
           put == [e \in F |-> NewPayload(e)]
<1>2. /\ pc = "evaluate" /\ pc' = IF todo' = {} THEN "finish" ELSE "evaluate"
      /\ UNCHANGED <<state, deps, fixpoint_pending, queue_vars, node, starting,
                     constraints, initial, changes>>
      /\ MidVisit /\ MidVisit' /\ u \in constraints
  BY DEF Evaluate, MidVisit, TypeOK
<1>3. /\ F \subseteq Node \X Node /\ F \cap Edges = {}
      /\ \A e \in F : NewPayload(e) \in Payload
  BY <1>2, FoundTyped
<1>4. /\ Edges' = Edges \cup F
      /\ nodes' = nodes \cup Endpoints(F)
      /\ \A e \in Edges : payload'[e] = payload[e]
      /\ nodes' \subseteq Node /\ Edges' \subseteq nodes' \X nodes'
      /\ payload' \in [Edges' -> Payload]
  <2>1. DOMAIN put = F /\ \A e \in DOMAIN put : put[e] \in Payload
    BY <1>3
  <2>2. DOMAIN put \subseteq (Node \X Node) \ {}
    BY <1>3, <2>1
  <2>3. Apply(put, {})
    BY <1>1
  <2> HIDE DEF put, F
  <2>4. /\ Edges' = (Edges \ {}) \cup DOMAIN put
        /\ nodes' = nodes \cup Endpoints(DOMAIN put)
        /\ \A e \in Edges \ ({} \cup DOMAIN put) : payload'[e] = payload[e]
        /\ nodes' \subseteq Node /\ Edges' \subseteq nodes' \X nodes'
        /\ payload' \in [Edges' -> Payload]
    BY <2>1, <2>2, <2>3, ApplyEffect
  <2> QED BY <2>1, <2>4, <1>3
<1>5. updated_dirty' = IF Observed THEN updated_dirty \cup Endpoints(F)
                                   ELSE updated_dirty
  BY <1>1 DEF Notify
<1>6. /\ Boxed(u).state \in State /\ Geq(Boxed(u).state, Evaluated(u))
      /\ Boxed(u).widened \in BOOLEAN
      /\ Evaluated(u) \in State
  BY <1>2, BoxedAbove
<1>7. /\ accumulator' = IF accumulator = {} THEN {Boxed(u).state}
                        ELSE {Join(Boxed(u).state, a) : a \in accumulator}
      /\ needs_postprocessing' = (Boxed(u).widened \/ needs_postprocessing)
  BY <1>1 DEF Accumulate
<1>8. TypeOK'
  <2>1. nodes \subseteq nodes' /\ F \subseteq Edges' /\ Endpoints(F) \subseteq nodes'
    BY <1>4
  <2>2. accumulator' \subseteq State
    <3>1. \A a \in accumulator : Join(Boxed(u).state, a) \in State
      BY <1>6, DomainAssumption DEF TypeOK
    <3> QED BY <3>1, <1>6, <1>7
  <2>3. needs_postprocessing' \in BOOLEAN /\ backward' \in BOOLEAN
    BY <1>1, <1>6, <1>7 DEF TypeOK
  <2>4. rec' \subseteq Edges'
    BY <1>1, <1>4 DEF TypeOK
  <2>5. updated_dirty' \subseteq nodes'
    BY <1>5, <2>1 DEF TypeOK
  <2>6. /\ todo' \subseteq constraints' /\ pc' \in {"evaluate", "finish"}
        /\ widened' \subseteq nodes'
    BY <1>1, <1>2, <2>1 DEF TypeOK
  <2> QED BY <1>2, <1>4, <2>1, <2>2, <2>3, <2>4, <2>5, <2>6
          DEF TypeOK, queue_vars
<1>9. Control'
  BY <1>1, <1>2 DEF Control, MidVisit
<1>10. Dependencies'
  BY <1>1, <1>2, <1>4 DEF Dependencies
<1>11. \A e \in F : ~Observed => e \notin initial
  BY <1>3 DEF Dependencies
\* An edge found is either observed or not vouched for.
<1>12. ASSUME NEW w, NEW v, <<w, v>> \in F
       PROVE  v \in updated_dirty' \/ ~Tracked(<<w, v>>)'
  <2>1. v \in Endpoints(F)
    BY <1>12 DEF Endpoints
  <2> QED BY <2>1, <1>2, <1>5, <1>11, <1>12 DEF Tracked
<1>13. \A v : InEdges(v) \subseteq InEdges(v)'
  BY <1>4 DEF InEdges
<1>14. ASSUME NEW v, NEW w \in InEdges(v)', w \notin InEdges(v)
       PROVE  <<w, v>> \in F
  BY <1>4, <1>14 DEF InEdges, TypeOK
<1>15. Collected'
  <2>1. ~starting => constraints' # {} /\ constraints' \subseteq InEdges(node)'
    BY <1>2, <1>13 DEF Collected
  <2>2. ASSUME NEW w \in InEdges(node)', starting \/ w \notin constraints
        PROVE  Overlooked(w)'
    <3>1. CASE w \in InEdges(node)
      <4>1. Overlooked(w)
        BY <3>1, <2>2, <1>2 DEF Collected
      <4> QED BY <4>1, <1>2, <1>5 DEF Overlooked, Tracked
    <3>2. CASE w \notin InEdges(node)
      <4>1. <<w, node>> \in F
        BY <3>2, <2>2, <1>2, <1>4 DEF InEdges, TypeOK
      <4> QED BY <4>1, <1>12, <1>2 DEF Overlooked
    <3> QED BY <3>1, <3>2
  <2>3. accumulator' # {}
    BY <1>7
  <2>4. ASSUME NEW acc \in accumulator', NEW w \in constraints \ todo'
        PROVE  Geq(acc, Evaluated(w)')
    <3>1. Evaluated(w)' = Evaluated(w)
      BY <1>2, <1>4, <2>4 DEF Evaluated, Collected, InEdges
    <3>2. CASE accumulator = {}
      <4>1. w = u /\ acc = Boxed(u).state
        BY <3>2, <1>1, <1>2, <1>7, <2>4 DEF Collected
      <4> QED BY <4>1, <3>1, <1>6
    <3>3. CASE accumulator # {}
      <4>1. PICK a \in accumulator : acc = Join(Boxed(u).state, a)
        BY <3>3, <1>7, <2>4
      <4>2. a \in State /\ acc \in State
            /\ Geq(acc, Boxed(u).state) /\ Geq(acc, a)
        BY <4>1, <1>6, DomainAssumption DEF TypeOK
      <4>3. CASE w = u
        <5>1. Geq(acc, Evaluated(u))
          BY <4>2, <1>6, GeqTransitive
        <5> QED BY <5>1, <4>3, <3>1
      <4>4. CASE w # u
        <5>1. Geq(a, Evaluated(w))
          BY <4>4, <2>4, <1>1, <1>2 DEF Collected
        <5>2. Evaluated(w) \in State
          <6>1. w \in nodes
            BY <2>4 DEF TypeOK
          <6>2. CASE starting
            BY <6>1, <6>2, TransformAssumption DEF Evaluated, TypeOK
          <6>3. CASE ~starting
            <7>1. <<w, node>> \in Edges /\ w \in Node /\ node \in Node
              BY <6>3, <1>2, <2>4 DEF Collected, InEdges, TypeOK
            <7>2. payload[<<w, node>>] \in Payload /\ state[w] \in State
              BY <7>1 DEF TypeOK
            <7> QED BY <6>3, <7>1, <7>2, TransformAssumption DEF Evaluated
          <6> QED BY <6>2, <6>3
        <5> QED BY <5>1, <5>2, <4>2, <3>1, DomainAssumption
      <4> QED BY <4>3, <4>4
    <3> QED BY <3>2, <3>3
  <2>5. starting => constraints = {node}
    BY <1>2 DEF Collected
  <2> QED BY <2>1, <2>2, <2>3, <2>4, <2>5, <1>2 DEF Collected
<1>16. ASSUME NEW v \in nodes' PROVE Covered(v)'
  <2>1. CASE v = node
    BY <2>1, <1>2 DEF Covered
  <2>2. CASE v # node /\ v \in updated_dirty'
    BY <2>2 DEF Covered, Scheduled
  <2>3. CASE v # node /\ v \notin updated_dirty'
    <3>1. ASSUME NEW w \in InEdges(v)', w \notin InEdges(v)
          PROVE  ~Tracked(<<w, v>>)'
      BY <3>1, <2>3, <1>12, <1>14
    <3>2. ASSUME InEdges(v) = {}, InEdges(v)' # {} PROVE Covered(v)'
      BY <3>1, <3>2 DEF Covered, SolvedAt
    <3>3. CASE v \in nodes /\ v \in Scheduled
      BY <3>3, <1>2, <1>5 DEF Covered, Scheduled, queue_vars
    <3>4. CASE v \in nodes /\ SolvedAt(v)
      <4>1. ASSUME NEW w \in InEdges(v)', Tracked(<<w, v>>)'
            PROVE  EdgeSolved(w, v)'
        <5>1. w \in InEdges(v) /\ Tracked(<<w, v>>)
          BY <3>1, <4>1, <1>2 DEF Tracked
        <5>2. EdgeSolved(w, v)
          BY <5>1, <3>4 DEF SolvedAt
        <5> QED BY <5>1, <5>2, <1>2, <1>4 DEF EdgeSolved, InEdges
      <4>2. InEdges(v)' = {} => Geq(state'[v], StartState(v))
        BY <3>4, <1>2, <1>13 DEF SolvedAt
      <4> QED BY <4>1, <4>2 DEF Covered, SolvedAt
    <3>5. CASE InEdges(v) = {} /\ v \in Endpoints(rec) \cup Endpoints(F)
      <4>1. v \in Endpoints(rec)'
        BY <3>5, <1>1 DEF Endpoints
      <4> QED BY <4>1, <3>2, <3>5 DEF Covered
    <3>6. CASE v \notin nodes
      <4>1. InEdges(v) = {} /\ v \in Endpoints(F)
        BY <3>6, <1>4 DEF InEdges, TypeOK
      <4> QED BY <4>1, <3>5
    <3> QED BY <3>3, <3>4, <3>5, <3>6, <2>3 DEF Covered
  <2> QED BY <2>1, <2>2, <2>3
<1> QED BY <1>8, <1>9, <1>10, <1>15, <1>16

LEMMA FinishIInv == ASSUME IInv, Finish PROVE IInv'
<1> USE DEF IInv
<1>1. PICK acc \in accumulator : FinishWith(acc)
  BY DEF Finish
<1>2. /\ pc = "finish" /\ pc' = "select" /\ deps' = deps \cup rec /\ rec' = {}
      /\ fixpoint_pending = {} /\ fixpoint_pending' = {} /\ updated_dirty' = {}
      /\ UNCHANGED <<graph_vars, pending, visit_vars, todo,
                     needs_postprocessing, accumulator, initial, widened,
                     changes>>
      /\ MidVisit /\ ~MidVisit' /\ todo = {}
  BY DEF Finish, Control, MidVisit
<1>3. /\ state' = IF Propagates(acc) THEN [state EXCEPT ![node] = acc] ELSE state
      /\ worklist' = worklist \cup Recorded \cup updated_dirty
                       \cup (IF Propagates(acc) THEN DependantsOf(deps', node) ELSE {})
      /\ postprocess' \subseteq postprocess \cup {node}
  BY <1>1 DEF FinishWith
<1>4. acc \in State /\ node \in Node /\ state \in [Node -> State]
  BY DEF TypeOK
<1>5. UNCHANGED <<nodes, payload, Edges, initial>>
  BY <1>2 DEF graph_vars, Edges
<1>6. rec \subseteq nodes \X nodes /\ Recorded \subseteq nodes
  <2>1. rec \subseteq nodes \X nodes
    BY DEF TypeOK
  <2> QED BY <2>1, <1>2, EndpointsTyped DEF Recorded, RootsOf
<1>7. TypeOK'
  <2>1. state' \in [Node -> State]
    BY <1>3, <1>4
  <2>2. deps' \subseteq nodes \X nodes
    BY <1>2, <1>6 DEF TypeOK
  <2>3. DependantsOf(deps', node) \subseteq nodes
    BY <2>2 DEF DependantsOf
  <2>4. worklist' \subseteq nodes /\ postprocess' \subseteq nodes
        /\ widened' \subseteq nodes
    BY <1>2, <1>3, <1>6, <2>3 DEF TypeOK
  <2> QED BY <1>2, <1>5, <2>1, <2>2, <2>4 DEF TypeOK, visit_vars
<1>8. Control' /\ Collected' /\ Dependencies'
  BY <1>2, <1>5 DEF Control, Collected, Dependencies, MidVisit
\* The states of the other nodes stay as they are; the new state of the node is
\* above what was accumulated.
<1>9. /\ \A w \in Node : w # node => state'[w] = state[w]
      /\ ~Propagates(acc) => state'[node] = state[node]
      /\ state'[node] \in State /\ Geq(state'[node], acc)
  <2>1. CASE Propagates(acc)
    BY <2>1, <1>3, <1>4, DomainAssumption
  <2>2. CASE ~Propagates(acc)
    BY <2>2, <1>3, <1>4 DEF Propagates, Equal
  <2> QED BY <2>1, <2>2
<1>10. ASSUME NEW v \in InEdges(node) PROVE v \in Node /\ <<v, node>> \in Edges
  BY <1>10 DEF InEdges, TypeOK
\* Whatever reads the state of the node is scheduled if that state changes.
<1>11. ASSUME NEW v, node \in InEdges(v), Propagates(acc) PROVE v \in worklist'
  <2>1. <<node, v>> \in deps'
    BY <1>11, <1>2 DEF InEdges, Dependencies
  <2>2. v \in DependantsOf(deps', node)
    <3>1. <<node, v>> \in {d \in deps' : d[1] = node} /\ <<node, v>>[2] = v
      BY <2>1
    <3> QED BY <3>1 DEF DependantsOf
  <2> QED BY <2>2, <1>3, <1>11
<1>12. ASSUME NEW v \in nodes PROVE Covered(v)'
  <2>1. CASE v \in Scheduled
    BY <2>1, <1>2, <1>3 DEF Covered, Scheduled
  <2>2. CASE InEdges(v) = {} /\ v \in Endpoints(rec)
    <3>1. v \in Recorded
      BY <2>2, <1>6 DEF Recorded, RootsOf, InEdges, TypeOK
    <3> QED BY <3>1, <1>3 DEF Covered, Scheduled
  <2>3. CASE v # node /\ SolvedAt(v)
    <3>1. CASE v \in worklist'
      BY <3>1 DEF Covered, Scheduled
    <3>2. CASE v \notin worklist'
      <4>1. InEdges(v)' = InEdges(v)
        BY <1>5 DEF InEdges, Edges, graph_vars
      <4>2. state'[v] = state[v]
        BY <2>3, <1>9 DEF TypeOK
      <4>3. ASSUME NEW u \in InEdges(v), Tracked(<<u, v>>) PROVE EdgeSolved(u, v)'
        <5>1. state'[u] = state[u]
          <6>1. CASE u = node
            BY <6>1, <3>2, <1>9, <1>11
          <6>2. CASE u # node
            BY <6>2, <1>9 DEF InEdges, TypeOK
          <6> QED BY <6>1, <6>2
        <5>2. EdgeSolved(u, v)
          BY <2>3, <4>3 DEF SolvedAt
        <5> QED BY <5>1, <5>2, <4>2, <1>5 DEF EdgeSolved
      <4>4. \A u : Tracked(<<u, v>>)' <=> Tracked(<<u, v>>)
        BY <1>5 DEF Tracked
      <4>5. SolvedAt(v)'
        BY <4>1, <4>2, <4>3, <4>4, <2>3 DEF SolvedAt
      <4> QED BY <4>5 DEF Covered
    <3> QED BY <3>1, <3>2
  <2>4. CASE v = node
    <3>1. CASE node \in updated_dirty \/ node \in worklist'
      BY <2>4, <3>1, <1>3 DEF Covered, Scheduled
    <3>2. CASE node \notin updated_dirty /\ node \notin worklist'
      <4>1. InEdges(node)' = InEdges(node)
        BY <1>2, <1>5 DEF InEdges, visit_vars
      <4>2. ASSUME InEdges(node) = {} PROVE Geq(state'[node], StartState(node))
        <5>1. starting /\ node \in constraints \ todo
          BY <4>2, <1>2 DEF Collected
        <5>2. Geq(acc, StartState(node))
          BY <5>1, <1>2 DEF Collected, Evaluated
        <5>3. StartState(node) \in State
          BY <1>4, TransformAssumption
        <5> QED BY <5>2, <5>3, <1>4, <1>9, GeqTransitive
      <4>3. ASSUME NEW u \in InEdges(node), Tracked(<<u, node>>)
            PROVE  EdgeSolved(u, node)'
        <5>1. ~starting /\ u \in constraints \ todo
          BY <4>3, <3>2, <1>2 DEF Collected, Overlooked
        <5>2. Geq(acc, Transform(u, node, payload[<<u, node>>], state[u]))
          BY <5>1, <1>2 DEF Collected, Evaluated
        <5>3. u \in Node /\ payload[<<u, node>>] \in Payload /\ state[u] \in State
          BY <1>4, <1>10 DEF TypeOK
        <5>4. Transform(u, node, payload[<<u, node>>], state[u]) \in State
          BY <5>3, <1>4, TransformAssumption
        <5>5. Geq(state'[node], Transform(u, node, payload[<<u, node>>], state[u]))
          BY <5>2, <5>4, <1>4, <1>9, GeqTransitive
        <5>6. state'[u] = state[u]
          <6>1. CASE u = node
            BY <6>1, <3>2, <1>9, <1>11
          <6>2. CASE u # node
            BY <6>2, <5>3, <1>9
          <6> QED BY <6>1, <6>2
        <5> QED BY <5>5, <5>6, <1>2, <1>5 DEF EdgeSolved, visit_vars
      <4>4. \A u : Tracked(<<u, node>>)' <=> Tracked(<<u, node>>)
        BY <1>2, <1>5 DEF Tracked, visit_vars
      <4>5. SolvedAt(node)'
        BY <4>1, <4>2, <4>3, <4>4, <1>2 DEF SolvedAt, visit_vars
      <4> QED BY <2>4, <4>5, <1>2 DEF Covered, visit_vars
    <3> QED BY <3>1, <3>2
  <2> QED BY <2>1, <2>2, <2>3, <2>4 DEF Covered
<1> QED BY <1>5, <1>7, <1>8, <1>12

LEMMA NextIInv == IInv /\ [Next]_vars => IInv'
<1> SUFFICES ASSUME IInv, [Next]_vars PROVE IInv'
  OBVIOUS
<1>1. CASE UNCHANGED vars
  BY <1>1 DEF vars, graph_vars, analysis_vars, queue_vars, visit_vars, IInv,
       TypeOK, Control, Dependencies, Collected, MidVisit, Covered, Scheduled,
       SolvedAt, EdgeSolved, InEdges, Edges, Tracked, Overlooked, Evaluated
<1> QED BY <1>1, ChangeIInv, StartIInv, PostprocessEndIInv, PopIInv,
           EvaluateIInv, FinishIInv DEF Next, Iterate

-----------------------------------------------------------------------------

LEMMA IInvSolution == IInv => Solution
<1> SUFFICES ASSUME IInv, Stable, NEW v \in nodes PROVE SolvedAt(v)
  BY DEF Solution
<1>1. Scheduled = {} /\ ~MidVisit /\ rec = {}
  BY DEF IInv, Control, Scheduled, Stable, MidVisit
<1> QED BY <1>1 DEF IInv, Covered, Endpoints

\* The engine's data keep their types for every instance: the queues hold nodes
\* of the graph only, the dependencies and the recorder edges among them.
THEOREM TypeCorrect == Strict => (Spec => []TypeOK)
<1> SUFFICES ASSUME Strict PROVE Spec => []TypeOK
  OBVIOUS
<1>1. IInv => TypeOK
  BY DEF IInv
<1> QED BY InitIInv, NextIInv, <1>1, PTL DEF Spec

\* Whenever iterate has returned and nothing is pending, the states solve the
\* constraint of every edge the engine vouches for, and every node without
\* predecessors has its start state: for every graph and every way it grows,
\* every domain, every strict transformer (monotone or not), every jump
\* direction and every order of the worklist.
THEOREM SolutionSafe == Strict => (Spec => []Solution)
<1> SUFFICES ASSUME Strict PROVE Spec => []Solution
  OBVIOUS
<1> QED BY InitIInv, NextIInv, IInvSolution, PTL DEF Spec

-----------------------------------------------------------------------------
\* A visit that widened changes the state of its node, so the node is among
\* those postprocessed, and what is postprocessed is visited before the end.

Revisit == postprocess \cup worklist \cup pending
             \cup (IF MidVisit THEN {node} ELSE {})

WInv == /\ widened \subseteq Revisit
        /\ MidVisit /\ needs_postprocessing =>
             /\ accumulator # {}
             /\ \A acc \in accumulator : ~Geq(state[node], acc)
        /\ MidVisit /\ node \in widened => needs_postprocessing

LEMMA BoxGrows ==
  ASSUME TypeOK, NEW s \in State, NEW t \in State, Box(s, t).widened
  PROVE  ~Geq(s, Box(s, t).state)
<1>1. ~Geq(s, t) /\ Box(s, t).state = Widen(s, t)
  BY DEF Box
<1>2. Widen(s, t) \in State /\ Geq(Widen(s, t), t)
  BY DomainAssumption
<1> QED BY <1>1, <1>2, GeqTransitive

LEMMA EvaluateWInv == ASSUME IInv, WInv, Evaluate PROVE WInv'
<1>1. PICK u \in todo :
        /\ Accumulate(u)
        /\ widened' = IF Boxed(u).widened THEN widened \cup {node} ELSE widened
  BY DEF Evaluate
<1>2. /\ UNCHANGED <<state, node, pending, worklist, postprocess>>
      /\ MidVisit /\ MidVisit'
  BY DEF Evaluate, MidVisit, queue_vars
<1>3. /\ state[node] \in State /\ Evaluated(u) \in State
      /\ Boxed(u).state \in State /\ accumulator \subseteq State
  <2>1. u \in constraints /\ node \in nodes /\ node \in Node /\ nodes \subseteq Node
    BY DEF IInv, TypeOK
  <2>2. Evaluated(u) \in State
    <3>1. CASE starting
      BY <3>1, <2>1, TransformAssumption DEF Evaluated
    <3>2. CASE ~starting
      <4>1. u \in nodes /\ <<u, node>> \in Edges
        BY <3>2, <2>1, <1>2 DEF IInv, Collected, InEdges
      <4>2. u \in Node /\ payload[<<u, node>>] \in Payload /\ state[u] \in State
        BY <4>1, <2>1 DEF IInv, TypeOK
      <4> QED BY <4>2, <3>2, <2>1, TransformAssumption DEF Evaluated
    <3> QED BY <3>1, <3>2
  <2>3. state[node] \in State /\ accumulator \subseteq State
    BY <2>1 DEF IInv, TypeOK
  <2>4. Boxed(u).state \in State
    <3>1. CASE Geq(state[node], Evaluated(u))
      BY <3>1, <2>2, <2>3, DomainAssumption DEF Boxed, Box
    <3>2. CASE ~Geq(state[node], Evaluated(u))
      BY <3>2, <2>2, <2>3, DomainAssumption DEF Boxed, Box
    <3> QED BY <3>1, <3>2
  <2> QED BY <2>2, <2>3, <2>4
<1>4. Boxed(u).widened => ~Geq(state[node], Boxed(u).state)
  BY <1>3, BoxGrows DEF Boxed, IInv
<1>5. ASSUME needs_postprocessing', NEW acc \in accumulator'
      PROVE  ~Geq(state[node], acc)
  <2>1. CASE accumulator = {}
    <3>1. acc = Boxed(u).state
      BY <2>1, <1>1, <1>5 DEF Accumulate
    <3>2. CASE Boxed(u).widened
      BY <3>1, <3>2, <1>4
    <3>3. CASE ~Boxed(u).widened
      <4>1. needs_postprocessing
        BY <3>3, <1>1, <1>5 DEF Accumulate
      <4> QED BY <4>1, <2>1, <1>2 DEF WInv
    <3> QED BY <3>2, <3>3
  <2>2. CASE accumulator # {}
    <3>1. PICK a \in accumulator : acc = Join(Boxed(u).state, a)
      BY <2>2, <1>1, <1>5 DEF Accumulate
    <3>2. acc \in State /\ Geq(acc, Boxed(u).state) /\ Geq(acc, a) /\ a \in State
      BY <3>1, <1>3, DomainAssumption
    <3>3. CASE Boxed(u).widened
      BY <3>2, <3>3, <1>3, <1>4, GeqTransitive
    <3>4. CASE ~Boxed(u).widened
      <4>1. needs_postprocessing
        BY <3>4, <1>1, <1>5 DEF Accumulate
      <4>2. ~Geq(state[node], a)
        BY <4>1, <1>2 DEF WInv
      <4> QED BY <3>2, <4>2, <1>3, GeqTransitive
    <3> QED BY <3>3, <3>4
  <2> QED BY <2>1, <2>2
<1>6. accumulator' # {}
  BY <1>1 DEF Accumulate
<1>7. node \in widened' => needs_postprocessing'
  BY <1>1, <1>2 DEF Accumulate, WInv
<1>8. widened' \subseteq Revisit'
  BY <1>1, <1>2 DEF WInv, Revisit
<1> QED BY <1>2, <1>5, <1>6, <1>7, <1>8 DEF WInv

LEMMA FinishWInv == ASSUME IInv, WInv, Finish PROVE WInv'
<1>1. PICK acc \in accumulator : FinishWith(acc)
  BY DEF Finish
<1>2. /\ MidVisit /\ ~MidVisit' /\ node' = node
      /\ widened' = widened
      /\ worklist \subseteq worklist' /\ pending' = pending
  BY <1>1 DEF Finish, FinishWith, MidVisit, visit_vars
<1>3. needs_postprocessing => Propagates(acc)
  BY <1>2 DEF WInv, Propagates, Equal
<1>4. postprocess' = IF needs_postprocessing THEN postprocess \cup {node}
                                             ELSE postprocess
  BY <1>1, <1>3 DEF FinishWith
<1> QED BY <1>2, <1>4 DEF WInv, Revisit

LEMMA NextWInv == IInv /\ WInv /\ [Next]_vars => WInv'
<1> SUFFICES ASSUME IInv, WInv, [Next]_vars PROVE WInv'
  OBVIOUS
<1>1. CASE Change \/ Start
  <2>1. widened = {} /\ widened' = {} /\ ~MidVisit'
    BY <1>1 DEF WInv, IInv, Control, Revisit, MidVisit, Change, Start
  <2> QED BY <2>1 DEF WInv
<1>2. CASE Postprocess \/ End
  BY <1>2 DEF WInv, Revisit, MidVisit, Postprocess, End
<1>3. CASE PopWorklist \/ PopPending
  BY <1>3 DEF WInv, Revisit, MidVisit, PopWorklist, PopPending, Visit
<1>4. CASE UNCHANGED vars
  BY <1>4 DEF WInv, Revisit, MidVisit, vars, queue_vars, visit_vars, analysis_vars
<1> QED BY <1>1, <1>2, <1>3, <1>4, EvaluateWInv, FinishWInv DEF Next, Iterate

\* No state is left widened when iterate returns: the node of a visit that
\* widened is visited again, although only visits that change a state are
\* postprocessed, and although a node enters the worklist in other ways.
THEOREM WideningSafe == Strict => (Spec => []WideningRevisited)
<1> SUFFICES ASSUME Strict PROVE Spec => []WideningRevisited
  OBVIOUS
<1>1. Init => WInv
  BY DEF Init, WInv, MidVisit
<1>2. IInv /\ WInv => WideningRevisited
  BY DEF IInv, WInv, Control, Revisit, MidVisit, WideningRevisited
<1> QED BY InitIInv, NextIInv, <1>1, NextWInv, <1>2, PTL DEF Spec

-----------------------------------------------------------------------------
\* The engine implements the abstract constraint system.

\* Outside of a visit nothing is marked: Start and Finish schedule what is.
Unmarked == pc = "select" => updated_dirty = {}

LEMMA NextUnmarked == Unmarked /\ [Next]_vars => Unmarked'
<1> SUFFICES ASSUME Unmarked, [Next]_vars PROVE Unmarked'
  OBVIOUS
<1> USE DEF Unmarked
<1>1. CASE Change
  BY <1>1 DEF Change
<1>2. CASE Start
  BY <1>2 DEF Start
<1>3. CASE Postprocess \/ End
  BY <1>3 DEF Postprocess, End
<1>4. CASE PopWorklist \/ PopPending
  BY <1>4 DEF PopWorklist, PopPending, Visit
<1>5. CASE Evaluate
  BY <1>5 DEF Evaluate
<1>6. CASE Finish
  BY <1>6 DEF Finish
<1>7. CASE UNCHANGED vars
  BY <1>7 DEF vars
<1> QED BY <1>1, <1>2, <1>3, <1>4, <1>5, <1>6, <1>7 DEF Next, Iterate

LEMMA KnownTracked == ASSUME NEW e \in Edges
                      PROVE  e \in (IF Observed THEN Edges ELSE initial) <=> Tracked(e)
BY DEF Tracked

LEMMA EndReturns == ASSUME IInv, Unmarked, End PROVE CS!Return
<1>1. Scheduled = {} /\ ~MidVisit /\ rec = {}
  BY DEF IInv, Control, Scheduled, End, MidVisit, Unmarked
<1>2. ASSUME NEW v \in nodes PROVE CS!SolvedAt(v)
  <2>1. SolvedAt(v)
    BY <1>1 DEF IInv, Covered, Endpoints
  <2>2. CS!InEdges(v) = InEdges(v)
    BY DEF CS!InEdges, InEdges, CS!Edges, Edges
  <2>3. \A u \in InEdges(v) : <<u, v>> \in Edges
    BY DEF InEdges
  <2> QED BY <2>1, <2>2, <2>3, KnownTracked DEF CS!SolvedAt, SolvedAt, EdgeSolved
<1>3. UNCHANGED <<nodes, payload, state, initial>> /\ pc = "select" /\ pc' = "idle"
  BY DEF End, graph_vars, analysis_vars
<1> QED BY <1>2, <1>3 DEF CS!Return, Edges

LEMMA ChangeChanges == ASSUME IInv, IInv', Change PROVE CS!Change
<1>1. pc = "idle" /\ pc' = "idle" /\ Observed /\ UNCHANGED state
  BY DEF Change
<1>2. PICK c \in Changes : Apply(c.put, c.erase)
  BY DEF Change
<1>3. nodes \subseteq nodes' /\ nodes' \subseteq Node
  BY <1>2 DEF Apply, IInv, TypeOK
<1> QED BY <1>1, <1>3 DEF CS!Change, CS!Learn, CS!Edges, Edges

LEMMA EvaluateGrows == ASSUME IInv, IInv', Evaluate PROVE CS!Grow
<1>1. /\ pc = "evaluate" /\ pc' # "idle"
      /\ UNCHANGED <<state, initial>>
  BY DEF Evaluate
<1>2. PICK u \in todo : Apply([e \in Found(u) |-> NewPayload(e)], {})
  BY DEF Evaluate
<1>3. nodes \subseteq nodes' /\ nodes' \subseteq Node
  BY <1>2 DEF Apply, IInv, TypeOK
<1>4. Found(u) \cap Edges = {}
  BY <1>1, FoundTyped DEF IInv
<1>5. \A e \in Edges : e \in Edges' /\ payload'[e] = payload[e]
  BY <1>2, <1>4 DEF Apply, Edges
<1> QED BY <1>1, <1>3, <1>5 DEF CS!Grow, CS!Learn, CS!Edges, Edges

LEMMA FinishUpdates == ASSUME IInv, Finish PROVE (\E v \in nodes : CS!Update(v)) \/ UNCHANGED CS!vars
<1>1. /\ UNCHANGED <<nodes, payload, initial>>
      /\ pc = "finish" /\ pc' = "select"
  BY DEF Finish, graph_vars
<1>2. PICK acc \in accumulator : FinishWith(acc)
  BY DEF Finish
<1>3. acc \in State /\ node \in nodes
  BY DEF IInv, TypeOK
<1>4. CASE Propagates(acc)
  <2>1. state' = [state EXCEPT ![node] = acc]
    BY <1>2, <1>4 DEF FinishWith
  <2>2. CS!Update(node)
    BY <1>1, <1>3, <2>1 DEF CS!Update, Edges
  <2> QED BY <1>3, <2>2
<1>5. CASE ~Propagates(acc)
  <2>1. UNCHANGED state
    BY <1>2, <1>5 DEF FinishWith
  <2> QED BY <1>1, <2>1 DEF CS!vars, Edges
<1> QED BY <1>4, <1>5

LEMMA OthersStutter ==
  ASSUME IInv, Postprocess \/ PopWorklist \/ PopPending \/ UNCHANGED vars
  PROVE  UNCHANGED CS!vars
<1>1. UNCHANGED <<nodes, payload, state, initial>>
  BY DEF Postprocess, PopWorklist, PopPending, Visit, vars, graph_vars, analysis_vars
<1>2. (pc # "idle")' = (pc # "idle")
  BY DEF Postprocess, PopWorklist, PopPending, Visit, vars
<1> QED BY <1>1, <1>2 DEF CS!vars, Edges

LEMMA StartCalls == ASSUME IInv, Start PROVE CS!Call
<1>1. UNCHANGED <<nodes, payload, state, initial>> /\ pc = "idle" /\ pc' = "select"
  BY DEF Start, graph_vars
<1> QED BY <1>1 DEF CS!Call, Edges

LEMMA InitMaps == ASSUME Init PROVE CS!Init
BY DEF Init, CS!Init, CS!Edges, Edges

\* Every iteration of the engine is one of the abstract system: states change one
\* at a time, the graph only grows while it runs, and it returns only from a
\* solution, for every instance with strict transformers.
THEOREM Refinement == Strict => (Spec => Implements)
<1> SUFFICES ASSUME Strict PROVE Spec => Implements
  OBVIOUS
<1>1. Init => CS!Init
  BY InitMaps
<1>2. Init => Unmarked
  BY DEF Init, Unmarked
<1>3. IInv /\ IInv' /\ Unmarked /\ [Next]_vars => [CS!Next]_CS!vars
  BY StartCalls, EndReturns, ChangeChanges, EvaluateGrows, FinishUpdates, OthersStutter
     DEF Next, Iterate, CS!Next
<1> QED BY InitIInv, NextIInv, NextUnmarked, <1>1, <1>2, <1>3, PTL DEF Spec, Implements, CS!Spec

-----------------------------------------------------------------------------
\* Nothing is above the least solution.  The nodes that have no edge to them stay the
\* same, so whatever solves a graph solves the smaller ones it has grown from; and
\* what is below a solution stays below it when a monotone constraint is evaluated.

\* The graph is the initial one and what was found.
Grown ==
  /\ InitNodes \subseteq nodes
  /\ \E g \in InitGraphs : DOMAIN g \subseteq Edges
  /\ \A v \in nodes \ InitNodes : InEdges(v) # {}
  /\ \A v \in Node \ nodes : state[v] = Bottom
  /\ MidVisit /\ starting => InEdges(node) = {}

\* The states, and what a visit has accumulated, are below s.
Below(s) ==
  /\ \A v \in Node : v \in nodes => Geq(s[v], state[v])
  /\ MidVisit => \A acc \in accumulator : Geq(s[node], acc)

LInv ==
  changes = 0 => Grown /\ \A s \in [Node -> State] : Solves(s) => Below(s)

LEMMA InitLInv == ASSUME Monotone, IInv, Init PROVE LInv
<1>1. ASSUME NEW v \in nodes \ InitNodes PROVE FALSE
  BY <1>1 DEF Init
<1>2. Grown
  BY <1>1 DEF Grown, Init, Edges, MidVisit
<1>3. ASSUME NEW s \in [Node -> State] PROVE Below(s)
  <2>1. \A v \in Node : s[v] \in State /\ state[v] = Bottom
    BY DEF Init
  <2> QED BY <2>1 DEF Below, Init, MidVisit, Monotone
<1> QED BY <1>2, <1>3 DEF LInv

\* An action that leaves the graph, the states and the visit alone.
LEMMA IdleLInv ==
  ASSUME LInv, UNCHANGED <<graph_vars, state, changes>>, ~MidVisit'
  PROVE  LInv'
BY DEF LInv, Grown, Below, Solves, graph_vars, Edges, InEdges

LEMMA PopLInv == ASSUME LInv, PopWorklist \/ PopPending PROVE LInv'
<1>1. PICK n : Visit(n)
  BY DEF PopWorklist, PopPending
<1>2. /\ UNCHANGED <<graph_vars, state, changes>> /\ accumulator' = {}
      /\ node' = n /\ starting' = (InEdges(n) = {})
  BY <1>1 DEF Visit, analysis_vars
<1>3. InEdges(n)' = InEdges(n) /\ Edges' = Edges
  BY <1>2 DEF graph_vars, InEdges, Edges
<1>4. Grown => Grown'
  BY <1>2, <1>3 DEF Grown, graph_vars, InEdges
<1>5. \A s : Below(s) => Below(s)'
  BY <1>2 DEF Below, graph_vars
<1>6. \A s : Solves(s)' <=> Solves(s)
  BY <1>2 DEF Solves, graph_vars, InEdges, Edges
<1> QED BY <1>2, <1>4, <1>5, <1>6 DEF LInv

\* The nodes a found edge leads to had one before, or are new.
LEMMA FoundEntries ==
  ASSUME EntriesKept, IInv, Grown, pc = "evaluate", NEW u \in todo, NEW e \in Found(u)
  PROVE  /\ e[2] \in nodes => InEdges(e[2]) # {}
         /\ \/ e[1] \in nodes
            \/ \E d \in Found(u) : d[2] = e[1]
<1>1. ~starting
  BY DEF Found
<1>2. /\ u \in Node /\ node \in Node /\ node \in nodes
      /\ payload[<<u, node>>] \in Payload /\ state[u] \in State
  BY <1>1 DEF IInv, TypeOK, Collected, MidVisit, InEdges
<1> DEFINE D == Discovers(u, node, payload[<<u, node>>], state[u])
<1>3. e \in D /\ Found(u) = D \ Edges /\ D \subseteq Node \X Node
  BY <1>1, <1>2, TransformAssumption DEF Found
<1>4. /\ e[2] \in InitNodes => \A g \in InitGraphs : \E w \in InitNodes : <<w, e[2]>> \in DOMAIN g
      /\ e[1] \in InitNodes \cup {node} \/ \E d \in D : d[2] = e[1]
  BY <1>2, <1>3 DEF EntriesKept
<1>5. e[2] \in nodes => InEdges(e[2]) # {}
  <2>1. CASE e[2] \in InitNodes
    <3>1. PICK g \in InitGraphs : DOMAIN g \subseteq Edges
      BY DEF Grown
    <3>2. PICK w \in InitNodes : <<w, e[2]>> \in Edges
      BY <2>1, <3>1, <1>4
    <3> QED BY <3>2 DEF InEdges, Grown
  <2> QED BY <2>1 DEF Grown
<1>6. \/ e[1] \in nodes
      \/ \E d \in Found(u) : d[2] = e[1]
  <2>1. CASE e[1] \in InitNodes \cup {node}
    BY <2>1, <1>2 DEF Grown
  <2>2. CASE \E d \in D : d[2] = e[1]
    <3>1. PICK d \in D : d[2] = e[1]
      BY <2>2
    <3>2. d \in Edges => d[2] \in nodes
      BY DEF IInv, TypeOK
    <3> QED BY <3>1, <3>2, <1>3
  <2> QED BY <2>1, <2>2, <1>4
<1> QED BY <1>5, <1>6

LEMMA EvaluateLInv ==
  ASSUME Monotone, EntriesKept, IInv, IInv', LInv, Evaluate, changes = 0
  PROVE  LInv'
<1>1. PICK u \in todo : /\ Apply([e \in Found(u) |-> NewPayload(e)], {})
                        /\ Accumulate(u)
  BY DEF Evaluate
<1>2. /\ pc = "evaluate" /\ MidVisit
      /\ UNCHANGED <<state, node, starting, changes>>
  BY DEF Evaluate, MidVisit
<1> DEFINE F == Found(u)
<1>3. Grown
  BY DEF LInv
<1>4. F \cap Edges = {}
  BY <1>2, FoundTyped DEF IInv
<1>5. /\ Edges' = Edges \cup F /\ nodes' = nodes \cup Endpoints(F)
      /\ \A e \in Edges : payload'[e] = payload[e]
  BY <1>1, <1>4 DEF Apply, Edges
<1>6. \A v \in nodes : InEdges(v) \subseteq InEdges(v)'
  BY <1>5 DEF InEdges
<1>7. F \subseteq Node \X Node
  BY <1>2, FoundTyped DEF IInv
<1>8. ASSUME NEW v \in nodes, InEdges(v) = {} PROVE InEdges(v)' = {}
  <2>1. ASSUME NEW w \in InEdges(v)' PROVE FALSE
    <3>1. <<w, v>> \in Edges \cup F
      BY <2>1, <1>5 DEF InEdges
    <3>2. CASE <<w, v>> \in Edges
      BY <3>2, <1>8 DEF InEdges, IInv, TypeOK
    <3>3. CASE <<w, v>> \in F
      BY <3>3, <1>2, <1>3, <1>8, FoundEntries
    <3> QED BY <3>1, <3>2, <3>3
  <2> QED BY <2>1
<1>9. ASSUME NEW v \in nodes' \ nodes PROVE InEdges(v)' # {}
  <2>1. PICK e \in F : v = e[1] \/ v = e[2]
    BY <1>5 DEF Endpoints
  <2>2. PICK d \in F : d[2] = v
    BY <2>1, <1>2, <1>3, <1>9, FoundEntries
  <2>3. d = <<d[1], v>> /\ d[1] \in nodes'
    BY <2>2, <1>5, <1>7 DEF Endpoints
  <2> QED BY <2>2, <2>3, <1>5 DEF InEdges
<1>10. Grown'
  <2>1. \A v \in nodes' \ InitNodes : InEdges(v)' # {}
    BY <1>3, <1>6, <1>9 DEF Grown
  <2>2. MidVisit' /\ starting' => InEdges(node)' = {}
    BY <1>2, <1>3, <1>8 DEF Grown, IInv, TypeOK
  <2>3. (\E g \in InitGraphs : DOMAIN g \subseteq Edges') /\ InitNodes \subseteq nodes'
    BY <1>3, <1>5 DEF Grown
  <2>4. \A v \in Node \ nodes' : state'[v] = Bottom
    BY <1>2, <1>3, <1>5 DEF Grown
  <2> QED BY <2>1, <2>2, <2>3, <2>4, <1>2 DEF Grown
<1>11. ASSUME NEW s \in [Node -> State], Solves(s)' PROVE Below(s)'
  <2>1. Solves(s)
    <3>1. ASSUME NEW v \in nodes, InEdges(v) = {} PROVE Geq(s[v], StartState(v))
      BY <3>1, <1>5, <1>8, <1>11 DEF Solves
    <3>2. ASSUME NEW v \in nodes, NEW w \in InEdges(v)
          PROVE  Geq(s[v], Transform(w, v, payload[<<w, v>>], s[w]))
      <4>1. w \in InEdges(v)' /\ v \in nodes' /\ <<w, v>> \in Edges
        BY <3>2, <1>5, <1>6 DEF InEdges
      <4>2. payload'[<<w, v>>] = payload[<<w, v>>]
        BY <4>1, <1>5
      <4> QED BY <4>1, <4>2, <1>11 DEF Solves
    <3> QED BY <3>1, <3>2 DEF Solves
  <2>2. Below(s)
    BY <2>1, <1>2 DEF LInv
  <2>3. /\ node \in nodes /\ node \in Node /\ u \in constraints
        /\ s[node] \in State /\ state[node] \in State
        /\ accumulator \subseteq State
    BY DEF IInv, TypeOK
  <2>4. Evaluated(u) \in State /\ Boxed(u).state \in State
    BY <1>2, BoxedAbove DEF IInv
  <2>5. Geq(s[node], state[node])
    BY <2>2, <2>3 DEF Below
  <2>6. Geq(s[node], Evaluated(u))
    <3>1. CASE starting
      BY <3>1, <2>1, <2>3, <1>2, <1>3 DEF Evaluated, Solves, Grown
    <3>2. CASE ~starting
      <4>1. u \in InEdges(node) /\ u \in nodes /\ u \in Node
        BY <3>2, <2>3, <1>2 DEF IInv, Collected, InEdges, TypeOK
      <4>2. payload[<<u, node>>] \in Payload /\ s[u] \in State /\ state[u] \in State
        BY <4>1 DEF IInv, TypeOK, InEdges
      <4>3. Geq(s[u], state[u])
        BY <4>1, <2>2 DEF Below
      <4>4. Geq(Transform(u, node, payload[<<u, node>>], s[u]), Evaluated(u))
        BY <3>2, <4>1, <4>2, <4>3, <2>3 DEF Monotone, Evaluated
      <4>5. Geq(s[node], Transform(u, node, payload[<<u, node>>], s[u]))
        BY <4>1, <2>1, <2>3 DEF Solves
      <4>6. Transform(u, node, payload[<<u, node>>], s[u]) \in State
        BY <4>1, <4>2, <2>3, TransformAssumption
      <4> QED BY <4>4, <4>5, <4>6, <2>3, <2>4, GeqTransitive
    <3> QED BY <3>1, <3>2
  <2>7. Geq(s[node], Boxed(u).state)
    BY <2>3, <2>4, <2>5, <2>6 DEF Monotone, Boxed, Box
  <2>8. ASSUME NEW acc \in accumulator' PROVE Geq(s[node], acc)
    <3>1. CASE accumulator = {}
      BY <3>1, <2>7, <2>8, <1>1 DEF Accumulate
    <3>2. CASE accumulator # {}
      <4>1. PICK a \in accumulator : acc = Join(Boxed(u).state, a)
        BY <3>2, <2>8, <1>1 DEF Accumulate
      <4>2. Geq(s[node], a) /\ a \in State
        BY <4>1, <2>2, <2>3, <1>2 DEF Below
      <4> QED BY <4>1, <4>2, <2>3, <2>4, <2>7 DEF Monotone
    <3> QED BY <3>1, <3>2
  <2>9. ASSUME NEW v \in Node, v \in nodes' PROVE Geq(s[v], state[v])
    <3>1. CASE v \in nodes
      BY <3>1, <2>2 DEF Below
    <3>2. CASE v \notin nodes
      BY <3>2, <1>3 DEF Grown, Monotone
    <3> QED BY <3>1, <3>2
  <2> QED BY <2>8, <2>9, <1>2 DEF Below
<1> QED BY <1>10, <1>11 DEF LInv

LEMMA FinishLInv == ASSUME IInv, LInv, Finish PROVE LInv'
<1>1. PICK acc \in accumulator : FinishWith(acc)
  BY DEF Finish
<1>2. /\ UNCHANGED <<graph_vars, node, starting, changes>>
      /\ MidVisit /\ ~MidVisit' /\ node \in nodes /\ node \in Node
      /\ state \in [Node -> State]
  BY DEF Finish, MidVisit, visit_vars, IInv, TypeOK
<1>3. state' = state \/ state' = [state EXCEPT ![node] = acc]
  BY <1>1 DEF FinishWith
<1>4. \A v \in Node : v # node => state'[v] = state[v]
  BY <1>2, <1>3
<1>5. Grown => Grown'
  BY <1>2, <1>4 DEF Grown, graph_vars, Edges, InEdges
<1>6. ASSUME NEW s, Below(s) PROVE Below(s)'
  <2>1. \A v \in Node : v \in nodes => Geq(s[v], state[v])
    BY <1>6 DEF Below
  <2>2. Geq(s[node], acc)
    BY <1>2, <1>6 DEF Below
  <2>3. state'[node] = state[node] \/ state'[node] = acc
    BY <1>2, <1>3
  <2>4. \A v \in Node : v \in nodes => Geq(s[v], state'[v])
    BY <2>1, <2>2, <2>3, <1>2, <1>4
  <2> QED BY <2>4, <1>2 DEF Below, graph_vars
<1>7. \A s : Solves(s)' <=> Solves(s)
  BY <1>2 DEF Solves, graph_vars, InEdges, Edges
<1> QED BY <1>2, <1>5, <1>6, <1>7 DEF LInv

LEMMA NextLInv ==
  ASSUME Monotone, EntriesKept, IInv, IInv', LInv, [Next]_vars
  PROVE  LInv'
<1>1. CASE Change
  <2>1. changes' # 0
    BY <1>1 DEF Change, IInv, TypeOK
  <2> QED BY <2>1 DEF LInv
<1>2. CASE Start \/ Postprocess \/ End
  <2>1. UNCHANGED <<graph_vars, state, changes>> /\ ~MidVisit'
    BY <1>2 DEF Start, Postprocess, End, MidVisit, analysis_vars
  <2> QED BY <2>1, IdleLInv
<1>3. CASE UNCHANGED vars
  BY <1>3 DEF vars, LInv, Grown, Below, Solves, graph_vars, analysis_vars, visit_vars,
              Edges, InEdges, MidVisit
<1>4. CASE Evaluate
  <2>1. changes' = changes
    BY <1>4 DEF Evaluate
  <2> QED BY <1>4, <2>1, EvaluateLInv DEF LInv
<1> QED BY <1>1, <1>2, <1>3, <1>4, PopLInv, FinishLInv DEF Next, Iterate

\* For a domain whose widening does no more than its join and monotone transformers,
\* no state is ever above a solution of the graph, in whatever order the nodes are
\* visited, whatever edges are found, and however often a visit repeats another.
THEOREM BelowSafe == Strict /\ Monotone /\ EntriesKept => (Spec => []BelowSolutions)
<1> SUFFICES ASSUME Strict, Monotone, EntriesKept PROVE Spec => []BelowSolutions
  OBVIOUS
<1>1. LInv /\ IInv => BelowSolutions
  <2> SUFFICES ASSUME LInv, IInv, changes = 0, NEW s \in [Node -> State], Solves(s), NEW v \in nodes
               PROVE  Geq(s[v], state[v])
    BY DEF BelowSolutions
  <2>1. v \in Node
    BY DEF IInv, TypeOK
  <2> QED BY <2>1 DEF LInv, Below
<1>2. IInv /\ Init => LInv
  BY InitLInv
<1>3. IInv /\ IInv' /\ LInv /\ [Next]_vars => LInv'
  BY NextLInv
<1> QED BY InitIInv, NextIInv, <1>1, <1>2, <1>3, PTL DEF Spec

\* An engine that observes its graph returns with the least solution of the graph it
\* leaves behind.
THEOREM LeastSafe == Strict /\ Monotone /\ EntriesKept /\ Observed => (Spec => []Least)
<1> SUFFICES ASSUME Strict, Monotone, EntriesKept, Observed PROVE Spec => []Least
  OBVIOUS
<1>1. Solution /\ BelowSolutions => Least
  BY DEF Solution, SolvedAt, EdgeSolved, Tracked, Least, Solves
<1> QED BY SolutionSafe, BelowSafe, <1>1, PTL

=============================================================================
