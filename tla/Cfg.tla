-------------------------------- MODULE Cfg --------------------------------
(***************************************************************************)
(* The control flow graph (class cfg) and how its changes reach those who  *)
(* observe it.                                                             *)
(*                                                                         *)
(* Every operation appends to the update list on top of a stack of lists.  *)
(* commit_updates hands the list to one observer after the other; an       *)
(* observer may change the graph in its turn (the decoder does, when an    *)
(* edge leads to code it has not translated yet), in a scope of its own    *)
(* whose updates are delivered with the next list.                         *)
(*                                                                         *)
(* Three observers are modelled: the decoder (analysis_dectran), the       *)
(* recorder of an analysis (fp_analysis) and the jump direction manager,   *)
(* which passes every list straight to its address analysis.               *)
(***************************************************************************)
EXTENDS Naturals, Sequences

CONSTANTS Graphs,    \* graphs that may be merged: [size, edges]
          MaxNodes,  \* bound on the number of nodes
          MaxOps,    \* bound on the number of operations on the graph
          MaxDepth   \* bound on the depth of the stack

ASSUME BoundAssumption == MaxNodes \in Nat /\ MaxOps \in Nat /\ MaxDepth \in Nat

ASSUME GraphsAssumption ==
  \A g \in Graphs : /\ g.size \in Nat \ {0}
                    /\ g.edges \subseteq (0 .. g.size - 1) \X (0 .. g.size - 1)

Observer == {"decoder", "analysis", "jd_manager"}

VARIABLES
  count,        \* node_payloads.size(): the nodes are 0 .. count - 1
  edges,        \* the keys of edge_payloads
  in_edges,     \* _in_edges, as the set of pairs <<predecessor, node>>
  updates_stack,
  observers,
  updates,      \* the list commit_updates is delivering
  at,           \* 0 outside of it; else the position of the next observer
  view,         \* the edges _dependants knows of, per analysis
  record, rec,  \* recorder::record and recorder::updates
  ops           \* number of operations so far

graph_vars == <<count, edges, in_edges, updates_stack, ops>>
commit_vars == <<updates, at>>
observer_vars == <<observers, view, record, rec>>
vars == <<graph_vars, commit_vars, observer_vars>>

Nodes == 0 .. count - 1
Kind == {"INSERT", "UPDATE", "ERASE"}

-----------------------------------------------------------------------------
(* Update lists.  Everybody who reads a list goes through it in order, and  *)
(* what an update does depends on its edge only, so a list is a function    *)
(* from the edges it names to the kind of the last update of each.          *)

\* vector::insert at the end: what comes later takes precedence.
Concat(first, second) ==
  [e \in DOMAIN first \cup DOMAIN second |->
     IF e \in DOMAIN second THEN second[e] ELSE first[e]]

\* Faulty variant: nothing is ever forgotten.
KnownForever(D, u) == D \cup {e \in DOMAIN u : u[e] # "ERASE"}

\* The edges somebody knows of who knew D and reads list u: both
\* fp_analysis::update and recorder::notify.
Known(D, u) == {e \in D \cup DOMAIN u : e \in DOMAIN u => u[e] # "ERASE"}

\* Faulty variant: the updates of the inner scope go before those of the outer.
PoppedBefore(stack) ==
  LET n == Len(stack) IN
  [i \in 1 .. n - 1 |->
     IF i = n - 1 THEN Concat(stack[n], stack[n - 1]) ELSE stack[i]]

\* pop_updates: the top list is appended to the one below.
Popped(stack) ==
  LET n == Len(stack) IN
  [i \in 1 .. n - 1 |->
     IF i = n - 1 THEN Concat(stack[n - 1], stack[n]) ELSE stack[i]]

Note(u) ==
  updates_stack' = [updates_stack EXCEPT ![Len(updates_stack)] = Concat(@, u)]

-----------------------------------------------------------------------------
(* Operations on the graph.  They are called while nothing is committed or  *)
(* by the decoder while it is notified.  Once an analysis is attached, it   *)
(* is its transformers that change the graph, while it records.             *)

Deciding == at = 0
Decoding == at \in DOMAIN observers /\ observers[at] = "decoder"
              /\ Len(updates_stack) = 2
Attached(o) == \E i \in DOMAIN observers : observers[i] = o
MayOperate == /\ Deciding => (Attached("analysis") => record)
              /\ Deciding \/ Decoding
              /\ ops < MaxOps

CreateNode ==
  /\ MayOperate
  /\ count < MaxNodes
  /\ count' = count + 1
  /\ UNCHANGED <<edges, in_edges, updates_stack, ops, commit_vars, observer_vars>>

\* update_edge and update_destroy_edge
UpdateEdge ==
  /\ MayOperate
  /\ \E from, to \in Nodes :
       LET e == <<from, to>> IN
       /\ edges' = edges \cup {e}
       /\ in_edges' = in_edges \cup {e}
       /\ Note([x \in {e} |-> IF e \in edges THEN "UPDATE" ELSE "INSERT"])
  /\ ops' = ops + 1
  /\ UNCHANGED <<count, commit_vars, observer_vars>>

\* Faulty variant: the cache of incoming edges is not kept up to date.
EraseOneSided(e) ==
  /\ edges' = edges \ {e}
  /\ in_edges' = in_edges
  /\ Note([x \in {e} |-> "ERASE"])

\* erase_edge and erase_destroy_edge
Erase(e) ==
  /\ edges' = edges \ {e}
  /\ in_edges' = in_edges \ {e}
  /\ Note([x \in {e} |-> "ERASE"])

EraseEdge ==
  /\ MayOperate
  /\ \E e \in edges : Erase(e)
  /\ ops' = ops + 1
  /\ UNCHANGED <<count, commit_vars, observer_vars>>

\* replace_node_payload: all edges that lead to the node are updated.
ReplaceNodePayload ==
  /\ MayOperate
  /\ \E n \in Nodes :
       Note([e \in {e \in in_edges : e[2] = n} |-> "UPDATE"])
  /\ ops' = ops + 1
  /\ UNCHANGED <<count, edges, in_edges, commit_vars, observer_vars>>

\* The node a node of the other graph becomes.
MappedId(offset, merge_node, other_merge_node, id) ==
  IF id < other_merge_node THEN offset + id
  ELSE IF id = other_merge_node THEN merge_node
  ELSE offset + id - 1

\* merge: the other graph is copied except for one of its nodes, which is put
\* in the place of merge_node.
Merge ==
  /\ MayOperate
  /\ \E other \in Graphs, merge_node \in Nodes :
     \E other_merge_node \in 0 .. other.size - 1 :
       LET mapped_id(id) == MappedId(count, merge_node, other_merge_node, id)
           copied == {<<mapped_id(e[1]), mapped_id(e[2])>> : e \in other.edges}
       IN /\ count' = count + other.size - 1
          /\ count' <= MaxNodes
          /\ edges' = edges \cup copied
          /\ in_edges' = in_edges \cup copied
          /\ Note([e \in copied |-> "INSERT"])
  /\ ops' = ops + 1
  /\ UNCHANGED <<commit_vars, observer_vars>>

\* push_updates, and the destructor of the object it returns.
PushUpdates ==
  /\ Deciding /\ Len(updates_stack) < MaxDepth
  /\ updates_stack' = Append(updates_stack, <<>>)
  /\ UNCHANGED <<count, edges, in_edges, ops, commit_vars, observer_vars>>

PopUpdates ==
  /\ Deciding /\ Len(updates_stack) > 1
  /\ updates_stack' = Popped(updates_stack)
  /\ UNCHANGED <<count, edges, in_edges, ops, commit_vars, observer_vars>>

\* clear_updates, when the first block of a function has been translated: no
\* analysis has been built then.
ClearUpdates ==
  /\ Deciding /\ Len(updates_stack) = 1
  /\ ~Attached("analysis") /\ ~Attached("jd_manager")
  /\ updates_stack' = <<(<<>>)>>
  /\ UNCHANGED <<count, edges, in_edges, ops, commit_vars, observer_vars>>

-----------------------------------------------------------------------------
(* commit_updates *)

\* It is called outside of all scopes.
Commit ==
  /\ Deciding /\ Len(updates_stack) = 1
  /\ Attached("analysis") => record
  /\ at' = Len(observers) + 1
  /\ UNCHANGED <<graph_vars, updates, observer_vars>>

\* The loop: the top list is taken until it is found empty.
NextUpdates ==
  /\ at = Len(observers) + 1
  /\ updates' = updates_stack[1]
  /\ updates_stack' = <<(<<>>)>>
  /\ at' = IF updates_stack[1] = <<>> THEN 0 ELSE 1
  /\ UNCHANGED <<count, edges, in_edges, ops, observer_vars>>

\* analysis_dectran::notify, from its push_updates to the end of the scope.
DecoderBegins ==
  /\ at \in DOMAIN observers /\ observers[at] = "decoder"
  /\ Len(updates_stack) = 1
  /\ updates_stack' = Append(updates_stack, <<>>)
  /\ UNCHANGED <<count, edges, in_edges, ops, commit_vars, observer_vars>>

DecoderEnds ==
  /\ Decoding
  /\ updates_stack' = Popped(updates_stack)
  /\ at' = at + 1
  /\ UNCHANGED <<count, edges, in_edges, ops, updates, observer_vars>>

\* jd_manager::notify
NotifyJdManager ==
  /\ at \in DOMAIN observers /\ observers[at] = "jd_manager"
  /\ view' = [view EXCEPT !["jd_manager"] = Known(@, updates)]
  /\ at' = at + 1
  /\ UNCHANGED <<graph_vars, updates, observers, record, rec>>

\* recorder::notify
NotifyRecorder ==
  /\ at \in DOMAIN observers /\ observers[at] = "analysis"
  /\ rec' = IF record THEN Known(rec, updates) ELSE rec
  /\ at' = at + 1
  /\ UNCHANGED <<graph_vars, updates, observers, view, record>>

-----------------------------------------------------------------------------
(* Observers come and go *)

\* The constructors read the graph as it is and register.  The decoder, which
\* owns the graph, registers before any analysis is built.
Register(o) ==
  /\ Deciding /\ ~Attached(o)
  /\ o = "decoder" => observers = <<>>
  /\ observers' = Append(observers, o)
  /\ view' = [view EXCEPT ![o] = edges]
  /\ UNCHANGED <<graph_vars, commit_vars, record, rec>>

\* Only the recorder of an analysis is ever unregistered.
Unregister ==
  /\ Deciding /\ Attached("analysis") /\ ~record
  /\ \E p \in DOMAIN observers :
       /\ observers[p] = "analysis"
       /\ observers' = [i \in 1 .. Len(observers) - 1 |->
                          observers[IF i < p THEN i ELSE i + 1]]
  /\ view' = [view EXCEPT !["analysis"] = {}]
  /\ UNCHANGED <<graph_vars, commit_vars, record, rec>>

\* record_updates and record_stop_commit, around the evaluation of a node.
RecordUpdates ==
  /\ Deciding /\ Attached("analysis") /\ ~record
  /\ record' = TRUE
  /\ UNCHANGED <<graph_vars, commit_vars, observers, view, rec>>

RecordStopCommit ==
  /\ Deciding /\ record
  /\ record' = FALSE
  /\ view' = [view EXCEPT !["analysis"] = @ \cup rec]
  /\ rec' = {}
  /\ UNCHANGED <<graph_vars, commit_vars, observers>>

-----------------------------------------------------------------------------

Init ==
  /\ count = 1 /\ edges = {} /\ in_edges = {}
  /\ updates_stack = <<(<<>>)>>
  /\ observers = <<>> /\ updates = <<>> /\ at = 0
  /\ view = [o \in Observer |-> {}]
  /\ record = FALSE /\ rec = {}
  /\ ops = 0

Operate == CreateNode \/ UpdateEdge \/ EraseEdge \/ ReplaceNodePayload \/ Merge
Scope == PushUpdates \/ PopUpdates \/ ClearUpdates
Deliver == NextUpdates \/ DecoderBegins \/ DecoderEnds \/ NotifyJdManager
             \/ NotifyRecorder
Observe == (\E o \in Observer : Register(o)) \/ Unregister \/ RecordUpdates
             \/ RecordStopCommit

Next == Operate \/ Scope \/ Commit \/ Deliver \/ Observe

Spec == Init /\ [][Next]_vars

-----------------------------------------------------------------------------

IsList(u) ==
  DOMAIN u \subseteq Nodes \X Nodes /\ \A e \in DOMAIN u : u[e] \in Kind

TypeOK ==
  /\ count \in Nat \ {0} /\ ops \in Nat
  /\ edges \subseteq Nodes \X Nodes
  /\ updates_stack # <<>>
  /\ \A i \in DOMAIN updates_stack : IsList(updates_stack[i])
  /\ IsList(updates)
  /\ observers \in Seq(Observer) /\ at \in 0 .. Len(observers) + 1
  /\ view \in [Observer -> SUBSET (Nodes \X Nodes)]
  /\ record \in BOOLEAN /\ rec \subseteq Nodes \X Nodes

\* The cache of incoming edges, which constraints_at and the backward
\* iterators read, is the converse of the edges after every operation.
InEdgesConverse == in_edges = edges

\* Nothing is waiting to be delivered.
Quiescent == Deciding /\ updates_stack = <<(<<>>)>>

\* When everything is committed, the address analysis has a dependency for
\* every edge of the graph and for no other, whenever it registered, although
\* the decoder changes the graph further while a list is being delivered and
\* although scopes are merged late.
JdManagerCurrent ==
  Quiescent /\ Attached("jd_manager") => view["jd_manager"] = edges

\* When everything is committed, the analysis knows every edge of the graph or
\* has it recorded, and records no edge that is gone: record_stop_commit never
\* schedules a node for an edge that was inserted and erased again.
RecorderCurrent ==
  Quiescent /\ Attached("analysis") =>
    edges \subseteq view["analysis"] \cup rec /\ rec \subseteq edges
=============================================================================
