--------------------------- MODULE SummaryDstack ----------------------------
(***************************************************************************)
(* The interprocedural analysis: summary_dstack under fixpoint::iterate,   *)
(* with its contexts, its dynamic call graph and its discarded states.     *)
(*                                                                         *)
(* Functions call each other through a pointer.  The analysis learns what  *)
(* the pointer may hold, decodes what is called, applies the summary of    *)
(* the callee, and asks the callers for the pointer where it comes from    *)
(* the outside.  The memory state of a node is cut down to that pointer:   *)
(* the functions it may lead to, with Input for what it led to when the    *)
(* function was entered.  When the analysis is done the program is run,    *)
(* and the run is held against the result.                                 *)
(***************************************************************************)
EXTENDS Integers, Sequences, FiniteSetsExt, TLC

CONSTANTS Programs,      \* sequences of functions, which are sequences of instructions
          Starts,        \* the functions the analysis starts with
          Tabulation,    \* a context for each pointer a function is called with
          RefManagement  \* states are discarded when they have been read

SummaryAssumption ==
  /\ {Tabulation, RefManagement} \subseteq BOOLEAN
  /\ \A p \in Programs : Starts \subseteq DOMAIN p /\ 1 \in Starts

Input == 0  \* what the pointer was when the function was entered
Many == 9   \* a number of readers that is not known

VARIABLES prog,     \* the program
          sd,       \* summary_dstack and its cfg
          pending,  \* nodes to begin with, each in a context
          worklist, \* nodes to be visited
          postponed,\* nodes to be visited again when all others are done
          cpu       \* the run: a stack of frames and the pointer

vars == <<prog, sd, pending, worklist, postponed, cpu>>

-----------------------------------------------------------------------------
(* The cfg.  <<f, i, 0>> lies before the i-th instruction of f, and <<f, i, 1>>  *)
(* behind a call before the control returns.                                    *)

Function == DOMAIN prog
HeadNode(f) == <<f, 1, 0>>
Site(f, i) == <<f, i, 1>>
Instruction(node) == prog[node[1]][node[2]]

\* Decoding at an address goes on to a call or a return.
BlockEnd(node) ==
  Min({i \in node[2] .. Len(prog[node[1]]) : prog[node[1]][i].op \in {"call", "ret"}})

\* Behind a call there is the site and the address it returns to.
CallNodes(node) ==
  LET last == BlockEnd(node)
  IN  IF prog[node[1]][last].op = "call" THEN {Site(node[1], last), <<node[1], last + 1, 0>>} ELSE {}

Block(node) == {<<node[1], i, 0>> : i \in node[2] .. BlockEnd(node) + 1} \cup CallNodes(node)

\* A jump back leads to an address and has an address behind it.
JumpNodes(node) ==
  UNION {{<<node[1], i, 0>>, <<node[1], i + 1, 0>>, <<node[1], prog[node[1]][i].to, 0>>} :
           i \in {i \in node[2] .. BlockEnd(node) : prog[node[1]][i].op = "back"}}

Nodes(a) == DOMAIN a.st

\* What flows into a node: its callers, or what lies before it, and the jumps to it.
InEdges(a, node) ==
  LET f == node[1]
      i == node[2]
      jumps == {j \in i .. Len(prog[f]) : /\ prog[f][j].op = "back" /\ prog[f][j].to = i
                                         /\ <<f, j + 1, 0>> \in Nodes(a)}
  IN  IF node[3] = 1 THEN {<<f, i, 0>>}
      ELSE IF i = 1 THEN {call[1] : call \in {call \in a.calls : call[2] = f}}
      ELSE (IF prog[f][i - 1].op = "call" THEN {Site(f, i - 1)} ELSE {<<f, i - 1, 0>>})
             \cup {<<f, j, 0>> : j \in jumps}

OutEdges(a, node) == {to \in Nodes(a) : node \in InEdges(a, to)}

\* jd_manager: back to a smaller address.  What leaves a call is of unknown direction.

\* Faulty variant of IsCall: the engine takes a call for a step forward.
IsCallForward(from) == FALSE

IsCall(from) == from[3] = 1
IsBackward(from, to) == ~IsCall(from) /\ to[3] = 0 /\ from[1] = to[1] /\ to[2] <= from[2]

-----------------------------------------------------------------------------
(* States.  They are global_states: a memory state and the function it belongs to. *)

Bottom == [vals |-> {}, fs |-> {}]
StartState(f) == [vals |-> {Input}, fs |-> {f}]

Joined(s, t) == [vals |-> s.vals \cup t.vals, fs |-> s.fs \cup t.fs]
GreaterEq(s, t) == s.fs = t.fs /\ t.vals \subseteq s.vals
Boxed(s, t) == IF GreaterEq(s, t) THEN t ELSE Joined(s, t)

GetSub(a, node, ctx) ==
  IF node \in Nodes(a) /\ ctx \in DOMAIN a.st[node] THEN a.st[node][ctx] ELSE Bottom

Pointers(s) == s.vals \ {Input}

\* summary_application: the pointer the summary started with is the one of the caller.
Apply(s, summary) ==
  IF s.vals = {} THEN {} ELSE UNION {IF x = Input THEN s.vals ELSE {x} : x \in summary}

-----------------------------------------------------------------------------
(* Reference counts: how many visits have still to read a state *)

\* Faulty variant of Ref: a count takes the place of a number that is not known.
RefForgets(a, node, count) ==
  [a EXCEPT !.ref = IF count = Many \/ node \notin DOMAIN @ \/ @[node] = Many
                    THEN (node :> count) @@ @
                    ELSE [@ EXCEPT ![node] = @ + count]]

Ref(a, node, count) ==
  [a EXCEPT !.ref = IF count = Many \/ node \notin DOMAIN @
                    THEN (node :> count) @@ @
                    ELSE [@ EXCEPT ![node] = IF @ = Many THEN Many ELSE @ + count]]

Unref(a, node) ==
  IF node \notin DOMAIN a.ref \/ a.ref[node] = Many THEN a
  ELSE IF a.ref[node] > 1 THEN [a EXCEPT !.ref[node] = @ - 1]
  ELSE [a EXCEPT !.st[node] = (0 :> Bottom) @@ @,
                 !.ref = [n \in DOMAIN @ \ {node} |-> @[n]],
                 !.gone = @ \cup {node}]

-----------------------------------------------------------------------------
(* Changes of the cfg.  Their end points are visited in all contexts. *)

InContexts(a, nodes) == UNION {{node} \X DOMAIN a.st[node] : node \in nodes \cap Nodes(a)}

\* The decoder and init_state: the nodes of a block, without states as yet.  Both ends
\* of an edge to an address are kept (gen_dependency).
Decode(a, node) ==
  IF node \in a.decoded THEN a
  ELSE [a EXCEPT !.decoded = @ \cup {node},
                 !.st = @ @@ [n \in Block(node) |-> 0 :> Bottom],
                 !.ref = [n \in CallNodes(node) \cup JumpNodes(node) |-> Many] @@ @,
                 !.updated = @ \cup Block(node) \cup JumpNodes(node)]

\* A function that is called for the first time gets a description and a head.
AddFunction(a, g, min) ==
  IF g \in DOMAIN a.desc THEN [a EXCEPT !.desc[g].min = IF min - 1 > @ THEN min - 1 ELSE @]
  ELSE Decode([a EXCEPT !.desc = (g :> [min |-> min, reqs |-> FALSE, rets |-> {}, ctxs |-> <<>>]) @@ @],
              HeadNode(g))

\* update_edge and gen_dependency.
AddCall(a, site, g) ==
  IF <<site, g>> \in a.calls THEN a
  ELSE Ref(Ref([a EXCEPT !.calls = @ \cup {<<site, g>>}, !.updated = @ \cup {site, HeadNode(g)}],
               site, Many), HeadNode(g), Many)

\* propagate_reqs: a function needs the pointer from its callers.
PropagateReqs(a, fs) ==
  LET new == {f \in fs : ~a.desc[f].reqs}
  IN  [a EXCEPT !.desc = [f \in DOMAIN @ |-> IF f \in new THEN [@[f] EXCEPT !.reqs = TRUE] ELSE @[f]],
                !.dirty = @ \cup {<<HeadNode(f), Min(DOMAIN a.st[HeadNode(f)])>> : f \in new}]

PropagateInput(a, s) == IF Input \in s.vals THEN PropagateReqs(a, s.fs) ELSE a

-----------------------------------------------------------------------------
(* transform *)

\* get_callers
Callers(a, s) == {call[1] : call \in {call \in a.calls : call[2] \in s.fs}}

\* The functions a call would be recursive to: the own one, those that call it,
\* and so on.
CallersTrans(a, s, ctx) ==
  LET step[i \in 0 .. Cardinality(Function)] ==
        IF i = 0 THEN s.fs
        ELSE step[i - 1] \cup
             UNION {GetSub(a, site, ctx).fs : site \in Callers(a, [s EXCEPT !.fs = step[i - 1]])}
  IN  step[Cardinality(Function)]

Stmt(s, ins) ==
  [s EXCEPT !.vals = CASE s.vals = {} -> {}
                       [] s.vals # {} /\ ins.op = "set" -> {ins.to}
                       [] s.vals # {} /\ ins.op = "may" -> @ \cup {ins.to}
                       [] s.vals # {} /\ ins.op \in {"skip", "back"} -> @]

\* tabulation_keys: no context without the requested pointer.
Keys(a, g, s) == IF a.desc[g].reqs THEN Pointers(s) ELSE {Input}

\* The states a summary of g is made of, seen from s.
Summaries(a, g, s, ctx) ==
  LET contexts == IF ~Tabulation THEN {ctx}
                  ELSE {IF key = Input THEN 0 ELSE a.desc[g].ctxs[key] :
                          key \in Keys(a, g, s) \cap ({Input} \cup DOMAIN a.desc[g].ctxs)}
  IN  {GetSub(a, node, c).vals : node \in a.desc[g].rets, c \in contexts}

\* A call.  Callees seen before contribute their summaries, new ones are decoded;
\* until there is a summary the call does nothing.
TransformCall(a0, to, ctx) ==
  LET from == <<to[1], to[2], 0>>
      s == GetSub(a0, from, ctx)
      called == Pointers(s) \ CallersTrans(a0, s, ctx)
      min == 1 + FoldSet(LAMBDA f, m : IF a0.desc[f].min > m THEN a0.desc[f].min ELSE m, 0, s.fs)
      asserted == Ref(Ref([a0 EXCEPT !.targets = @ \cup ({from} \X Pointers(s)),
                                     !.dirty = @ \cup (OutEdges(a0, to) \X {ctx})],
                          from, Many), to, Many)
      applied(summaries) == [s EXCEPT !.vals = IF summaries = {} THEN @ ELSE Apply(s, UNION summaries)]
  IN  [a |-> PropagateInput(FoldSet(LAMBDA g, a : AddCall(AddFunction(a, g, min), to, g), asserted, called), s),
       states |-> ctx :> applied(UNION {Summaries(a0, g, s, ctx) : g \in called \cap DOMAIN a0.desc}),
       failed |-> s.fs = {}]

\* Faulty variant of TransformRet: the callers do not depend on the summary.
TransformRetAlone(a, from, to, ctx) ==
  LET s == GetSub(a, from, ctx)
  IN  [a |-> Ref(Ref([a EXCEPT !.desc = [f \in DOMAIN @ |->
                                 IF f \in s.fs THEN [@[f] EXCEPT !.rets = @ \cup {to}] ELSE @[f]]],
                 from, Many), to, Many),
       states |-> ctx :> s, failed |-> s.fs = {}]

\* A return: the node is a summary of its function, and the callers depend on it.
TransformRet(a, from, to, ctx) ==
  LET s == GetSub(a, from, ctx)
  IN  [a |-> Ref(Ref([a EXCEPT !.desc = [f \in DOMAIN @ |->
                                 IF f \in s.fs THEN [@[f] EXCEPT !.rets = @ \cup {to}] ELSE @[f]],
                               !.deps = @ \cup ({to} \X Callers(a, s))],
                 from, Many), to, Many),
       states |-> ctx :> s, failed |-> s.fs = {}]

\* The node behind a call is decoded when the call comes back.
TransformReturn(a, from, to, ctx) ==
  LET s == GetSub(a, from, ctx)
      b == Ref(Ref(a, from, Many), to, Many)
  IN  [a |-> IF s.vals = {} THEN b ELSE Decode(b, to), states |-> ctx :> s, failed |-> FALSE]

\* A call edge to g.  accumulate_all: pointers the caller knows take the place of the
\* requested one.
TransformTarget(a0, site, g, ctx) ==
  LET parent == <<site[1], site[2], 0>>
      asked == a0.desc[g].reqs
      propagated(a, s) == IF asked THEN PropagateInput(a, s) ELSE a
      entered(s) == [StartState(g) EXCEPT !.vals = IF asked /\ Pointers(s) # {} THEN Pointers(s) ELSE @]
      failed(s) == asked /\ Input \in s.vals /\ s.fs = {}
  IN  [a |-> propagated(Ref(Ref(a0, site, Many), HeadNode(g), Many), GetSub(a0, parent, ctx)),
       states |-> ctx :> entered(GetSub(a0, parent, ctx)),
       failed |-> failed(GetSub(a0, parent, ctx))]

\* tabulate_all: a context for each pointer some context of the caller knows.  A
\* context has its state from the visit that makes it.
TransformTabulated(a0, site, g, ctx) ==
  LET parent == <<site[1], site[2], 0>>
      ctxs == a0.desc[g].ctxs
      fs == GetSub(a0, parent, ctx).fs
      number(new, x) == Cardinality(DOMAIN ctxs) + Cardinality({y \in new : y <= x})
      numbered(a, new) == [a EXCEPT !.desc[g].ctxs = @ @@ [x \in new |-> number(new, x)]]
      result(a, seen, new) ==
        [a |-> PropagateInput(numbered(a, new), [vals |-> seen, fs |-> fs]),
         states |-> [c \in {0} \cup {number(new, x) : x \in new} |->
                       IF c = 0 THEN StartState(g)
                       ELSE [vals |-> {CHOOSE x \in new : number(new, x) = c}, fs |-> {g}]],
         failed |-> Input \in seen /\ fs = {}]
      tabulated(seen) == result(Ref(Ref(a0, site, Many), HeadNode(g), Many), seen,
                                (seen \ {Input}) \ DOMAIN ctxs)
  IN  tabulated(IF a0.desc[g].reqs THEN UNION {a0.st[parent][c].vals : c \in DOMAIN a0.st[parent]} ELSE {})

Transform(a, from, to, ctx) ==
  CASE to[3] = 1 -> TransformCall(a, to, ctx)
    [] to[3] = 0 /\ to[2] = 1 ->
         IF Tabulation THEN TransformTabulated(a, from, to[1], ctx)
         ELSE TransformTarget(a, from, to[1], ctx)
    [] to[3] = 0 /\ from[3] = 1 -> TransformReturn(a, from, to, ctx)
    [] to[3] = 0 /\ to[2] > 1 /\ from[3] = 0 ->
         IF Instruction(from).op = "ret" THEN TransformRet(a, from, to, ctx)
         ELSE [a |-> a, states |-> ctx :> Stmt(GetSub(a, from, ctx), Instruction(from)),
               failed |-> FALSE]

-----------------------------------------------------------------------------
(* fixpoint::iterate *)

\* process_constraint.  v is the visit so far.
ProcessConstraint(v, from, to, ctx, only) ==
  LET back == IsBackward(from, to)
      counted(a) == IF ~RefManagement THEN a ELSE IF only THEN Unref(a, from) ELSE Ref(a, from, Many)
      merged(old, states, a) ==
        LET known(c) == back /\ c \in DOMAIN old
            evaluated(c) == IF known(c) THEN Boxed(old[c], states[c]) ELSE states[c]
        IN  [a |-> a,
             acc |-> [c \in DOMAIN v.acc \cup DOMAIN states |->
                        IF c \notin DOMAIN v.acc THEN evaluated(c)
                        ELSE IF c \notin DOMAIN states THEN v.acc[c]
                        ELSE Joined(evaluated(c), v.acc[c])],
             backward |-> v.backward \/ back \/ IsCall(from),
             widened |-> v.widened \/ \E c \in DOMAIN states : known(c) /\ ~GreaterEq(old[c], states[c]),
             failed |-> v.failed]
      after(t, a) == [merged(a.st[to], t.states, a) EXCEPT !.failed = @ \/ t.failed]
      process(t) == after(t, counted(t.a))
  IN  process(Transform(v.a, from, to, ctx))

\* dependants.  At the end of a function they are the callers, in all contexts.
Dependants(a, node, contexts) ==
  IF OutEdges(a, node) = {} THEN InContexts(a, {dep[2] : dep \in {dep \in a.deps : dep[1] = node}})
  ELSE OutEdges(a, node) \X contexts

Evaluated(node, ctx) ==
  LET preds == InEdges(sd, node)
      clean == [a |-> sd, acc |-> <<>>, backward |-> FALSE, widened |-> FALSE, failed |-> FALSE]
  IN  IF preds = {} THEN [clean EXCEPT !.acc = 0 :> StartState(node[1]),
                                       !.a = IF RefManagement THEN Unref(sd, node) ELSE sd]
      ELSE FoldSet(LAMBDA from, v : ProcessConstraint(v, from, node, ctx, Cardinality(preds) = 1),
                   clean, preds)

\* What is there after a visit, v being its result.
Updated(node, ctx, v) ==
  LET single == Cardinality(InEdges(sd, node)) <= 1
      states(a) == [c \in {c \in DOMAIN v.acc : \/ ~v.backward /\ single
                                               \/ c \notin DOMAIN a.st[node]
                                               \/ a.st[node][c] # v.acc[c]} |-> v.acc[c]]
      counted(a, pushes) ==
        IF RefManagement THEN Ref(Ref(a, node, Cardinality(pushes)), node, Cardinality(a.dirty)) ELSE a
      result(a, pushes, contexts) ==
        [sd |-> [counted(a, pushes) EXCEPT !.dirty = {}, !.updated = {}, !.failed = v.failed],
         worklist |-> (worklist \ {<<node, ctx>>}) \cup pushes \cup a.dirty \cup InContexts(a, a.updated),
         postponed |-> IF v.widened /\ ctx \in contexts THEN postponed \cup {<<node, ctx>>} ELSE postponed]
      push(a, contexts) == result(a, Dependants(a, node, contexts), contexts)
      update(a, new) == push([a EXCEPT !.st[node] = new @@ @, !.gone = @ \ {node}], DOMAIN new)
      updated(a) == update(a, states(a))
  IN  updated(IF RefManagement /\ (v.backward \/ ~single) THEN Ref(v.a, node, Many) ELSE v.a)

\* get_fixpoint_node_comparer, and the addresses where it does not decide.
Before(x, y) ==
  LET fs(n) == GetSub(sd, n[1], 0).fs
      min(n) == FoldSet(LAMBDA f, m : IF sd.desc[f].min > m THEN sd.desc[f].min ELSE m, 0, fs(n))
      key(n) == <<IF fs(n) = {} THEN 1 ELSE 0, -min(n), n[1][1], n[1][2], n[1][3], n[2]>>
      differs == {i \in 1 .. 6 : key(x)[i] # key(y)[i]}
  IN  differs # {} /\ key(x)[Min(differs)] < key(y)[Min(differs)]

Done == pending = {} /\ worklist = {} /\ postponed = {}

\* The node to be visited next: the first of the worklist, and of the pending nodes when
\* there is none.
IsNext(item) ==
  IF worklist # {} THEN item \in worklist /\ \A other \in worklist : ~Before(other, item)
  ELSE item \in pending /\ \A other \in pending : item[1][1] <= other[1][1]

Visit ==
  /\ ~sd.failed
  /\ \E item \in worklist \cup pending :
       /\ IsNext(item)
       /\ pending' = IF worklist = {} THEN pending \ {item} ELSE pending
       /\ \E next \in {Updated(item[1], item[2], Evaluated(item[1], item[2]))} :
            sd' = next.sd /\ worklist' = next.worklist /\ postponed' = next.postponed
  /\ UNCHANGED <<prog, cpu>>

Postprocess ==
  /\ pending = {} /\ worklist = {} /\ postponed # {}
  /\ worklist' = postponed /\ postponed' = {}
  /\ UNCHANGED <<prog, sd, pending, cpu>>

-----------------------------------------------------------------------------
(* The run.  A frame is the node the function is at and the pointer it was       *)
(* entered with.  The pointer the program starts with leads nowhere.            *)

NoRun == [stack |-> <<>>, ptr |-> Input]

Start ==
  /\ Done /\ ~sd.failed /\ cpu = NoRun
  /\ cpu' = [stack |-> <<[node |-> HeadNode(1), entry |-> Input]>>, ptr |-> Input]
  /\ UNCHANGED <<prog, sd, pending, worklist, postponed>>

Frame == cpu.stack[Len(cpu.stack)]

Moved(stack, node) == [stack EXCEPT ![Len(stack)].node = node]

Execute ==
  /\ cpu.stack # <<>> /\ Frame.node[2] <= Len(prog[Frame.node[1]])
  /\ LET node == Frame.node
         next == <<node[1], node[2] + 1, 0>>
         ins == Instruction(node)
     IN  \/ /\ ins.op \in {"set", "may"}
            /\ cpu' = [stack |-> Moved(cpu.stack, next), ptr |-> ins.to]
         \/ /\ ins.op \in {"skip", "may", "back"}
            /\ cpu' = [cpu EXCEPT !.stack = Moved(@, next)]
         \/ /\ ins.op = "back"
            /\ cpu' = [cpu EXCEPT !.stack = Moved(@, <<node[1], ins.to, 0>>)]
         \/ /\ ins.op = "call" /\ cpu.ptr # Input
            /\ \A i \in DOMAIN cpu.stack : cpu.stack[i].node[1] # cpu.ptr
            /\ cpu' = [cpu EXCEPT !.stack =
                         Append(Moved(@, next), [node |-> HeadNode(cpu.ptr), entry |-> cpu.ptr])]
         \/ /\ ins.op = "ret" /\ Len(cpu.stack) > 1
            /\ cpu' = [cpu EXCEPT !.stack = SubSeq(@, 1, Len(@) - 1)]
  /\ UNCHANGED <<prog, sd, pending, worklist, postponed>>

-----------------------------------------------------------------------------

\* The constructor: the heads of the functions that are known are decoded.
Init ==
  /\ prog \in Programs
  /\ sd = LET empty == [st |-> <<>>, decoded |-> {}, calls |-> {}, deps |-> {}, targets |-> {},
                        desc |-> <<>>, ref |-> <<>>, gone |-> {}, dirty |-> {}, updated |-> {},
                        failed |-> FALSE]
          IN  [FoldSet(LAMBDA f, a : AddFunction(a, f, 0), empty, Starts) EXCEPT !.updated = {}]
  /\ pending = {<<HeadNode(f), 0>> : f \in Starts}
  /\ worklist = {}
  /\ postponed = {}
  /\ cpu = NoRun

Next == Visit \/ Postprocess \/ Start \/ Execute

Spec == Init /\ [][Next]_vars

\* iterate goes on as long as there are nodes: weak fairness of its steps, which are
\* enabled until it is done or an assertion has failed.
Stopped == Done \/ sd.failed
FairSpec == Spec /\ ([]<>Stopped \/ []<><<Visit \/ Postprocess>>_vars)

-----------------------------------------------------------------------------

TypeOK ==
  /\ sd.decoded \subseteq Nodes(sd)
  /\ \A node \in Nodes(sd) : \A c \in DOMAIN sd.st[node] :
       sd.st[node][c].vals \subseteq {Input} \cup Function
  /\ \A node \in DOMAIN sd.ref : node \in Nodes(sd) /\ sd.ref[node] \in 1 .. Many
  /\ worklist \cup pending \subseteq Nodes(sd) \X Nat

\* When the analysis stops, every call has been evaluated with the summaries and
\* the pointers there are: another visit of any node would change nothing.
\* Callees, callers and requests appear in an order nobody chose, and a
\* dependency that is not asserted leaves a caller with an old summary.
Settled ==
  Done /\ ~sd.failed =>
    \A node \in Nodes(sd) \ sd.gone : \A ctx \in DOMAIN sd.st[node] :
      InEdges(sd, node) \cap sd.gone = {} /\ GetSub(sd, node, 0).fs # {} =>
        \A v \in {Evaluated(node, ctx)} : \A c \in DOMAIN v.acc :
          c \in DOMAIN sd.st[node] /\ sd.st[node][c] = v.acc[c]

OnStack(f) == \E i \in DOMAIN cpu.stack : cpu.stack[i].node[1] = f

AtCall == /\ cpu.stack # <<>> /\ Frame.node[2] <= Len(prog[Frame.node[1]])
          /\ Instruction(Frame.node).op = "call"

\* Every target of a call in a run without recursion has been found.
CallsResolved ==
  AtCall /\ ~OnStack(cpu.ptr) => cpu.ptr = Input \/ <<Frame.node, cpu.ptr>> \in sd.targets

\* A state that is discarded has been read by all who need it.
NothingGoneIsRead ==
  \A item \in worklist \cup pending : InEdges(sd, item[1]) \cap sd.gone = {}

\* assert(f_addrs.size() > 0): a call, a return and a request are evaluated for a
\* function.
FunctionKnown == ~sd.failed

\* The analysis ends, though every visit may add calls, requests and contexts, and
\* widening does nothing here that joining does not.
Ends == <>[]Stopped
=============================================================================
