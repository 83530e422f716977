------------------------------- MODULE Decoder -------------------------------
(***************************************************************************)
(* analysis_dectran: from machine code to the control flow graph.          *)
(*                                                                         *)
(* A function is decoded from its first address on, one block at a time.   *)
(* A block becomes a chain of statements, which decomposer, goto_ip_adder  *)
(* and ip_propagator rewrite; trivial_connector then replaces branches     *)
(* with a known target by edges to address nodes, creating them where      *)
(* there are none.  commit_updates tells the decoder of each such edge; a  *)
(* node that has not been decoded is, in a graph of its own that is merged *)
(* into the whole.  sweep and fcollect find where the functions begin; the *)
(* main analysis lets more be decoded once it knows that a call returns,   *)
(* or where a computed jump leads.                                         *)
(*                                                                         *)
(* Nodes are numbered from 1.  The decoder library is external: an         *)
(* instruction is the sequence of statements it gives for it, <<>> where   *)
(* it fails, and takes up one address.                                     *)
(***************************************************************************)
EXTENDS Integers, SequencesExt, FiniteSetsExt, TLC

CONSTANTS Codes,        \* programs: the instructions at 0 .. n - 1
          SymbolSets,   \* what the ELF file may know of function addresses
          Blockwise,    \* values of blockwise_optimized
          MaxResolved,  \* bound: how often the main analysis lets decode more
          MaxNodes      \* bound on the size of the graph

DecoderAssumption ==
  /\ MaxResolved \in Nat /\ MaxNodes \in Nat /\ Blockwise \subseteq BOOLEAN
  /\ \A c \in Codes : DOMAIN c = 0 .. Cardinality(DOMAIN c) - 1

VARIABLES
  code, blockwise,
  g,                 \* the graph: [nodes, edges]
  address_node_map,  \* of trivial_connector, which lives as long as the decoder
  unresolved,        \* nodes behind jumps that could not be connected
  f_heads,
  intervals,         \* decoded_intervals, as pairs <<from, to>>
  todo,              \* functions the driver has not added yet
  thrown,            \* functions whose addition has failed
  fresh,             \* updates_stack: sinks of new edges, if they are address nodes
  updates,           \* the list commit_updates is delivering
  resolved,          \* number of steps of the main analysis so far
  pc

vars == <<code, blockwise, g, address_node_map, unresolved, f_heads, intervals, todo,
          thrown, fresh, updates, resolved, pc>>

-----------------------------------------------------------------------------
(* Statements.  A target is <<"addr", a>>, <<"ip", 0>> (the value of IP), or  *)
(* <<"any", 0>> (it cannot be evaluated).                                     *)

NextIp == [k |-> "ip"]                    \* IP = IP + 1
SetIp(a) == [k |-> "setip", addr |-> a]
Op(x) == [k |-> "op", x |-> x]
Branch(hint, target) == [k |-> "branch", hint |-> hint, target |-> target]
CBranch(c, then, else) == [k |-> "cbranch", c |-> c, then |-> then, else |-> else]
Ite(c, then, else) == [k |-> "ite", c |-> c, then |-> then, else |-> else]
While(c, body) == [k |-> "while", c |-> c, body |-> body]

\* What an edge carries besides statements.
Cond(c, v) == [k |-> "cond", c |-> c, v |-> v]
Edge == [k |-> "edge"]
CallEdge == [k |-> "call_edge"]

IsStmt(p) == p.k \notin {"cond", "edge", "call_edge"}
IsBranch(p) == p.k \in {"branch", "cbranch"}

-----------------------------------------------------------------------------
(* The graph *)

Node(addr, decs) == [addr |-> addr, decs |-> decs]
Plain == Node(-1, "NONE")
EmptyGraph == [nodes |-> <<>>, edges |-> <<>>]

IsAddress(h, n) == h.nodes[n].decs # "NONE"
Newest(h) == Len(h.nodes)
Create(h, node) == [h EXCEPT !.nodes = Append(@, node)]
UpdateEdge(h, from, to, p) == [h EXCEPT !.edges = (<<from, to>> :> p) @@ @]
EraseEdge(h, from, to) == [h EXCEPT !.edges = [e \in DOMAIN @ \ {<<from, to>>} |-> @[e]]]
Successors(h, n) == SetToSortSeq({e[2] : e \in {d \in DOMAIN h.edges : d[1] = n}}, <)

\* add_nodes: a chain of statements that begins at a node.
AddNodes(h, stmts, from) ==
  LET add(acc, s) == [g |-> UpdateEdge(Create(acc.g, Plain), acc.at, Newest(acc.g) + 1, s),
                      at |-> Newest(acc.g) + 1]
  IN  FoldLeft(add, [g |-> h, at |-> from], stmts)

AddProgram(h, addr, stmts) == AddNodes(Create(h, Node(addr, "DECODED")), stmts, Newest(h) + 1).g

\* The nodes of a view in the order of BfsIterator.
RECURSIVE Walk(_, _, _)
Walk(h, queue, seen) ==
  IF queue = <<>> THEN <<>>
  ELSE LET new == SelectSeq(Successors(h, queue[1]), LAMBDA m : m \notin seen)
       IN  <<queue[1]>> \o Walk(h, Tail(queue) \o new, seen \cup ToSet(new))

View(h, root) == Walk(h, <<root>>, {})

\* merge, at the first node of the other graph.
Merge(h, other, at) ==
  LET id(n) == IF n = 1 THEN at ELSE Newest(h) + n - 1
      old == [e \in {<<id(d[1]), id(d[2])>> : d \in DOMAIN other.edges} |->
                CHOOSE d \in DOMAIN other.edges : <<id(d[1]), id(d[2])>> = e]
  IN  [nodes |-> [h.nodes EXCEPT ![at] = other.nodes[1]] \o Tail(other.nodes),
       edges |-> [e \in DOMAIN old |-> other.edges[old[e]]] @@ h.edges]

-----------------------------------------------------------------------------
(* decode_translate *)

\* The instruction at an address ends a block.
Ends(c, a) == c[a] = <<>> \/ IsBranch(c[a][Len(c[a])])

\* A block, and where the decoder is behind it.  Where it meets an instruction
\* it cannot decode, all of the block is lost and one address skipped.
RECURSIVE Block(_, _, _)
Block(c, whole, a) ==
  IF c[a] = <<>> THEN [stmts |-> <<>>, next |-> a + 1, failed |-> TRUE]
  ELSE IF ~whole \/ Ends(c, a) \/ a + 1 \notin DOMAIN c
  THEN [stmts |-> c[a], next |-> a + 1, failed |-> FALSE]
  ELSE LET rest == Block(c, whole, a + 1)
       IN  [rest EXCEPT !.stmts = IF rest.failed THEN <<>> ELSE c[a] \o @]

\* decoded_intervals: one for each address, the longest.
Decoded(is, from, to) ==
  {i \in is : i[1] # from}
    \cup {<<from, Max({to} \cup {i[2] : i \in {j \in is : j[1] = from}})>>}

\* bytes_decoded
BytesDecoded(is) ==
  LET add(acc, i) ==
        IF i[1] > acc.to THEN [sum |-> acc.sum + acc.to - acc.from + 1, from |-> i[1], to |-> i[2]]
        ELSE [acc EXCEPT !.to = Max({@, i[2]})]
      s == SetToSortSeq(is, LAMBDA i, j : i[1] < j[1])
      all == FoldLeft(add, [sum |-> 0, from |-> s[1][1], to |-> s[1][2]], Tail(s))
  IN  IF is = {} THEN 0 ELSE all.sum + all.to - all.from + 1

-----------------------------------------------------------------------------
(* decomposer *)

Body(h, stmts) == AddNodes(Create(h, Plain), stmts, Newest(h) + 1)

ExpandIf(h, n, m) ==
  LET s == h.edges[<<n, m>>]
      branch(k, stmts, v) ==
        UpdateEdge(UpdateEdge(Body(k, stmts).g, n, Newest(k) + 1, Cond(s.c, v)), Body(k, stmts).at, m, Edge)
  IN  EraseEdge(branch(branch(h, s.then, TRUE), s.else, FALSE), n, m)

\* Faulty variant of ExpandWhile: the body is not repeated.
ExpandWhileOnce(h, n, m) ==
  LET s == h.edges[<<n, m>>]
      entered == UpdateEdge(Body(h, s.body).g, n, Newest(h) + 1, Cond(s.c, TRUE))
  IN  UpdateEdge(UpdateEdge(entered, n, m, Cond(s.c, FALSE)), Body(h, s.body).at, m, Edge)

ExpandWhile(h, n, m) ==
  LET s == h.edges[<<n, m>>]
      entered == UpdateEdge(Body(h, s.body).g, n, Newest(h) + 1, Cond(s.c, TRUE))
  IN  UpdateEdge(UpdateEdge(entered, n, m, Cond(s.c, FALSE)), Body(h, s.body).at, n, Edge)

\* The body of the loop over the edges of a node.
Expand(h, n, m) ==
  CASE h.edges[<<n, m>>].k = "ite" -> ExpandIf(h, n, m)
    [] h.edges[<<n, m>>].k = "while" -> ExpandWhile(h, n, m)
    [] OTHER -> h

\* The iterator goes on to what the body has created.
RECURSIVE Decompose(_, _, _)
Decompose(h, queue, seen) ==
  IF queue = <<>> THEN h
  ELSE LET n == queue[1]
           expand(k, m) == Expand(k, n, m)
           onwards(k, new) == Decompose(k, Tail(queue) \o new, seen \cup ToSet(new))
           next(k) == onwards(k, SelectSeq(Successors(k, n), LAMBDA m : m \notin seen))
       IN  next(FoldLeft(expand, h, Successors(h, n)))

-----------------------------------------------------------------------------
(* goto_ip_adder: where a chain ends without a branch, one is added.          *)

GotoIp(h, root) ==
  LET view == View(h, root)
      dead == {e[2] : e \in {d \in DOMAIN h.edges : d[1] \in ToSet(view) /\ IsBranch(h.edges[d])}}
      leaves == SelectSeq(view, LAMBDA n : Successors(h, n) = <<>> /\ n \notin dead)
      add(k, n) == UpdateEdge(Create(k, Plain), n, Newest(k) + 1, Branch("JUMP", <<"ip", 0>>))
  IN  FoldLeft(add, h, leaves)

-----------------------------------------------------------------------------
(* ip_propagator *)

\* analyze_ip: the value of IP at each node of the view; no value where it is
\* not known or not the same on all ways.
Ips(h, root) ==
  LET visit(acc, n) ==
        LET here == IF IsAddress(h, n) THEN (n :> h.nodes[n].addr) @@ acc.ips ELSE acc.ips
            child(k, m) ==
              LET cur == IF h.edges[<<n, m>>].k = "ip" THEN k.cur + 1 ELSE k.cur
              IN  IF m \in DOMAIN k.ips
                  THEN [k EXCEPT !.ok = @ /\ k.ips[m] = cur, !.cur = cur]
                  ELSE [k EXCEPT !.ips = (m :> cur) @@ @, !.cur = cur]
        IN  IF n \notin DOMAIN here THEN [acc EXCEPT !.ok = FALSE]
            ELSE FoldLeft(child, [acc EXCEPT !.ips = here, !.cur = here[n]], Successors(h, n))
  IN  FoldLeft(visit, [ok |-> TRUE, cur |-> 0, ips |-> <<>>], View(h, root))

\* A statement with the value IP has before it.
Resolved(s, ip) ==
  LET at(t) == IF t[1] = "ip" THEN <<"addr", ip>> ELSE t
  IN  CASE s.k = "ip" -> SetIp(ip + 1)
        [] s.k = "branch" -> [s EXCEPT !.target = at(@)]
        [] s.k = "cbranch" -> [s EXCEPT !.then = at(@), !.else = at(@)]
        [] OTHER -> s

\* Each call gets a node for the address it returns to.
Propagate(h, root, ips, speculative) ==
  LET visit(acc, n) ==
        LET edge(k, m) ==
              LET s == k.edges[<<n, m>>]
                  returns == Node(ips[m], IF speculative THEN "DECODABLE" ELSE "UNDEFINED")
                  with == IF s.k = "branch" /\ s.hint = "CALL"
                          THEN UpdateEdge(Create(k, returns), m, Newest(k) + 1, CallEdge) ELSE k
              IN  IF IsStmt(s) THEN UpdateEdge(with, n, m, Resolved(s, ips[n])) ELSE k
        IN  FoldLeft(edge, acc, Successors(acc, n))
  IN  FoldLeft(visit, h, View(h, root))

\* initial_cfg: the block at an address, in the graph given.
InitialCfg(h, a, stmts, speculative) ==
  LET root == Newest(h) + 1
      propagated(k, ips) ==
        [ok |-> ips.ok, g |-> IF ips.ok THEN Propagate(k, root, ips.ips, speculative) ELSE k]
      complete(k) == propagated(k, Ips(k, root))
  IN  complete(GotoIp(Decompose(AddProgram(h, a, stmts), <<root>>, {}), root))

-----------------------------------------------------------------------------
(* trivial_connector.  Its state: [g, map, fresh].                            *)

\* Faulty variant of DstNode: every edge gets a node of its own.
DstNodeNew(s, a) ==
  [s EXCEPT !.g = Create(@, Node(a, "DECODABLE")), !.map = (a :> Newest(s.g) + 1) @@ @]

\* dst_node: the node of an address is created unless there is one.
DstNode(s, a) ==
  IF a \in DOMAIN s.map THEN s
  ELSE [s EXCEPT !.g = Create(@, Node(a, "DECODABLE")), !.map = (a :> Newest(s.g) + 1) @@ @]

ConnectBranch(s, b) ==
  LET connected(d) == [d EXCEPT !.g = UpdateEdge(@, b.at, d.map[b.addr], SetIp(b.addr)),
                                !.fresh = Append(@, d.map[b.addr])]
  IN  connected(DstNode(s, b.addr))

\* One side of a conditional branch; a target that cannot be evaluated remains.
ConnectCond(s, b) ==
  LET split(h) == UpdateEdge(Create(h, Plain), b.at, Newest(h) + 1, Cond(b.c, b.v))
      connected(d) ==
        [d EXCEPT !.g = UpdateEdge(split(@), Newest(@) + 1, d.map[b.target[2]], SetIp(b.target[2])),
                  !.fresh = Append(@, d.map[b.target[2]])]
      open(end) ==
        [s EXCEPT !.g = UpdateEdge(Create(split(@), Plain), end, end + 1, Branch("JUMP", b.target)),
                  !.unresolved = @ \cup {end + 1}]
  IN  IF b.target[1] = "addr" THEN connected(DstNode(s, b.target[2])) ELSE open(Newest(s.g) + 1)

\* transform_ur
TransformUr(h, map, root) ==
  LET inOrder(es) == SetToSortSeq(es, LAMBDA d, e : d[1] < e[1] \/ (d[1] = e[1] /\ d[2] < e[2]))
      known(view) ==
        FoldLeft(LAMBDA m, n : IF IsAddress(h, n) THEN (h.nodes[n].addr :> n) @@ m ELSE m, map, view)
      branch(s, e) == ConnectBranch(s, [at |-> e[2], addr |-> h.edges[e].target[2]])
      side(e, v, t) == [at |-> e[2], c |-> h.edges[e].c, v |-> v, target |-> t]
      cond(s, e) == ConnectCond(ConnectCond(s, side(e, TRUE, h.edges[e].then)), side(e, FALSE, h.edges[e].else))
      cleared(es) == [h EXCEPT !.edges = [e \in DOMAIN @ |-> IF e \in es THEN Edge ELSE @[e]]]
      connected(view, jumps, direct, conds) ==
        FoldLeft(cond, FoldLeft(branch, [g |-> cleared(direct \cup conds), map |-> known(view), fresh |-> <<>>,
                                         unresolved |-> {e[2] : e \in jumps \ direct}],
                                inOrder(direct)), inOrder(conds))
      split(view, jumps, seen) ==
        connected(view, jumps, {e \in jumps : h.edges[e].target[1] = "addr"},
                  {e \in seen : h.edges[e].k = "cbranch"})
      sorted(view, seen) ==
        split(view, {e \in seen : h.edges[e].k = "branch" /\ h.edges[e].hint = "JUMP"}, seen)
      viewed(view) == sorted(view, {e \in DOMAIN h.edges : e[1] \in ToSet(view)})
  IN  viewed(View(h, root))

-----------------------------------------------------------------------------
(* sweep and fcollect *)

\* Everything is decoded, one block after the other.
RECURSIVE Sweep(_, _, _)
Sweep(c, whole, a) ==
  IF a \notin DOMAIN c THEN {}
  ELSE LET b == Block(c, whole, a)
       IN  {InitialCfg(EmptyGraph, a, b.stmts, TRUE)} \cup Sweep(c, whole, b.next)

\* fcollect: the targets of all calls.
Collected(sweep) ==
  LET edges == UNION {{s.g.edges[e] : e \in DOMAIN s.g.edges} : s \in sweep}
  IN  {p.target[2] : p \in {q \in edges : q.k = "branch" /\ q.hint = "CALL" /\ q.target[1] = "addr"}}

-----------------------------------------------------------------------------
(* analysis_dectran and the driver *)

End == Cardinality(DOMAIN code)

\* Behind the last address there is nothing to decode; seek fails from there on.
Seeks(a) == a \in 0 .. End

\* Where sweep cannot tell the value of IP, main ends; so each instruction that is
\* decoded from here on has a known one.
Init ==
  /\ code \in Codes
  /\ blockwise \in Blockwise
  /\ \E sweep \in {Sweep(code, blockwise, 0)} :
       /\ \A s \in sweep : s.ok
       /\ \E symbols \in SymbolSets : todo = symbols \cup Collected(sweep)
  /\ g = EmptyGraph /\ address_node_map = <<>>
  /\ unresolved = {} /\ f_heads = {} /\ intervals = {} /\ thrown = {}
  /\ fresh = <<>> /\ updates = <<>>
  /\ resolved = 0
  /\ pc = "add"

\* transduce_function, which begins with an empty list of updates.  What the
\* connector could not connect is not kept.
TransduceFunction ==
  /\ pc = "add" /\ todo # {}
  /\ \E f \in {Min(todo)} :
       /\ todo' = todo \ {f}
       /\ \/ /\ f \in DOMAIN code
             /\ \E b \in {Block(code, blockwise, f)} :
                  /\ intervals' = Decoded(intervals, f, b.next - 1)
                  /\ \E new \in {InitialCfg(g, f, b.stmts, FALSE).g} :
                       \E connected \in {TransformUr(new, address_node_map, Newest(g) + 1)} :
                         /\ g' = connected.g
                         /\ address_node_map' = connected.map
                         /\ fresh' = connected.fresh
             /\ f_heads' = f_heads \cup {Newest(g) + 1}
             /\ pc' = "commit"
             /\ UNCHANGED thrown
          \/ /\ f \notin DOMAIN code
             /\ thrown' = thrown \cup {f}
             /\ UNCHANGED <<g, address_node_map, fresh, f_heads, intervals, pc>>
  /\ UNCHANGED <<code, blockwise, unresolved, updates, resolved>>

\* commit_updates: the list is taken until it is found empty.
Phase == IF resolved = 0 THEN "add" ELSE "analysis"

Commit ==
  /\ pc = "commit" /\ updates = <<>>
  /\ updates' = fresh
  /\ fresh' = <<>>
  /\ pc' = IF fresh = <<>> THEN Phase ELSE pc
  /\ UNCHANGED <<code, blockwise, g, address_node_map, unresolved, f_heads, intervals, todo,
                 thrown, resolved>>

\* Faulty variant of Skip: an address that has been decoded is not decoded again.
SkipKnown ==
  /\ pc = "commit" /\ updates # <<>>
  /\ \/ g.nodes[updates[1]].decs # "DECODABLE"
       \/ \E n \in DOMAIN g.nodes :
            g.nodes[n].decs = "DECODED" /\ g.nodes[n].addr = g.nodes[updates[1]].addr
  /\ updates' = Tail(updates)
  /\ UNCHANGED <<code, blockwise, g, address_node_map, unresolved, f_heads, intervals, todo,
                 thrown, fresh, resolved, pc>>

\* An update of an edge to a node there is nothing to do for.
Skip ==
  /\ pc = "commit" /\ updates # <<>>
  /\ g.nodes[updates[1]].decs # "DECODABLE" \/ ~Seeks(g.nodes[updates[1]].addr)
  /\ updates' = Tail(updates)
  /\ UNCHANGED <<code, blockwise, g, address_node_map, unresolved, f_heads, intervals, todo,
                 thrown, fresh, resolved, pc>>

\* The address nodes a decoded block brings, where it is merged at n.
Returns(other, n) ==
  LET copied == {e[2] : e \in {d \in DOMAIN other.edges : IsAddress(other, d[2])}}
  IN  {IF m = 1 THEN n ELSE Newest(g) + m - 1 : m \in copied}

\* The body of the loop in notify.
Notify ==
  /\ pc = "commit" /\ updates # <<>>
  /\ \E n \in {updates[1]} :
       /\ g.nodes[n].decs = "DECODABLE" /\ g.nodes[n].addr \in DOMAIN code
       /\ Newest(g) < MaxNodes
       /\ \E b \in {Block(code, blockwise, g.nodes[n].addr)} :
            /\ intervals' = Decoded(intervals, g.nodes[n].addr, b.next - 1)
            /\ \E new \in {InitialCfg(EmptyGraph, g.nodes[n].addr, b.stmts, FALSE).g} :
                 \E connected \in {TransformUr(Merge(g, new, n), address_node_map, n)} :
                   /\ g' = connected.g
                   /\ address_node_map' = connected.map
                   /\ unresolved' = unresolved \cup connected.unresolved
                   /\ fresh' = fresh \o SetToSortSeq(Returns(new, n), <) \o connected.fresh
  /\ updates' = Tail(updates)
  /\ UNCHANGED <<code, blockwise, f_heads, todo, thrown, resolved, pc>>

\* Nothing can be decoded at the end of the code: the exception ends
\* commit_updates, and the driver goes on with the next function.  What was left of
\* the list is lost.
NotifyThrows ==
  /\ pc = "commit" /\ updates # <<>>
  /\ LET n == g.nodes[updates[1]] IN n.decs = "DECODABLE" /\ n.addr = End
  /\ thrown' = thrown \cup {End}
  /\ updates' = <<>>
  /\ pc' = IF resolved = 0 THEN "add" ELSE "aborted"
  /\ UNCHANGED <<code, blockwise, g, address_node_map, unresolved, f_heads, intervals, todo,
                 fresh, resolved>>

StartAnalysis ==
  /\ pc = "add" /\ todo = {}
  /\ pc' = "analysis"
  /\ UNCHANGED <<code, blockwise, g, address_node_map, unresolved, f_heads, intervals, todo,
                 thrown, fresh, updates, resolved>>

\* The main analysis finds that a call returns.
ResolveCall ==
  /\ pc = "analysis" /\ resolved < MaxResolved
  /\ \E n \in DOMAIN g.nodes :
       /\ g.nodes[n].decs = "UNDEFINED"
       /\ g' = [g EXCEPT !.nodes[n].decs = "DECODABLE"]
       /\ fresh' = Append(fresh, n)
  /\ resolved' = resolved + 1
  /\ pc' = "commit"
  /\ UNCHANGED <<code, blockwise, address_node_map, unresolved, f_heads, intervals, todo,
                 thrown, updates>>

\* It finds where a computed jump leads: a new node, unless the jump has been
\* found to lead there before.
ResolveJump ==
  /\ pc = "analysis" /\ resolved < MaxResolved
  /\ \E e \in DOMAIN g.edges, a \in DOMAIN code :
       /\ g.edges[e] = Branch("JUMP", <<"any", 0>>)
       /\ \A m \in ToSet(Successors(g, e[2])) : ~(IsAddress(g, m) /\ g.nodes[m].addr = a)
       /\ g' = UpdateEdge(Create(g, Node(a, "DECODABLE")), e[2], Newest(g) + 1, Edge)
       /\ fresh' = Append(fresh, Newest(g) + 1)
  /\ resolved' = resolved + 1
  /\ pc' = "commit"
  /\ UNCHANGED <<code, blockwise, address_node_map, unresolved, f_heads, intervals, todo,
                 thrown, updates>>

Next ==
  \/ TransduceFunction \/ Commit \/ Skip \/ Notify \/ NotifyThrows
  \/ StartAnalysis \/ ResolveCall \/ ResolveJump

\* The driver and commit_updates go on by themselves, up to the bound of the model:
\* weak fairness of all their actions, of which one can always be taken.
Running == pc \in {"add", "commit"} /\ Newest(g) < MaxNodes

Spec == Init /\ [][Next]_vars /\ ([]<>~Running \/ []<><<Next>>_vars)

-----------------------------------------------------------------------------

\* The graph is well formed: edges join nodes, the heads of functions and what
\* the connector knows of an address are decoded or decodable address nodes of it.
TypeOK ==
  /\ DOMAIN g.edges \subseteq (DOMAIN g.nodes) \X (DOMAIN g.nodes)
  /\ \A n \in f_heads : n \in DOMAIN g.nodes /\ g.nodes[n].decs = "DECODED"
  /\ \A a \in DOMAIN address_node_map : g.nodes[address_node_map[a]].addr = a
  /\ unresolved \subseteq DOMAIN g.nodes
  /\ \A i \in DOMAIN updates : IsAddress(g, updates[i])
  /\ \A i \in DOMAIN fresh : IsAddress(g, fresh[i])

\* What happens from some point of the code on: operations, outcomes of
\* conditions, calls and returns, up to the next address, to a depth of k.
RECURSIVE CodeRuns(_, _, _)
CodeRuns(stmts, ip, k) ==
  LET then(l, runs) == {<<>>} \cup {<<l>> \o r : r \in runs}
      goes(t) == CASE t[1] = "addr" -> then(<<"to", t[2]>>, {<<>>})
                   [] t[1] = "ip" -> then(<<"to", ip>>, {<<>>})
                   [] OTHER -> then(<<"any", 0>>, {<<>>})
      s == stmts[1]
      rest == Tail(stmts)
  IN  IF k = 0 THEN {<<>>}
      ELSE IF stmts = <<>> THEN goes(<<"ip", 0>>)
      ELSE CASE s.k = "ip" -> CodeRuns(rest, ip + 1, k)
             [] s.k = "op" -> then(<<"op", s.x>>, CodeRuns(rest, ip, k - 1))
             [] s.k = "ite" -> then(<<"yes", s.c>>, CodeRuns(s.then \o rest, ip, k - 1))
                                 \cup then(<<"no", s.c>>, CodeRuns(s.else \o rest, ip, k - 1))
             [] s.k = "while" -> then(<<"yes", s.c>>, CodeRuns(s.body \o stmts, ip, k - 1))
                                   \cup then(<<"no", s.c>>, CodeRuns(rest, ip, k - 1))
             [] s.k = "cbranch" -> then(<<"yes", s.c>>, IF k = 1 THEN {<<>>} ELSE goes(s.then))
                                     \cup then(<<"no", s.c>>, IF k = 1 THEN {<<>>} ELSE goes(s.else))
             [] s.k = "branch" /\ s.hint = "JUMP" -> goes(s.target)
             [] s.k = "branch" /\ s.hint = "CALL" ->
                  then(<<"call", s.target[2]>>, IF k = 1 THEN {<<>>} ELSE goes(<<"ip", 0>>))
             [] s.k = "branch" /\ s.hint = "RET" -> then(<<"ret", 0>>, {<<>>})

RECURSIVE GraphRuns(_, _)
GraphRuns(n, k) ==
  LET then(l, runs) == {<<>>} \cup {<<l>> \o r : r \in runs}
      at(m, j) == IF j = 0 THEN {<<>>}
                  ELSE IF IsAddress(g, m) THEN then(<<"to", g.nodes[m].addr>>, {<<>>}) ELSE GraphRuns(m, j)
      along(m) ==
        LET p == g.edges[<<n, m>>]
        IN  CASE p.k = "op" -> then(<<"op", p.x>>, at(m, k - 1))
              [] p.k = "cond" -> then(<<IF p.v THEN "yes" ELSE "no", p.c>>, at(m, k - 1))
              [] p.k = "branch" /\ p.hint = "CALL" -> then(<<"call", p.target[2]>>, at(m, k - 1))
              [] p.k = "branch" /\ p.hint = "RET" -> then(<<"ret", 0>>, at(m, k - 1))
              [] p.k = "branch" /\ p.hint = "JUMP" -> then(<<"any", 0>>, {<<>>})
              [] OTHER -> at(m, k)
  IN  IF k = 0 THEN {<<>>} ELSE {<<>>} \cup UNION {along(m) : m \in ToSet(Successors(g, n))}

\* From every node that has been decoded the graph goes through the same
\* operations, conditions and calls as the code, in the same order, and to the same
\* addresses, whatever was decoded before.  What fails to decode is a node that
\* leads to itself.
Faithful ==
  \A n \in DOMAIN g.nodes :
    g.nodes[n].decs = "DECODED" /\ g.nodes[n].addr \in DOMAIN code =>
      LET a == g.nodes[n].addr  b == Block(code, blockwise, a)
      IN  GraphRuns(n, 4) = CodeRuns(IF b.failed THEN <<Branch("JUMP", <<"addr", a>>)>> ELSE b.stmts, a, 4)

AtRest == pc = "analysis" \/ (pc = "add" /\ fresh = <<>>)

\* Every jump has been followed: when commit_updates has returned and no exception
\* has been caught so far, nothing that could be decoded is left.
Complete ==
  AtRest /\ thrown = {} =>
    \A n \in DOMAIN g.nodes : g.nodes[n].decs = "DECODABLE" => ~Seeks(g.nodes[n].addr)

\* Every function that is called has been added, though the calls were found in
\* another pass, from other addresses on.
CalledIsAdded ==
  pc = "analysis" /\ thrown = {} =>
    \A e \in DOMAIN g.edges :
      g.edges[e].k = "branch" /\ g.edges[e].hint = "CALL" /\ g.edges[e].target[1] = "addr" =>
        \E n \in f_heads : g.nodes[n].addr = g.edges[e].target[2]

\* The bytes counted are those of the blocks, however they overlap.
BytesCounted == BytesDecoded(intervals) = Cardinality(UNION {i[1] .. i[2] : i \in intervals})

\* What could not be connected is known as unresolved.
UnresolvedKnown ==
  AtRest => \A e \in DOMAIN g.edges : g.edges[e] = Branch("JUMP", <<"any", 0>>) => e[2] \in unresolved

\* The decoder and those who notify it come to an end, though each block it adds
\* may be the cause of others.
Settles == <>[](pc \in {"analysis", "aborted"})
=============================================================================
