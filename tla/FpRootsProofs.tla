--------------------------- MODULE FpRootsProofs ---------------------------
(***************************************************************************)
(* fp_analysis::roots is correct for every node set and every dependency   *)
(* graph.                                                                  *)
(***************************************************************************)
EXTENDS FpRoots, TLAPS

\* The nodes the search still has to expand.
Queued == {bfs_q[i] : i \in 1..Len(bfs_q)}

\* An edge of the base set has been handled when its source is neither waiting
\* to be reached or expanded, nor the edge itself waiting.
Handled(e) == e \in deps /\ e[1] \in all \ (left \cup Queued) /\ e \notin todo

\* What every step keeps: a node is a root, is waiting, or was withdrawn for an
\* edge from the base set; and a handled edge leaves no root behind it.
RemovedForAReason ==
  \A n \in all \ (left \cup result) : \E m \in all : <<m, n>> \in deps
HandledIsWithdrawn ==
  \A e \in deps : Handled(e) => e[2] \notin left \cup result
ControlOK == /\ result \cap left = {}
             /\ \A n \in Queued : n \notin left
             /\ \A e \in todo : e[1] \in all
             /\ pc # "edges" => todo = {}
             /\ pc \in {"outer", "done"} => bfs_q = <<>>
             /\ pc = "done" => left = {}

IInv == TypeOK /\ RemovedForAReason /\ HandledIsWithdrawn /\ ControlOK

-----------------------------------------------------------------------------
\* What the queue operations do to the set of its members.

LEMMA QueuedEmpty == ASSUME bfs_q = <<>> PROVE Queued = {}
BY DEF Queued

LEMMA QueuedAppend ==
  ASSUME NEW S, bfs_q \in Seq(S), NEW n \in S, bfs_q' = Append(bfs_q, n)
  PROVE  Queued' = Queued \cup {n}
<1>1. Len(bfs_q') = Len(bfs_q) + 1 /\ Len(bfs_q) \in Nat
  OBVIOUS
<1>2. \A i \in 1..Len(bfs_q) : bfs_q'[i] = bfs_q[i]
  OBVIOUS
<1>3. bfs_q'[Len(bfs_q) + 1] = n
  OBVIOUS
<1> QED BY <1>1, <1>2, <1>3 DEF Queued

LEMMA QueuedTail ==
  ASSUME NEW S, bfs_q \in Seq(S), bfs_q # <<>>, bfs_q' = Tail(bfs_q)
  PROVE  /\ Queued = Queued' \cup {Head(bfs_q)}
         /\ Head(bfs_q) \in S
<1>1. Len(bfs_q) \in Nat \ {0} /\ Len(bfs_q') = Len(bfs_q) - 1
  OBVIOUS
<1>2. \A i \in 1..(Len(bfs_q) - 1) : bfs_q'[i] = bfs_q[i + 1]
  OBVIOUS
<1>3. Head(bfs_q) = bfs_q[1] /\ bfs_q[1] \in S
  OBVIOUS
<1>4. ASSUME NEW x \in Queued PROVE x \in Queued' \cup {Head(bfs_q)}
  <2>1. PICK i \in 1..Len(bfs_q) : x = bfs_q[i]
    BY <1>4 DEF Queued
  <2>2. CASE i = 1
    BY <2>1, <2>2, <1>3
  <2>3. CASE i # 1
    <3>1. i - 1 \in 1..(Len(bfs_q) - 1) /\ bfs_q'[i - 1] = x
      BY <1>1, <1>2, <2>1, <2>3
    <3> QED BY <3>1, <1>1 DEF Queued
  <2> QED BY <2>2, <2>3
<1>5. ASSUME NEW x \in Queued' PROVE x \in Queued
  <2>1. PICK i \in 1..(Len(bfs_q) - 1) : x = bfs_q'[i]
    BY <1>1 DEF Queued
  <2>2. i + 1 \in 1..Len(bfs_q) /\ x = bfs_q[i + 1]
    BY <1>1, <1>2, <2>1
  <2> QED BY <2>2 DEF Queued
<1>6. Head(bfs_q) \in Queued
  BY <1>1, <1>3 DEF Queued
<1> QED BY <1>3, <1>4, <1>5, <1>6

-----------------------------------------------------------------------------

LEMMA InitIInv == Init => IInv
<1> SUFFICES ASSUME Init PROVE IInv
  OBVIOUS
<1>1. TypeOK
  BY MayDependAssumption DEF Init, TypeOK
<1>2. Queued = {}
  BY QueuedEmpty DEF Init
<1>3. RemovedForAReason /\ ControlOK
  BY <1>2 DEF Init, RemovedForAReason, ControlOK
<1>4. HandledIsWithdrawn
  BY DEF Init, HandledIsWithdrawn, Handled
<1> QED BY <1>1, <1>3, <1>4 DEF IInv

\* The step that handles one edge <<m, n>>.
LEMMA HandleIInv == ASSUME IInv, Handle PROVE IInv'
<1> USE DEF IInv
<1>1. PICK e \in todo : /\ todo' = todo \ {e}
                        /\ Reach(e[2])
  BY DEF Handle
<1> DEFINE n == e[2]
<1>2. /\ UNCHANGED <<all, deps, pc>> /\ pc = "edges"
      /\ e \in deps /\ e = <<e[1], n>> /\ e[1] \in all /\ n \in Node
  BY <1>1 DEF Handle, TypeOK, ControlOK
<1>3. /\ left' = left \ {n} /\ result' = result \ {n}
      /\ \/ n \in left /\ bfs_q' = Append(bfs_q, n)
         \/ n \notin left /\ bfs_q' = bfs_q
  BY <1>1 DEF Reach
<1>4. Queued' = IF n \in left THEN Queued \cup {n} ELSE Queued
  <2>1. CASE n \in left
    BY <2>1, <1>3, QueuedAppend DEF TypeOK
  <2>2. CASE n \notin left
    BY <2>2, <1>3 DEF Queued
  <2> QED BY <2>1, <2>2
<1>5. TypeOK'
  BY <1>1, <1>2, <1>3 DEF TypeOK
<1>6. RemovedForAReason'
  <2> SUFFICES ASSUME NEW x \in all, x \notin left', x \notin result'
               PROVE  \E m \in all : <<m, x>> \in deps
    BY <1>2 DEF RemovedForAReason
  <2>1. CASE x = n
    BY <2>1, <1>2
  <2>2. CASE x # n
    BY <2>2, <1>3 DEF RemovedForAReason
  <2> QED BY <2>1, <2>2
<1>7. HandledIsWithdrawn'
  <2> SUFFICES ASSUME NEW d \in deps, Handled(d)'
               PROVE  d[2] \notin left' \cup result'
    BY <1>2 DEF HandledIsWithdrawn
  <2>1. CASE d = e
    BY <2>1, <1>3
  <2>2. CASE d # e
    <3>1. d[1] \in all /\ d[1] \notin left' /\ d[1] \notin Queued' /\ d \notin todo
      BY <2>2, <1>1, <1>2 DEF Handled
    <3>2. d[1] \notin left /\ d[1] \notin Queued
      BY <3>1, <1>3, <1>4
    <3>3. Handled(d)
      BY <3>1, <3>2 DEF Handled
    <3> QED BY <3>3, <1>3 DEF HandledIsWithdrawn
  <2> QED BY <2>1, <2>2
<1>8. ControlOK'
  BY <1>1, <1>2, <1>3, <1>4 DEF ControlOK
<1> QED BY <1>5, <1>6, <1>7, <1>8

LEMMA NextIInv == IInv /\ [Next]_vars => IInv'
<1> SUFFICES ASSUME IInv, [Next]_vars PROVE IInv'
  OBVIOUS
<1> USE DEF IInv
<1>1. CASE TakeRoot
  <2>1. PICK next \in left : /\ left' = left \ {next}
                             /\ result' = result \cup {next}
                             /\ bfs_q' = <<next>>
    BY <1>1 DEF TakeRoot
  <2>2. /\ UNCHANGED <<all, deps, todo>> /\ pc' = "search" /\ pc = "outer"
        /\ bfs_q = <<>> /\ todo = {} /\ next \in all
    BY <1>1, <2>1 DEF TakeRoot, ControlOK, TypeOK
  <2>3. Queued' = {next} /\ Queued = {}
    BY <2>1, <2>2, QueuedEmpty DEF Queued
  <2>4. TypeOK'
    BY <2>1, <2>2 DEF TypeOK
  <2>5. RemovedForAReason'
    BY <2>1, <2>2 DEF RemovedForAReason
  <2>6. HandledIsWithdrawn'
    <3> SUFFICES ASSUME NEW d \in deps, Handled(d)'
                 PROVE  d[2] \notin left' \cup result'
      BY <2>2 DEF HandledIsWithdrawn
    <3>1. Handled(d)
      BY <2>1, <2>2, <2>3 DEF Handled
    <3>2. d[2] \notin left \cup result
      BY <3>1 DEF HandledIsWithdrawn
    <3> QED BY <3>2, <2>1
  <2>7. ControlOK'
    BY <2>1, <2>2, <2>3 DEF ControlOK
  <2> QED BY <2>4, <2>5, <2>6, <2>7
<1>2. CASE Expand
  <2>1. /\ UNCHANGED <<all, deps, left, result>> /\ pc' = "edges" /\ pc = "search"
        /\ todo = {} /\ bfs_q # <<>> /\ bfs_q' = Tail(bfs_q)
        /\ todo' = {e \in deps : e[1] = Head(bfs_q)}
    BY <1>2 DEF Expand, ControlOK
  <2>2. Queued = Queued' \cup {Head(bfs_q)} /\ Head(bfs_q) \in all
    BY <2>1, QueuedTail DEF TypeOK
  <2>3. TypeOK'
    BY <2>1 DEF TypeOK
  <2>4. RemovedForAReason'
    BY <2>1 DEF RemovedForAReason
  <2>5. HandledIsWithdrawn'
    <3> SUFFICES ASSUME NEW d \in deps, Handled(d)'
                 PROVE  d[2] \notin left \cup result
      BY <2>1 DEF HandledIsWithdrawn
    <3>1. d[1] # Head(bfs_q)
      BY <2>1 DEF Handled
    <3>2. Handled(d)
      BY <3>1, <2>1, <2>2 DEF Handled
    <3> QED BY <3>2 DEF HandledIsWithdrawn
  <2>6. ControlOK'
    BY <2>1, <2>2 DEF ControlOK
  <2> QED BY <2>3, <2>4, <2>5, <2>6
<1>3. CASE Handle
  BY <1>3, HandleIInv
<1>4. CASE EndEdges \/ EndSearch \/ Return \/ UNCHANGED vars
  <2>1. UNCHANGED <<all, deps, left, result, bfs_q, todo>>
    BY <1>4 DEF EndEdges, EndSearch, Return, vars
  <2>2. Queued' = Queued
    BY <2>1 DEF Queued
  <2>3. RemovedForAReason' /\ HandledIsWithdrawn'
    BY <2>1, <2>2 DEF RemovedForAReason, HandledIsWithdrawn, Handled
  <2>4. TypeOK' /\ ControlOK'
    BY <1>4, <2>1, <2>2
       DEF TypeOK, ControlOK, EndEdges, EndSearch, Return, vars
  <2> QED BY <2>3, <2>4
<1> QED BY <1>1, <1>2, <1>3, <1>4 DEF Next

LEMMA IInvRoots == IInv => RootsCorrect
<1> SUFFICES ASSUME IInv, pc = "done" PROVE result = RootsOf(all, deps)
  BY DEF RootsCorrect
<1>1. left = {} /\ todo = {} /\ Queued = {}
  BY QueuedEmpty DEF IInv, ControlOK
<1>2. ASSUME NEW n \in result PROVE \A m \in all : <<m, n>> \notin deps
  <2> SUFFICES ASSUME NEW m \in all, <<m, n>> \in deps PROVE FALSE
    OBVIOUS
  <2>1. Handled(<<m, n>>)
    BY <1>1 DEF Handled
  <2> QED BY <2>1, <1>2 DEF IInv, HandledIsWithdrawn
<1>3. ASSUME NEW n \in all, \A m \in all : <<m, n>> \notin deps PROVE n \in result
  BY <1>1, <1>3 DEF IInv, RemovedForAReason
<1> QED BY <1>2, <1>3 DEF RootsOf, IInv, TypeOK

\* The containers of fp_analysis::roots stay within the base set, for every
\* node set and dependency graph.
THEOREM RootsTyped == Spec => []TypeOK
<1>1. IInv => TypeOK
  BY DEF IInv
<1> QED BY InitIInv, NextIInv, <1>1, PTL DEF Spec

\* fp_analysis::roots returns exactly the nodes of the base set on which no
\* node of the base set has an edge, for every node set, every base set and
\* every dependency graph, cyclic or not.
THEOREM RootsSafe == Spec => []RootsCorrect
BY InitIInv, NextIInv, IInvRoots, PTL DEF Spec

=============================================================================
