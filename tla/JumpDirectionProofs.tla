------------------------ MODULE JumpDirectionProofs ------------------------
(***************************************************************************)
(* Proofs about the directions of jumps, for all code laid out in blocks:  *)
(* whatever edges are inserted and whenever somebody asks, a node has the  *)
(* address of its block or none, and every cycle has a jump backwards.     *)
(*                                                                         *)
(* A node has no other address than that of its block, so addresses join,  *)
(* and once a node has its address it keeps it.  An edge that has still to *)
(* pass its address on leads to a node that will be visited.               *)
(***************************************************************************)
EXTENDS JumpDirection, FiniteSetTheorems, WellFoundedInduction, TLAPS

\* The graph is laid out in blocks, as all that was put into it.
GraphInv ==
  \A e \in DOMAIN edges :
    AddressOf[e[2]] = None => Block[e[1]] = Block[e[2]] /\ (edges[e] = "plain" => Pos[e[1]] < Pos[e[2]])

\* No node has another address than that of its block, and a plain node has its address
\* from a node before it.
StateInv ==
  /\ \A n \in Nodes : state[n] \in {None, Block[n]}
  /\ \A v \in Nodes : AddressOf[v] = None /\ state[v] # None => \E u \in InEdges(v) : state[u] # None

\* An address that has still to be passed on will be.
PassedOn ==
  \A e \in DOMAIN edges : state[e[1]] # None /\ state[e[2]] = None => e[2] \in worklist \cup updated_dirty

\* The nodes all code is reached from have their address, or wait for it.
Entered ==
  \E g \in InitGraphs :
    /\ DOMAIN g \subseteq DOMAIN edges
    /\ \A n \in Nodes : AddressOf[n] # None /\ (\A e \in DOMAIN g : e[2] # n) => state[n] # None \/ n \in pending

\* A node has an address only if it is behind one.
BehindOnly == \A R \in SUBSET Nodes : Closed(R) => \A n \in Nodes : state[n] # None => n \in R

\* The inductive invariant.
JumpInv ==
  /\ TypeOK /\ (~notified => updated_dirty = {})
  /\ GraphInv /\ StateInv /\ BehindOnly /\ PassedOn /\ Entered

-----------------------------------------------------------------------------
(* Finite sets of numbers *)

\* A set of numbers that has 0 and each successor has every number.
LEMMA AllNumbers ==
  ASSUME NEW S, 0 \in S, \A k \in Nat : k \in S => k + 1 \in S
  PROVE  Nat \subseteq S
<1> DEFINE T == Nat \ S
<1>1. SUFFICES ASSUME T # {} PROVE FALSE
  OBVIOUS
<1>2. PICK m \in T : \A n \in T : ~(<<n, m>> \in OpToRel(<, Nat))
  <2>1. T \subseteq Nat
    OBVIOUS
  <2> HIDE DEF T
  <2>2. QED
    BY <1>1, <2>1, NatLessThanWellFounded, WFMin, Zenon
<1>3. m \in Nat /\ m # 0
  BY <1>2
<1>4. m - 1 \in Nat /\ m - 1 < m /\ (m - 1) + 1 = m
  BY <1>3
<1>5. m - 1 \notin T
  BY <1>2, <1>3, <1>4, Zenon DEF OpToRel
<1>6. m \in S
  BY <1>3, <1>4, <1>5
<1>7. QED
  BY <1>2, <1>6

\* Among finitely many things one has the greatest measure.
LEMMA Greatest ==
  ASSUME NEW S, IsFiniteSet(S), S # {}, NEW f, \A x \in S : f[x] \in Nat
  PROVE  \E m \in S : \A x \in S : f[x] <= f[m]
<1> DEFINE H(n) == \A R \in SUBSET S : R # {} /\ Cardinality(R) = n => \E m \in R : \A x \in R : f[x] <= f[m]
<1> DEFINE Ns == {n \in Nat : H(n)}
<1>1. \A R \in SUBSET S : IsFiniteSet(R) /\ Cardinality(R) \in Nat
  BY FS_Subset, FS_CardinalityType
<1>2. 0 \in Ns
  BY <1>1, FS_EmptySet
<1>3. ASSUME NEW k \in Nat, k \in Ns PROVE k + 1 \in Ns
  <2>1. SUFFICES ASSUME NEW R \in SUBSET S, R # {}, Cardinality(R) = k + 1
                 PROVE  \E m \in R : \A x \in R : f[x] <= f[m]
    OBVIOUS
  <2>2. PICK y \in R : TRUE
    BY <2>1
  <2>3. Cardinality(R \ {y}) = k
    <3>1. Cardinality(R \ {y}) = Cardinality(R) - 1
      BY <1>1, FS_RemoveElement
    <3>2. QED
      BY <2>1, <3>1
  <2>4. CASE R \ {y} = {}
    BY <2>4, <2>2
  <2>5. CASE R \ {y} # {}
    <3>1. PICK m \in R \ {y} : \A x \in R \ {y} : f[x] <= f[m]
      BY <1>3, <2>3, <2>5
    <3>2. f[m] \in Nat /\ f[y] \in Nat /\ \A x \in R : f[x] \in Nat
      OBVIOUS
    <3>3. CASE f[m] <= f[y]
      <4>1. ASSUME NEW x \in R PROVE f[x] <= f[y]
        BY <3>1, <3>2, <3>3
      <4>2. QED
        BY <4>1
    <3>4. CASE ~(f[m] <= f[y])
      <4>1. ASSUME NEW x \in R PROVE f[x] <= f[m]
        BY <3>1, <3>2, <3>4
      <4>2. QED
        BY <4>1
    <3>5. QED
      BY <3>3, <3>4
  <2>6. QED
    BY <2>4, <2>5
<1>4. Nat \subseteq Ns
  <2> HIDE DEF Ns
  <2> QED BY <1>2, <1>3, AllNumbers
<1>5. Cardinality(S) \in Ns
  BY <1>1, <1>4
<1>6. QED
  BY <1>5

\* Max of a finite set of numbers is one of them.
LEMMA MaxIn ==
  ASSUME NEW S \in SUBSET Nat, IsFiniteSet(S), S # {}
  PROVE  Max(S) \in S
<1> DEFINE f == [x \in S |-> x]
<1>1. \A x \in S : f[x] \in Nat
  OBVIOUS
<1>2. PICK m \in S : \A x \in S : f[x] <= f[m]
  <2> HIDE DEF f
  <2> QED BY <1>1, Greatest
<1>3. \A x \in S : m >= x
  <2>1. ASSUME NEW x \in S PROVE m >= x
    <3>1. f[x] = x /\ f[m] = m /\ x \in Nat /\ m \in Nat
      OBVIOUS
    <3>2. f[x] <= f[m]
      BY <1>2
    <3> HIDE DEF f
    <3>3. QED
      BY <3>1, <3>2
  <2>2. QED
    BY <2>1
<1>4. QED
  BY <1>3, Zenon DEF Max

-----------------------------------------------------------------------------
(* What a visit computes *)

\* The fold over the constraints of a node.
LEMMA FoldUnfolds ==
  ASSUME NEW v \in Nodes, IsFiniteSet(InEdges(v)), InEdges(v) \subseteq Nat
  PROVE  \E F : /\ \A s \in SUBSET InEdges(v) :
                     F[s] = IF s = {} THEN None ELSE Join(Evaluated(Max(s), v), F[s \ {Max(s)}])
                /\ InEdges(v) # {} => Accumulated(v) = F[InEdges(v)]
<1> DEFINE S == InEdges(v)
           Body(F, s) == IF s = {} THEN None ELSE Join(Evaluated(Max(s), v), F[s \ {Max(s)}])
           Upto(F, n) == /\ F = [s \in SUBSET S |-> F[s]]
                         /\ \A s \in SUBSET S : Cardinality(s) <= n => F[s] = Body(F, s)
           Ns == {n \in Nat : \E F : Upto(F, n)}
           iter == CHOOSE F : F = [s \in SUBSET S |-> Body(F, s)]
<1>1. \A s \in SUBSET S : IsFiniteSet(s) /\ Cardinality(s) \in Nat /\ Cardinality(s) <= Cardinality(S)
  BY FS_Subset, FS_CardinalityType
<1>2. \A s \in SUBSET S : s # {} => Max(s) \in s /\ Cardinality(s \ {Max(s)}) = Cardinality(s) - 1
  <2>1. ASSUME NEW s \in SUBSET S, s # {} PROVE Max(s) \in s /\ Cardinality(s \ {Max(s)}) = Cardinality(s) - 1
    <3>1. Max(s) \in s
      BY <1>1, <2>1, MaxIn
    <3>2. IsFiniteSet(s)
      BY <1>1
    <3>3. QED
      BY <3>1, <3>2, FS_RemoveElement
  <2>2. QED
    BY <2>1
<1>3. 0 \in Ns
  <2> DEFINE F == [s \in SUBSET S |-> None]
  <2>1. F = [s \in SUBSET S |-> F[s]]
    OBVIOUS
  <2>2. ASSUME NEW s \in SUBSET S, Cardinality(s) <= 0 PROVE F[s] = Body(F, s)
    <3>1. s = {}
      BY <1>1, <2>2, FS_EmptySet
    <3>2. QED
      BY <3>1
  <2>3. Upto(F, 0)
    <3> HIDE DEF F, Body
    <3> QED BY <2>1, <2>2
  <2> HIDE DEF Upto, F
  <2>4. QED
    BY <2>3
<1>4. ASSUME NEW k \in Nat, k \in Ns PROVE k + 1 \in Ns
  <2>1. PICK F : Upto(F, k)
    BY <1>4
  <2> DEFINE G == [s \in SUBSET S |-> IF Cardinality(s) <= k THEN F[s] ELSE Body(F, s)]
  <2>2. G = [s \in SUBSET S |-> G[s]]
    OBVIOUS
  <2>3. ASSUME NEW s \in SUBSET S, Cardinality(s) <= k + 1 PROVE G[s] = Body(G, s)
    <3>1. G[s] = Body(F, s)
      BY <2>1
    <3>2. CASE s = {}
      BY <3>1, <3>2
    <3>3. CASE s # {}
      <4>1. s \ {Max(s)} \in SUBSET S /\ Cardinality(s \ {Max(s)}) <= k
        BY <1>1, <1>2, <2>3, <3>3
      <4>2. G[s \ {Max(s)}] = F[s \ {Max(s)}]
        BY <4>1
      <4> HIDE DEF G
      <4>3. QED
        BY <3>1, <3>3, <4>2
    <3>4. QED
      BY <3>2, <3>3
  <2>4. Upto(G, k + 1)
    <3> HIDE DEF G, Body
    <3> QED BY <2>2, <2>3
  <2>5. \E E : Upto(E, k + 1)
    <3> HIDE DEF Upto, G
    <3> QED BY <2>4, Zenon
  <2> HIDE DEF Upto
  <2>6. QED
    BY <2>5
<1>5. Cardinality(S) \in Ns
  <2>1. Nat \subseteq Ns
    <3> HIDE DEF Ns
    <3> QED BY <1>3, <1>4, AllNumbers
  <2>2. QED
    BY <1>1, <2>1
<1>6. PICK F : Upto(F, Cardinality(S))
  BY <1>5
<1>7. F = [s \in SUBSET S |-> Body(F, s)]
  <2> HIDE DEF Body
  <2>1. \A s \in SUBSET S : F[s] = Body(F, s)
    BY <1>1, <1>6
  <2>2. QED
    BY <1>6, <2>1
<1>8. iter = [s \in SUBSET S |-> Body(iter, s)]
  <2> HIDE DEF Body
  <2> QED BY <1>7, Zenon
<1>9. \A s \in SUBSET S : iter[s] = Body(iter, s)
  <2> HIDE DEF Body, iter
  <2> QED BY <1>8, Zenon
<1>10. S # {} => Accumulated(v) = iter[S]
  BY Zenon DEF Accumulated, MapThenFoldSet
<1>11. QED
  <2> HIDE DEF iter
  <2> QED BY <1>9, <1>10

\* What one constraint contributes.
LEMMA EvaluatedIs ==
  ASSUME GraphInv, StateInv,
         NEW v \in Nodes, NEW u \in InEdges(v)
  PROVE  /\ Evaluated(u, v) \in {None, Block[v]}
         /\ AddressOf[v] # None => Evaluated(u, v) = AddressOf[v]
         /\ AddressOf[v] = None /\ state[u] # None => Evaluated(u, v) # None
         /\ AddressOf[v] = None /\ Evaluated(u, v) # None => state[u] # None \/ state[v] # None
<1>1. u \in Nodes /\ <<u, v>> \in DOMAIN edges
  BY DEF InEdges
<1>2. /\ state[u] \in {None, Block[u]} /\ state[v] \in {None, Block[v]}
      /\ Block[v] # None /\ AddressOf[v] \in {None, Block[v]}
  BY <1>1, LayoutAssumption DEF StateInv
<1>3. AddressOf[v] = None => Block[u] = Block[v]
  <2>1. <<u, v>>[1] = u /\ <<u, v>>[2] = v
    OBVIOUS
  <2>2. QED
    BY <1>1, <2>1 DEF GraphInv
<1>4. Evaluated(u, v) \in {Transform(u, v), Box(state[v], Transform(u, v))}
  BY DEF Evaluated
<1>5. Transform(u, v) = IF AddressOf[v] # None THEN AddressOf[v] ELSE state[u]
  BY DEF Transform, IsAddress
<1>6. ASSUME NEW t \in {None, Block[v]}
      PROVE  Box(state[v], t) = IF t # None THEN t ELSE state[v]
  BY <1>2 DEF Box, Geq, Join
<1>7. Transform(u, v) \in {None, Block[v]}
  BY <1>2, <1>3, <1>5
<1>8. Box(state[v], Transform(u, v)) = IF Transform(u, v) # None THEN Transform(u, v) ELSE state[v]
  BY <1>6, <1>7
<1>9. QED
  BY <1>2, <1>4, <1>5, <1>7, <1>8

\* What all constraints of a node contribute.  Its address is that of its block, and it
\* has one as soon as a node before it has.
LEMMA AccumulatedIs ==
  ASSUME GraphInv, StateInv,
         NEW v \in Nodes
  PROVE  /\ Accumulated(v) \in {None, Block[v]}
         /\ AddressOf[v] # None => Accumulated(v) = AddressOf[v]
         /\ AddressOf[v] = None =>
              (Accumulated(v) # None <=> \E u \in InEdges(v) : state[u] # None)
<1> DEFINE S == InEdges(v)
<1>1. IsFiniteSet(S) /\ S \subseteq Nat /\ S \subseteq Nodes
  <2>1. S \subseteq Nodes
    BY DEF InEdges
  <2>2. QED
    BY <2>1, FS_Subset, LayoutAssumption, GraphAssumption
<1>2. CASE S = {}
  BY <1>2, LayoutAssumption DEF Accumulated
<1>3. CASE S # {}
  <2>1. PICK F : /\ \A s \in SUBSET S :
                      F[s] = IF s = {} THEN None ELSE Join(Evaluated(Max(s), v), F[s \ {Max(s)}])
                 /\ S # {} => Accumulated(v) = F[S]
    BY <1>1, FoldUnfolds
  <2> DEFINE Right(s) == /\ F[s] \in {None, Block[v]}
                         /\ F[s] # None <=> \E u \in s : Evaluated(u, v) # None
             Ns == {n \in Nat : \A s \in SUBSET S : Cardinality(s) = n => Right(s)}
  <2>2. 0 \in Ns
    <3>1. \A s \in SUBSET S : Cardinality(s) = 0 => s = {}
      BY <1>1, FS_Subset, FS_EmptySet
    <3>2. F[{}] = None
      BY <2>1
    <3>3. QED
      BY <3>1, <3>2
  <2>3. ASSUME NEW k \in Nat, k \in Ns PROVE k + 1 \in Ns
    <3>1. SUFFICES ASSUME NEW s \in SUBSET S, Cardinality(s) = k + 1 PROVE Right(s)
      OBVIOUS
    <3>2. IsFiniteSet(s) /\ s # {}
      BY <1>1, <3>1, FS_Subset, FS_EmptySet
    <3> DEFINE m == Max(s)
               r == s \ {m}
    <3>3. m \in s
      BY <1>1, <3>2, MaxIn
    <3>4. Cardinality(r) = k /\ r \in SUBSET S
      <4>1. Cardinality(r) = Cardinality(s) - 1
        BY <3>2, <3>3, FS_RemoveElement
      <4>2. QED
        BY <3>1, <4>1
    <3>5. Right(r)
      BY <2>3, <3>4
    <3>6. F[s] = Join(Evaluated(m, v), F[r])
      BY <2>1, <3>2
    <3>7. Evaluated(m, v) \in {None, Block[v]} /\ m \in S
      BY <3>3, EvaluatedIs
    <3>8. s = r \cup {m}
      BY <3>3
    <3> HIDE DEF m, r
    <3>9. QED
      BY <3>5, <3>6, <3>7, <3>8 DEF Join
  <2>4. Nat \subseteq Ns
    <3> HIDE DEF Ns
    <3> QED BY <2>2, <2>3, AllNumbers
  <2>5. Right(S)
    <3>1. Cardinality(S) \in Nat
      BY <1>1, FS_CardinalityType
    <3>2. QED
      BY <2>4, <3>1
  <2>6. PICK w \in S : TRUE
    BY <1>3
  <2>7. Accumulated(v) = F[S]
    BY <1>3, <2>1
  <2>8. CASE AddressOf[v] # None
    <3>1. Evaluated(w, v) = AddressOf[v] /\ AddressOf[v] = Block[v]
      BY <2>8, EvaluatedIs, LayoutAssumption
    <3>2. QED
      BY <2>5, <2>7, <2>8, <3>1
  <2>9. CASE AddressOf[v] = None
    <3>1. \A u \in S : state[u] # None => Evaluated(u, v) # None
      BY <2>9, EvaluatedIs
    <3>2. \A u \in S : Evaluated(u, v) # None => \E x \in S : state[x] # None
      BY <2>9, EvaluatedIs DEF StateInv
    <3>3. QED
      BY <2>5, <2>7, <2>9, <3>1, <3>2
  <2>10. QED
    BY <2>8, <2>9
<1>4. QED
  BY <1>2, <1>3

\* A visit keeps what is known, and passes on what it finds.
LEMMA VisitKeeps ==
  ASSUME JumpInv,
         NEW v \in Nodes, Visit(v), UNCHANGED <<edges, updated_dirty>>
  PROVE  /\ DOMAIN state' = Nodes /\ worklist' \subseteq Nodes /\ postprocess' \subseteq Nodes
         /\ StateInv' /\ BehindOnly' /\ PassedOn'
         /\ \A n \in Nodes : state[n] # None => state'[n] # None
         /\ AddressOf[v] # None => state'[v] # None
<1> DEFINE A == Accumulated(v)
           D == DependantsOf(DOMAIN edges, v)
<1>1. /\ A \in {None, Block[v]}
      /\ AddressOf[v] # None => A = AddressOf[v]
      /\ AddressOf[v] = None => (A # None <=> \E u \in InEdges(v) : state[u] # None)
  BY AccumulatedIs DEF JumpInv
<1>2. /\ DOMAIN state = Nodes /\ worklist \subseteq Nodes /\ postprocess \subseteq Nodes
      /\ DOMAIN edges \subseteq Nodes \X Nodes
  BY DEF JumpInv, TypeOK
<1>3. state[v] # A => Propagates(v)
  BY DEF Propagates
<1>4. \/ state' = [state EXCEPT ![v] = A] /\ worklist' = (worklist \ {v}) \cup D
      \/ state' = state /\ state[v] = A /\ worklist' = worklist \ {v}
  BY <1>3 DEF Visit
<1> HIDE DEF A
<1>5. DOMAIN state' = Nodes /\ state'[v] = A /\ \A n \in Nodes \ {v} : state'[n] = state[n]
  BY <1>2, <1>4
<1>6. D \subseteq Nodes /\ \A e \in DOMAIN edges : e[1] = v => e[2] \in D
  BY <1>2 DEF DependantsOf
<1>7. state[v] # None => A # None
  <2>1. AddressOf[v] = None /\ state[v] # None => \E u \in InEdges(v) : state[u] # None
    BY DEF JumpInv, StateInv
  <2>2. QED
    BY <1>1, <2>1
<1>8. \A n \in Nodes : state[n] # None => state'[n] # None
  BY <1>5, <1>7
<1>9. StateInv'
  <2>1. ASSUME NEW n \in Nodes PROVE state'[n] \in {None, Block[n]}
    <3>1. state[n] \in {None, Block[n]}
      BY DEF JumpInv, StateInv
    <3>2. CASE n = v
      BY <1>1, <1>5, <3>2
    <3>3. CASE n # v
      BY <1>5, <3>1, <3>3
    <3>4. QED
      BY <3>2, <3>3
  <2>2. ASSUME NEW w \in Nodes, AddressOf[w] = None, state'[w] # None
        PROVE  \E u \in InEdges(w) : state'[u] # None
    <3>1. \E u \in InEdges(w) : state[u] # None
      BY <1>1, <1>5, <2>2 DEF JumpInv, StateInv
    <3>2. InEdges(w) \subseteq Nodes
      BY DEF InEdges
    <3>3. QED
      BY <1>8, <3>1, <3>2
  <2>3. \A w : InEdges(w)' = InEdges(w)
    BY DEF InEdges
  <2>4. QED
    BY <2>1, <2>2, <2>3 DEF StateInv
<1>10. PassedOn'
  <2>1. SUFFICES ASSUME NEW e \in DOMAIN edges, state'[e[1]] # None, state'[e[2]] = None
                 PROVE  e[2] \in worklist' \cup updated_dirty
    BY DEF PassedOn
  <2>2. e[1] \in Nodes /\ e[2] \in Nodes /\ e = <<e[1], e[2]>>
    BY <1>2
  <2>3. state[e[2]] = None
    BY <1>8, <2>1, <2>2
  <2>4. e[2] = v => state[e[1]] = None
    <3>1. SUFFICES ASSUME e[2] = v, state[e[1]] # None PROVE FALSE
      OBVIOUS
    <3>2. e[1] \in InEdges(v)
      BY <2>2, <3>1 DEF InEdges
    <3>3. AddressOf[v] = None
      BY <1>1, <1>5, <2>1, <3>1
    <3>4. QED
      BY <1>1, <1>5, <2>1, <3>1, <3>2, <3>3
  <2>5. CASE e[1] = v
    <3>1. CASE state[v] = A
      <4>1. state[e[1]] # None
        BY <1>5, <2>1, <2>5, <3>1
      <4>2. e[2] \in worklist \cup updated_dirty /\ e[2] # v
        BY <2>3, <2>4, <4>1 DEF JumpInv, PassedOn
      <4>3. QED
        BY <1>4, <4>2
    <3>2. CASE state[v] # A
      BY <1>4, <1>6, <2>5, <3>2
    <3>3. QED
      BY <3>1, <3>2
  <2>6. CASE e[1] # v
    <3>1. state[e[1]] # None
      BY <1>5, <2>1, <2>2, <2>6
    <3>2. e[2] \in worklist \cup updated_dirty /\ e[2] # v
      BY <2>3, <2>4, <3>1 DEF JumpInv, PassedOn
    <3>3. QED
      BY <1>4, <3>2
  <2>7. QED
    BY <2>5, <2>6
<1>11. worklist' \subseteq Nodes /\ postprocess' \subseteq Nodes
  BY <1>2, <1>4, <1>6 DEF Visit
<1>12. AddressOf[v] # None => state'[v] # None
  BY <1>1, <1>5
<1>13. BehindOnly'
  <2>1. SUFFICES ASSUME NEW R \in SUBSET Nodes, Closed(R), NEW n \in Nodes, state'[n] # None
                 PROVE  n \in R
    BY DEF BehindOnly, Closed
  <2>2. \A m \in Nodes : state[m] # None => m \in R
    BY <2>1 DEF JumpInv, BehindOnly
  <2>3. CASE n # v
    BY <1>5, <2>1, <2>2, <2>3
  <2>4. CASE n = v /\ AddressOf[v] # None
    BY <2>1, <2>4 DEF Closed, IsAddress
  <2>5. CASE n = v /\ AddressOf[v] = None
    <3>1. PICK u \in InEdges(v) : state[u] # None
      BY <1>1, <1>5, <2>1, <2>5
    <3>2. u \in R /\ <<u, v>> \in DOMAIN edges
      BY <2>2, <3>1 DEF InEdges
    <3>3. <<u, v>>[1] = u /\ <<u, v>>[2] = v
      OBVIOUS
    <3>4. QED
      BY <2>1, <2>5, <3>2, <3>3 DEF Closed
  <2>6. QED
    BY <2>3, <2>4, <2>5
<1>14. QED
  BY <1>5, <1>8, <1>9, <1>10, <1>11, <1>12, <1>13

-----------------------------------------------------------------------------
(* The invariant *)

\* An entry keeps its address, and is not forgotten before it has one.
LEMMA EnteredKept ==
  ASSUME Entered, DOMAIN edges \subseteq (DOMAIN edges)',
         \A n \in Nodes : AddressOf[n] # None /\ (state[n] # None \/ n \in pending)
                            => state'[n] # None \/ n \in pending'
  PROVE  Entered'
<1>1. PICK g \in InitGraphs :
        /\ DOMAIN g \subseteq DOMAIN edges
        /\ \A n \in Nodes : AddressOf[n] # None /\ (\A e \in DOMAIN g : e[2] # n)
                              => state[n] # None \/ n \in pending
  BY DEF Entered
<1>2. DOMAIN g \subseteq (DOMAIN edges)'
  BY <1>1
<1>3. \A n \in Nodes : AddressOf[n] # None /\ (\A e \in DOMAIN g : e[2] # n)
                         => state'[n] # None \/ n \in pending'
  BY <1>1
<1>4. QED
  BY <1>2, <1>3 DEF Entered

\* The constructor of jd_manager begins with the nodes without constraints.
LEMMA InitInv ==
  ASSUME Init
  PROVE  JumpInv
<1>1. edges \in InitGraphs /\ DOMAIN edges \subseteq Nodes \X Nodes /\ edges \in [DOMAIN edges -> Kinds]
  BY GraphAssumption DEF Init
<1>2. \A n \in Nodes : state[n] = None
  BY DEF Init
<1>3. TypeOK /\ (~notified => updated_dirty = {})
  BY <1>1 DEF Init, TypeOK, RootsOf
<1>4. GraphInv
  BY <1>1, LayoutAssumption DEF GraphInv
<1>5. StateInv
  BY <1>2 DEF StateInv
<1>6. PassedOn
  <2>1. \A e \in DOMAIN edges : e[1] \in Nodes
    BY <1>1
  <2>2. QED
    BY <1>2, <2>1 DEF PassedOn
<1>7. Entered
  <2>1. ASSUME NEW n \in Nodes, \A e \in DOMAIN edges : e[2] # n PROVE n \in pending
    <3>1. \A m \in Nodes : <<m, n>> \notin DOMAIN edges
      <4>1. ASSUME NEW m \in Nodes PROVE <<m, n>> \notin DOMAIN edges
        <5>1. <<m, n>>[2] = n
          OBVIOUS
        <5>2. QED
          BY <2>1, <5>1
      <4>2. QED
        BY <4>1
    <3>2. QED
      BY <3>1 DEF Init, RootsOf
  <2>2. QED
    BY <1>1, <2>1 DEF Entered
<1>8. BehindOnly
  BY <1>2 DEF BehindOnly
<1>9. QED
  BY <1>3, <1>4, <1>5, <1>6, <1>7, <1>8 DEF JumpInv

\* The inner engine visits a node.
LEMMA PopInv ==
  ASSUME JumpInv,
         PopWorklist \/ PopPending
  PROVE  JumpInv'
<1>1. PICK v \in worklist \cup pending :
        /\ running /\ Visit(v)
        /\ pending' \in {pending, pending \ {v}}
  BY DEF PopWorklist, PopPending
<1>2. UNCHANGED <<edges, updated_dirty>> /\ UNCHANGED <<fixpoint_pending, notified, running, commits>>
  BY DEF PopWorklist, PopPending
<1>3. v \in Nodes /\ TypeOK
  BY DEF JumpInv, TypeOK
<1>4. /\ DOMAIN state' = Nodes /\ worklist' \subseteq Nodes /\ postprocess' \subseteq Nodes
      /\ StateInv' /\ BehindOnly' /\ PassedOn'
      /\ \A n \in Nodes : state[n] # None => state'[n] # None
      /\ AddressOf[v] # None => state'[v] # None
  BY <1>1, <1>2, <1>3, VisitKeeps
<1>5. pending' \subseteq Nodes
  BY <1>1, <1>3 DEF TypeOK
<1>6. TypeOK' /\ (~notified => updated_dirty = {})'
  BY <1>1, <1>2, <1>3, <1>4, <1>5 DEF TypeOK, JumpInv
<1>7. GraphInv'
  BY <1>2 DEF GraphInv, JumpInv
<1>8. Entered'
  <2>1. \A n \in Nodes : AddressOf[n] # None /\ (state[n] # None \/ n \in pending)
                           => state'[n] # None \/ n \in pending'
    BY <1>1, <1>4
  <2>2. DOMAIN edges \subseteq (DOMAIN edges)'
    BY <1>2
  <2>3. Entered
    BY DEF JumpInv
  <2>4. QED
    BY <2>1, <2>2, <2>3, EnteredKept
<1>9. QED
  BY <1>4, <1>6, <1>7, <1>8 DEF JumpInv

\* The others: what has to be visited moves between the lists of the engine.
LEMMA QueuesInv ==
  ASSUME JumpInv, Postprocess \/ End \/ Ask
  PROVE  JumpInv'
<1>1. UNCHANGED edges /\ UNCHANGED state
  BY DEF Postprocess, End, Ask
<1>2. TypeOK /\ (~notified => updated_dirty = {})
  BY DEF JumpInv
<1>3. TypeOK' /\ (~notified => updated_dirty = {})'
  BY <1>2 DEF TypeOK, Postprocess, End, Ask, queue_vars
<1>4. worklist \cup updated_dirty \subseteq worklist' \cup updated_dirty'
  BY <1>2 DEF TypeOK, Postprocess, End, Ask, queue_vars
<1>5. pending \subseteq pending'
  BY <1>2 DEF TypeOK, Postprocess, End, Ask, queue_vars
<1>6. GraphInv'
  BY <1>1 DEF GraphInv, JumpInv
<1>7. StateInv'
  BY <1>1 DEF StateInv, JumpInv, InEdges
<1>8. PassedOn'
  BY <1>1, <1>4 DEF PassedOn, JumpInv
<1>9. Entered'
  BY <1>1, <1>5, EnteredKept DEF JumpInv
<1>10. BehindOnly'
  BY <1>1 DEF BehindOnly, JumpInv, Closed
<1>11. QED
  BY <1>3, <1>6, <1>7, <1>8, <1>9, <1>10 DEF JumpInv

\* Edges are inserted or replaced: their end points will be visited.
LEMMA CommitInv ==
  ASSUME JumpInv, Commit
  PROVE  JumpInv'
<1>1. PICK put \in Batches :
        /\ edges' = [e \in DOMAIN edges \cup DOMAIN put |-> IF e \in DOMAIN put THEN put[e] ELSE edges[e]]
        /\ updated_dirty' = updated_dirty \cup Endpoints(DOMAIN put)
        /\ Notify(DOMAIN put)
  BY DEF Commit
<1>2. UNCHANGED state /\ UNCHANGED pending /\ UNCHANGED worklist /\ UNCHANGED postprocess /\ UNCHANGED running
  BY DEF Commit, queue_vars
<1>3. DOMAIN put \subseteq Nodes \X Nodes /\ put \in [DOMAIN put -> Kinds]
  BY GraphAssumption
<1>4. TypeOK
  BY DEF JumpInv
<1>5. (DOMAIN edges)' = DOMAIN edges \cup DOMAIN put
  BY <1>1
<1>6. \A e \in DOMAIN put : e[2] \in Endpoints(DOMAIN put)
  BY DEF Endpoints
<1>7. TypeOK'
  <2>1. Endpoints(DOMAIN put) \subseteq Nodes
    BY <1>3 DEF Endpoints
  <2>2. updated_dirty' \subseteq Nodes /\ fixpoint_pending' \subseteq Nodes /\ notified' \in BOOLEAN
    BY <1>1, <1>4, <2>1 DEF TypeOK, Notify, RootsOf
  <2>3. (DOMAIN edges)' \subseteq Nodes \X Nodes
    BY <1>3, <1>4, <1>5 DEF TypeOK
  <2>4. (edges \in [DOMAIN edges -> Kinds])'
    BY <1>1, <1>3, <1>4 DEF TypeOK
  <2>5. QED
    BY <1>2, <1>4, <2>2, <2>3, <2>4 DEF TypeOK
<1>8. (~notified => updated_dirty = {})'
  BY <1>1 DEF Notify
<1>9. GraphInv'
  <2>1. ASSUME NEW e \in DOMAIN edges \cup DOMAIN put, AddressOf[e[2]] = None
        PROVE  Block[e[1]] = Block[e[2]] /\ (edges'[e] = "plain" => Pos[e[1]] < Pos[e[2]])
    <3>1. CASE e \in DOMAIN put
      <4>1. edges'[e] = put[e]
        BY <1>1, <3>1
      <4>2. QED
        BY <2>1, <3>1, <4>1, LayoutAssumption
    <3>2. CASE e \notin DOMAIN put
      <4>1. edges'[e] = edges[e] /\ e \in DOMAIN edges
        BY <1>1, <2>1, <3>2
      <4>2. QED
        BY <2>1, <4>1 DEF JumpInv, GraphInv
    <3>3. QED
      BY <3>1, <3>2
  <2>2. QED
    BY <1>5, <2>1 DEF GraphInv
<1>10. StateInv'
  <2>1. \A v : InEdges(v) \subseteq InEdges(v)'
    BY <1>5 DEF InEdges
  <2>2. StateInv
    BY DEF JumpInv
  <2>3. \A n \in Nodes : state'[n] \in {None, Block[n]}
    BY <1>2, <2>2 DEF StateInv
  <2>4. ASSUME NEW v \in Nodes, AddressOf[v] = None, state'[v] # None
        PROVE  \E u \in InEdges(v)' : state'[u] # None
    BY <1>2, <2>1, <2>2, <2>4 DEF StateInv
  <2>5. QED
    BY <2>3, <2>4 DEF StateInv
<1>11. PassedOn'
  <2>1. ASSUME NEW e \in DOMAIN edges \cup DOMAIN put, state'[e[1]] # None, state'[e[2]] = None
        PROVE  e[2] \in worklist' \cup updated_dirty'
    <3>1. CASE e \in DOMAIN put
      BY <1>1, <1>6, <3>1
    <3>2. CASE e \in DOMAIN edges
      BY <1>1, <1>2, <2>1, <3>2 DEF JumpInv, PassedOn
    <3>3. QED
      BY <3>1, <3>2
  <2>2. QED
    BY <1>5, <2>1 DEF PassedOn
<1>12. Entered'
  BY <1>2, <1>5, EnteredKept DEF JumpInv
<1>13. BehindOnly'
  <2>1. \A R : Closed(R)' => Closed(R)
    BY <1>5 DEF Closed
  <2>2. BehindOnly
    BY DEF JumpInv
  <2>3. QED
    BY <1>2, <2>1, <2>2 DEF BehindOnly
<1>14. QED
  BY <1>7, <1>8, <1>9, <1>10, <1>11, <1>12, <1>13 DEF JumpInv

\* Every step preserves the invariant.
LEMMA NextInv ==
  ASSUME JumpInv, [Next]_vars
  PROVE  JumpInv'
<1>1. CASE PopWorklist \/ PopPending
  BY <1>1, PopInv
<1>2. CASE Postprocess \/ End \/ Ask
  BY <1>2, QueuesInv
<1>3. CASE Commit
  BY <1>3, CommitInv
<1>4. CASE UNCHANGED vars
  <2>1. /\ edges' = edges /\ state' = state /\ fixpoint_pending' = fixpoint_pending
        /\ updated_dirty' = updated_dirty /\ notified' = notified /\ pending' = pending
        /\ worklist' = worklist /\ postprocess' = postprocess /\ running' = running
    BY <1>4 DEF vars, queue_vars
  <2>2. TypeOK' /\ (~notified => updated_dirty = {})'
    BY <2>1 DEF JumpInv, TypeOK
  <2>3. GraphInv'
    BY <2>1 DEF JumpInv, GraphInv
  <2>4. StateInv'
    BY <2>1 DEF JumpInv, StateInv, InEdges
  <2>5. PassedOn'
    BY <2>1 DEF JumpInv, PassedOn
  <2>6. Entered'
    BY <2>1 DEF JumpInv, Entered
  <2>7. BehindOnly'
    BY <2>1 DEF JumpInv, BehindOnly, Closed
  <2>8. QED
    BY <2>2, <2>3, <2>4, <2>5, <2>6, <2>7 DEF JumpInv
<1>5. QED
  BY <1>1, <1>2, <1>3, <1>4 DEF Next, Iterate

-----------------------------------------------------------------------------
(* What a jd_manager answers *)

\* When nothing is left to visit, an address has gone along every edge, and every
\* address node has its own.
LEMMA AllPassedOn ==
  ASSUME JumpInv, UpToDate
  PROVE  Closed({n \in Nodes : state[n] # None})
<1> DEFINE R == {n \in Nodes : state[n] # None}
<1>1. TypeOK /\ worklist = {} /\ pending = {} /\ updated_dirty = {}
  BY DEF UpToDate, JumpInv, TypeOK
<1>2. DOMAIN edges \subseteq Nodes \X Nodes
  BY <1>1 DEF TypeOK
<1>3. ASSUME NEW e \in DOMAIN edges, e[1] \in R PROVE e[2] \in R
  <2>1. e[2] \in Nodes /\ state[e[1]] # None
    BY <1>2, <1>3
  <2>2. state[e[2]] # None
    BY <1>1, <2>1 DEF JumpInv, PassedOn
  <2>3. QED
    BY <2>1, <2>2
<1>4. PICK g \in InitGraphs :
        /\ DOMAIN g \subseteq DOMAIN edges
        /\ \A n \in Nodes : AddressOf[n] # None /\ (\A e \in DOMAIN g : e[2] # n)
                              => state[n] # None \/ n \in pending
  BY DEF JumpInv, Entered
<1>5. \A n \in Nodes : AddressOf[n] # None => n \in R
  <2>1. R \in SUBSET Nodes
    OBVIOUS
  <2>2. \A n \in Nodes : AddressOf[n] # None /\ (\A e \in DOMAIN g : e[2] # n) => n \in R
    BY <1>1, <1>4
  <2>3. \A e \in DOMAIN g : e[1] \in R => e[2] \in R
    BY <1>3, <1>4
  <2> HIDE DEF R
  <2>4. QED
    BY <2>1, <2>2, <2>3, LayoutAssumption
<1>6. QED
  BY <1>3, <1>5 DEF Closed, IsAddress

\* The invariant says what addresses there are.
LEMMA InvExact ==
  ASSUME JumpInv
  PROVE  AddressExact
<1>1. \A n \in Nodes : state[n] \in {None, Block[n]}
  BY DEF JumpInv, StateInv
<1>2. ASSUME UpToDate, NEW n \in Nodes PROVE state[n] # None <=> n \in Behind
  <2>1. state[n] # None => n \in Behind
    BY DEF JumpInv, BehindOnly, Behind
  <2>2. n \in Behind => n \in {m \in Nodes : state[m] # None}
    BY <1>2, AllPassedOn DEF Behind
  <2>3. QED
    BY <2>1, <2>2
<1>3. QED
  BY <1>1, <1>2 DEF AddressExact

\* A cycle without a jump backwards would climb through the addresses, and within a
\* block through its nodes.
LEMMA InvCuts ==
  ASSUME JumpInv
  PROVE  LoopsCut
<1>1. SUFFICES ASSUME UpToDate, NEW S \in SUBSET Nodes, S # {},
                      \A u \in S : \E v \in S :
                        /\ <<u, v>> \in DOMAIN edges /\ edges[<<u, v>>] # "call"
                        /\ Direction(u, v) # "BACKWARD"
               PROVE  FALSE
  BY DEF LoopsCut
<1> DEFINE R == {n \in Nodes : state[n] # None}
<1>2. Closed(R)
  BY <1>1, AllPassedOn
<1>3. IsFiniteSet(Nodes) /\ \A n \in Nodes : Block[n] \in Nat \ {0} /\ Pos[n] \in Nat
  BY LayoutAssumption
<1>4. \A n \in Nodes : state[n] \in {None, Block[n]}
  BY DEF JumpInv, StateInv
<1>5. ASSUME NEW u \in S, NEW v \in S, <<u, v>> \in DOMAIN edges, edges[<<u, v>>] # "call",
             Direction(u, v) # "BACKWARD"
      PROVE  /\ AddressOf[v] = None => Block[u] = Block[v] /\ Pos[u] < Pos[v]
             /\ state[u] # None => /\ state[v] # None /\ Block[u] <= Block[v]
                                   /\ AddressOf[v] # None => Block[u] # Block[v]
  <2>1. <<u, v>>[1] = u /\ <<u, v>>[2] = v
    OBVIOUS
  <2>2. edges[<<u, v>>] = "plain"
    <3>1. edges[<<u, v>>] \in Kinds
      BY <1>5 DEF JumpInv, TypeOK
    <3>2. edges[<<u, v>>] # "flagged"
      BY <1>5 DEF Direction
    <3>3. QED
      BY <1>5, <3>1, <3>2 DEF Kinds
  <2>3. AddressOf[v] = None => Block[u] = Block[v] /\ Pos[u] < Pos[v]
    BY <1>5, <2>1, <2>2 DEF JumpInv, GraphInv
  <2>4. ASSUME state[u] # None
        PROVE  /\ state[v] # None /\ Block[u] <= Block[v]
               /\ AddressOf[v] # None => Block[u] # Block[v]
    <3>1. state[v] # None
      BY <1>2, <1>5, <2>1, <2>4 DEF Closed
    <3>2. state[u] = Block[u] /\ state[v] = Block[v]
      BY <1>4, <2>4, <3>1
    <3>3. ~(state[v] < state[u]) /\ ~(IsAddress(v) /\ state[v] = state[u])
      BY <1>5, <2>2, <2>4, <3>1 DEF Direction
    <3>4. Block[u] \in Nat /\ Block[v] \in Nat
      BY <1>3
    <3>5. QED
      BY <3>1, <3>2, <3>3, <3>4 DEF IsAddress
  <2>5. QED
    BY <2>3, <2>4
<1>6. CASE S \cap R = {}
  <2>1. PICK u \in S : \A x \in S : Pos[x] <= Pos[u]
    BY <1>1, <1>3, FS_Subset, Greatest
  <2>2. PICK v \in S : /\ <<u, v>> \in DOMAIN edges /\ edges[<<u, v>>] # "call"
                        /\ Direction(u, v) # "BACKWARD"
    BY <1>1
  <2>3. AddressOf[v] = None
    BY <1>2, <1>6 DEF Closed, IsAddress
  <2>4. Pos[u] < Pos[v] /\ Pos[v] <= Pos[u] /\ Pos[u] \in Nat /\ Pos[v] \in Nat
    BY <1>3, <1>5, <2>1, <2>2, <2>3
  <2>5. QED
    BY <2>4
<1>7. CASE S \cap R # {}
  <2> DEFINE T == S \cap R
  <2>1. PICK b \in T : \A x \in T : Block[x] <= Block[b]
    <3>1. IsFiniteSet(T) /\ \A x \in T : Block[x] \in Nat
      BY <1>3, FS_Subset
    <3>2. QED
      BY <1>7, <3>1, Greatest
  <2> DEFINE U == {x \in T : Block[x] = Block[b]}
  <2>2. PICK u \in U : \A x \in U : Pos[x] <= Pos[u]
    <3>1. IsFiniteSet(U) /\ U # {} /\ \A x \in U : Pos[x] \in Nat
      BY <1>3, FS_Subset
    <3>2. QED
      BY <3>1, Greatest
  <2>3. u \in S /\ state[u] # None /\ Block[u] = Block[b]
    OBVIOUS
  <2>4. PICK v \in S : /\ <<u, v>> \in DOMAIN edges /\ edges[<<u, v>>] # "call"
                        /\ Direction(u, v) # "BACKWARD"
    BY <1>1, <2>3
  <2>5. /\ state[v] # None /\ Block[u] <= Block[v]
        /\ AddressOf[v] # None => Block[u] # Block[v]
        /\ AddressOf[v] = None => Pos[u] < Pos[v]
    BY <1>5, <2>3, <2>4
  <2>6. v \in T /\ Block[v] <= Block[b] /\ Block[u] \in Nat /\ Block[v] \in Nat
    BY <1>3, <2>1, <2>3, <2>5
  <2>7. Block[v] = Block[u]
    BY <2>3, <2>5, <2>6
  <2>8. Pos[v] <= Pos[u] /\ Pos[u] \in Nat /\ Pos[v] \in Nat
    BY <1>3, <2>2, <2>3, <2>6, <2>7
  <2>9. QED
    BY <2>5, <2>7, <2>8
<1>8. QED
  BY <1>6, <1>7

-----------------------------------------------------------------------------

\* The nodes of a jd_manager's graph, and what its engine has to visit, are what they
\* should be, while edges are committed and questions are asked in any order.
THEOREM JumpTyped == Spec => []TypeOK
<1>1. Init => JumpInv
  BY InitInv
<1>2. JumpInv /\ [Next]_vars => JumpInv'
  BY NextInv
<1>3. JumpInv => TypeOK
  BY DEF JumpInv
<1>4. QED
  BY <1>1, <1>2, <1>3, PTL DEF Spec

\* machine_address_of and address_of: a node is said to be at the address of its block
\* and at no other, and every node behind an address has one when somebody asks.
THEOREM AddressesExact == Spec => []AddressExact
<1>1. Init => JumpInv
  BY InitInv
<1>2. JumpInv /\ [Next]_vars => JumpInv'
  BY NextInv
<1>3. JumpInv => AddressExact
  BY InvExact
<1>4. QED
  BY <1>1, <1>2, <1>3, PTL DEF Spec

\* jump_direction: the jumps said to go backwards cut every loop, so that an analysis
\* that widens along them widens in every loop of every graph.
THEOREM EveryLoopCut == Spec => []LoopsCut
<1>1. Init => JumpInv
  BY InitInv
<1>2. JumpInv /\ [Next]_vars => JumpInv'
  BY NextInv
<1>3. JumpInv => LoopsCut
  BY InvCuts
<1>4. QED
  BY <1>1, <1>2, <1>3, PTL DEF Spec
=============================================================================
