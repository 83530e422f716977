-------------------------- MODULE AlsStateProofs ---------------------------
(***************************************************************************)
(* Proofs about the alias domain, for any number of variables, symbolic    *)
(* pointers and values, any expressions, conditions and renamings, and any *)
(* states to merge with: a state is well-formed, the way back of the       *)
(* inverse_set_map is the inverse of the way there, and a variable that is *)
(* not in the map has no offset.                                           *)
(*                                                                         *)
(* Every operation is a composition of put and erase, most of them in a    *)
(* loop over variables or pairs of names.  Each loop is a fold, and what   *)
(* a step of it keeps the fold keeps.                                      *)
(***************************************************************************)
EXTENDS AlsState, FiniteSetTheorems, WellFoundedInduction, TLAPS

\* The maps that are their own inverse.
OkMap == {m \in InverseSetMap : Inverted(m)}

\* Those with these variables.
OkMapOf(D) == {m \in OkMap : DOMAIN m.fwd = D}

\* The inductive invariant.
IInv == TypeOK /\ WayBack

-----------------------------------------------------------------------------
(* Folds *)

\* A set of numbers that has 0 and each successor has every number.
LEMMA EveryNumber ==
  ASSUME NEW S, 0 \in S, \A k \in Nat : k \in S => k + 1 \in S
  PROVE  Nat \subseteq S
<1> DEFINE T == Nat \ S
<1>1. SUFFICES ASSUME T # {} PROVE FALSE
  OBVIOUS
<1>2. PICK m \in T : \A n \in T : ~(<<n, m>> \in OpToRel(<, Nat))
  <2>1. T \subseteq Nat
    OBVIOUS
  <2> HIDE DEF T
  <2>2. QED
    BY <1>1, <2>1, NatLessThanWellFounded, WFMin, Zenon
<1>3. m \in Nat /\ m # 0
  BY <1>2
<1>4. m - 1 \in Nat /\ m - 1 < m /\ (m - 1) + 1 = m
  BY <1>3
<1>5. m - 1 \notin T
  BY <1>2, <1>3, <1>4, Zenon DEF OpToRel
<1>6. m \in S
  BY <1>3, <1>4, <1>5
<1>7. QED
  BY <1>2, <1>6

\* How a set is worked off: an element of each set that is not empty.
Picks(pick, S) == \A s \in (SUBSET S) \ {{}} : pick[s] \in s

\* F is the fold over the subsets of S.
IsFold(F, S, pick, base, Op) ==
  F = [s \in SUBSET S |-> IF s = {} THEN base ELSE Op[<<pick[s], F[s \ {pick[s]}]>>]]

\* What the empty set has and every step keeps, all sets have.
LEMMA FoldStays ==
  ASSUME NEW S, IsFiniteSet(S), NEW pick, Picks(pick, S), NEW G, NEW Fam,
         G[{}] \in Fam[{}],
         \A s \in (SUBSET S) \ {{}} : G[s \ {pick[s]}] \in Fam[s \ {pick[s]}] => G[s] \in Fam[s]
  PROVE  \A s \in SUBSET S : G[s] \in Fam[s]
<1> DEFINE Ns == {n \in Nat : \A s \in SUBSET S : Cardinality(s) = n => G[s] \in Fam[s]}
<1>1. \A s \in SUBSET S : IsFiniteSet(s) /\ Cardinality(s) \in Nat
  BY FS_Subset, FS_CardinalityType
<1>2. 0 \in Ns
  BY <1>1, FS_EmptySet
<1>3. ASSUME NEW k \in Nat, k \in Ns PROVE k + 1 \in Ns
  <2>1. SUFFICES ASSUME NEW s \in SUBSET S, Cardinality(s) = k + 1 PROVE G[s] \in Fam[s]
    OBVIOUS
  <2>2. s # {}
    BY <1>1, <2>1, FS_EmptySet
  <2>3. pick[s] \in s
    BY <2>2 DEF Picks
  <2>4. Cardinality(s \ {pick[s]}) = k /\ s \ {pick[s]} \in SUBSET S
    <3>1. Cardinality(s \ {pick[s]}) = Cardinality(s) - 1
      BY <1>1, <2>3, FS_RemoveElement
    <3>2. QED
      BY <2>1, <3>1
  <2>5. G[s \ {pick[s]}] \in Fam[s \ {pick[s]}]
    BY <1>3, <2>4
  <2>6. QED
    BY <2>2, <2>5
<1>4. Nat \subseteq Ns
  <2> HIDE DEF Ns
  <2> QED BY <1>2, <1>3, EveryNumber
<1>5. QED
  BY <1>1, <1>4

\* The equation of a fold has a solution.
LEMMA FoldExists ==
  ASSUME NEW S, IsFiniteSet(S), NEW pick, Picks(pick, S), NEW base, NEW Op
  PROVE  \E F : IsFold(F, S, pick, base, Op)
<1> DEFINE Body(F, s) == IF s = {} THEN base ELSE Op[<<pick[s], F[s \ {pick[s]}]>>]
           Upto(F, n) == /\ F = [s \in SUBSET S |-> F[s]]
                         /\ \A s \in SUBSET S : Cardinality(s) <= n => F[s] = Body(F, s)
           Ns == {n \in Nat : \E F : Upto(F, n)}
<1>1. \A s \in SUBSET S : IsFiniteSet(s) /\ Cardinality(s) \in Nat /\ Cardinality(s) <= Cardinality(S)
  BY FS_Subset, FS_CardinalityType
<1>2. \A s \in SUBSET S : s # {} => pick[s] \in s /\ Cardinality(s \ {pick[s]}) = Cardinality(s) - 1
  <2>1. ASSUME NEW s \in SUBSET S, s # {}
        PROVE pick[s] \in s /\ Cardinality(s \ {pick[s]}) = Cardinality(s) - 1
    <3>1. pick[s] \in s
      BY <2>1 DEF Picks
    <3>2. IsFiniteSet(s)
      BY <1>1
    <3>3. QED
      BY <3>1, <3>2, FS_RemoveElement
  <2>2. QED
    BY <2>1
<1>3. 0 \in Ns
  <2> DEFINE F == [s \in SUBSET S |-> base]
  <2>1. F = [s \in SUBSET S |-> F[s]]
    OBVIOUS
  <2>2. ASSUME NEW s \in SUBSET S, Cardinality(s) <= 0 PROVE F[s] = Body(F, s)
    <3>1. s = {}
      BY <1>1, <2>2, FS_EmptySet
    <3>2. QED
      BY <3>1
  <2>3. Upto(F, 0)
    <3> HIDE DEF F, Body
    <3> QED BY <2>1, <2>2
  <2> HIDE DEF Upto, F
  <2>4. QED
    BY <2>3
<1>4. ASSUME NEW k \in Nat, k \in Ns PROVE k + 1 \in Ns
  <2>1. PICK F : Upto(F, k)
    BY <1>4
  <2> DEFINE G == [s \in SUBSET S |-> IF Cardinality(s) <= k THEN F[s] ELSE Body(F, s)]
  <2>2. G = [s \in SUBSET S |-> G[s]]
    OBVIOUS
  <2>3. ASSUME NEW s \in SUBSET S, Cardinality(s) <= k + 1 PROVE G[s] = Body(G, s)
    <3>1. G[s] = Body(F, s)
      BY <2>1
    <3>2. CASE s = {}
      BY <3>1, <3>2
    <3>3. CASE s # {}
      <4>1. s \ {pick[s]} \in SUBSET S /\ Cardinality(s \ {pick[s]}) <= k
        BY <1>1, <1>2, <2>3, <3>3
      <4>2. G[s \ {pick[s]}] = F[s \ {pick[s]}]
        BY <4>1
      <4> HIDE DEF G
      <4>3. QED
        BY <3>1, <3>3, <4>2
    <3>4. QED
      BY <3>2, <3>3
  <2>4. Upto(G, k + 1)
    <3> HIDE DEF G, Body
    <3> QED BY <2>2, <2>3
  <2>5. \E E : Upto(E, k + 1)
    <3> HIDE DEF Upto, G
    <3> QED BY <2>4, Zenon
  <2> HIDE DEF Upto
  <2>6. QED
    BY <2>5
<1>5. Cardinality(S) \in Ns
  <2>1. Nat \subseteq Ns
    <3> HIDE DEF Ns
    <3> QED BY <1>3, <1>4, EveryNumber
  <2>2. QED
    BY <1>1, <2>1
<1>6. PICK F : Upto(F, Cardinality(S))
  BY <1>5
<1>7. F = [s \in SUBSET S |-> Body(F, s)]
  <2> HIDE DEF Body
  <2>1. \A s \in SUBSET S : F[s] = Body(F, s)
    BY <1>1, <1>6
  <2>2. QED
    BY <1>6, <2>1
<1>8. QED
  BY <1>7, Zenon DEF IsFold

\* It stays in a set that is closed under the operation.
LEMMA FoldIn ==
  ASSUME NEW S, IsFiniteSet(S), NEW pick, Picks(pick, S), NEW M, NEW base \in M,
         NEW Op, \A x \in S, m \in M : Op[<<x, m>>] \in M
  PROVE  \E F : IsFold(F, S, pick, base, Op) /\ \A s \in SUBSET S : F[s] \in M
<1>1. PICK F : IsFold(F, S, pick, base, Op)
  BY FoldExists
<1> DEFINE Fam == [s \in SUBSET S |-> M]
<1>2. \A s \in SUBSET S : F[s] = IF s = {} THEN base ELSE Op[<<pick[s], F[s \ {pick[s]}]>>]
  BY <1>1 DEF IsFold
<1>3. \A s \in SUBSET S : F[s] \in Fam[s]
  <2>1. F[{}] \in Fam[{}]
    BY <1>2
  <2>2. ASSUME NEW s \in (SUBSET S) \ {{}}, F[s \ {pick[s]}] \in Fam[s \ {pick[s]}] PROVE F[s] \in Fam[s]
    <3>1. pick[s] \in S /\ F[s \ {pick[s]}] \in M
      BY <2>2 DEF Picks
    <3>2. QED
      BY <1>2, <3>1
  <2> HIDE DEF Fam
  <2>3. QED
    BY <2>1, <2>2, FoldStays
<1>4. \A s \in SUBSET S : F[s] \in M
  BY <1>3
<1>5. QED
  BY <1>1, <1>4

\* The fold over S itself.
LEMMA FoldEnds ==
  ASSUME NEW S, IsFiniteSet(S), NEW pick, Picks(pick, S), NEW G, NEW M, G[{}] \in M,
         \A s \in (SUBSET S) \ {{}} : G[s \ {pick[s]}] \in M => G[s] \in M
  PROVE  G[S] \in M
<1> DEFINE Fam == [s \in SUBSET S |-> M]
<1>1. G[{}] \in Fam[{}]
  OBVIOUS
<1>2. ASSUME NEW s \in (SUBSET S) \ {{}}, G[s \ {pick[s]}] \in Fam[s \ {pick[s]}] PROVE G[s] \in Fam[s]
  BY <1>2
<1>3. \A s \in SUBSET S : G[s] \in Fam[s]
  <2> HIDE DEF Fam
  <2> QED BY <1>1, <1>2, FoldStays
<1>4. QED
  BY <1>3

-----------------------------------------------------------------------------
(* The maps *)

LEMMA MapMade ==
  ASSUME NEW D \in SUBSET Var, NEW f \in [D -> (SUBSET AliasId) \ {{}}], NEW g \in [AliasId -> SUBSET Var]
  PROVE  [fwd |-> f, back |-> g] \in InverseSetMap
<1>1. f \in UNION {[E -> (SUBSET AliasId) \ {{}}] : E \in SUBSET Var}
  OBVIOUS
<1>2. QED
  BY <1>1 DEF InverseSetMap

LEMMA MapIs ==
  ASSUME NEW m \in InverseSetMap
  PROVE  /\ DOMAIN m.fwd \in SUBSET Var /\ m.fwd \in [DOMAIN m.fwd -> (SUBSET AliasId) \ {{}}]
         /\ m.back \in [AliasId -> SUBSET Var]
<1>1. m.fwd \in UNION {[E -> (SUBSET AliasId) \ {{}}] : E \in SUBSET Var} /\ m.back \in [AliasId -> SUBSET Var]
  BY DEF InverseSetMap
<1>2. PICK E \in SUBSET Var : m.fwd \in [E -> (SUBSET AliasId) \ {{}}]
  BY <1>1
<1>3. QED
  BY <1>1, <1>2

LEMMA EmptyOk == NoElements \in OkMapOf({})
<1> DEFINE f == <<>>
           g == [id \in AliasId |-> {}]
<1>1. {} \in SUBSET Var /\ f \in [{} -> (SUBSET AliasId) \ {{}}] /\ g \in [AliasId -> SUBSET Var]
  OBVIOUS
<1>2. [fwd |-> f, back |-> g] \in InverseSetMap
  <2> HIDE DEF f, g
  <2> QED BY <1>1, MapMade
<1>3. NoElements.fwd = f /\ NoElements.back = g /\ DOMAIN f = {}
  BY DEF NoElements
<1>4. NoElements \in InverseSetMap
  BY <1>2 DEF NoElements
<1>5. Inverted(NoElements)
  BY <1>3 DEF Inverted
<1>6. QED
  BY <1>3, <1>4, <1>5 DEF OkMapOf, OkMap

\* put keeps the two ways together.
LEMMA PutOk ==
  ASSUME NEW m \in OkMap, NEW v \in Var, NEW ids \in (SUBSET AliasId) \ {{}}
  PROVE  /\ Put(m, v, ids) \in OkMapOf(DOMAIN m.fwd \cup {v}) /\ Put(m, v, ids).fwd[v] = ids
         /\ \A w \in DOMAIN m.fwd \ {v} : Put(m, v, ids).fwd[w] = m.fwd[w]
<1> DEFINE D == DOMAIN m.fwd
           f == [w \in DOMAIN m.fwd \cup {v} |-> IF w = v THEN ids ELSE m.fwd[w]]
           g == [id \in AliasId |-> IF id \in ids THEN m.back[id] \cup {v} ELSE m.back[id] \ {v}]
<1>1. D \in SUBSET Var /\ m.fwd \in [D -> (SUBSET AliasId) \ {{}}] /\ m.back \in [AliasId -> SUBSET Var]
  BY MapIs DEF OkMap
<1>2. \A id \in AliasId : m.back[id] = {w \in D : id \in m.fwd[w]}
  BY DEF OkMap, Inverted
<1>3. /\ DOMAIN f = D \cup {v}
      /\ f[v] = ids /\ \A w \in D \ {v} : f[w] = m.fwd[w]
      /\ f \in [D \cup {v} -> (SUBSET AliasId) \ {{}}] /\ D \cup {v} \in SUBSET Var
  <2>1. f = [w \in D \cup {v} |-> IF w = v THEN ids ELSE m.fwd[w]]
    OBVIOUS
  <2> HIDE DEF f, D
  <2>2. QED
    BY <1>1, <2>1
<1>4. g \in [AliasId -> SUBSET Var]
  BY <1>1
<1>5. ASSUME NEW id \in AliasId PROVE g[id] = {w \in DOMAIN f : id \in f[w]}
  <2>1. g[id] = IF id \in ids THEN m.back[id] \cup {v} ELSE m.back[id] \ {v}
    OBVIOUS
  <2> HIDE DEF f, g
  <2>2. QED
    BY <1>2, <1>3, <2>1
<1>6. Put(m, v, ids) = [fwd |-> f, back |-> g]
  BY DEF Put
<1>7. Put(m, v, ids).fwd = f /\ Put(m, v, ids).back = g
  BY <1>6
<1> HIDE DEF f, g, D
<1>8. Put(m, v, ids) \in InverseSetMap
  <2>1. [fwd |-> f, back |-> g] \in InverseSetMap
    BY <1>3, <1>4, MapMade
  <2>2. QED
    BY <1>6, <2>1
<1>9. Inverted(Put(m, v, ids))
  BY <1>5, <1>7 DEF Inverted
<1>10. QED
  BY <1>3, <1>7, <1>8, <1>9 DEF OkMapOf, OkMap, D

\* So does erase.
LEMMA ErasedOk ==
  ASSUME NEW m \in OkMap, NEW v
  PROVE  /\ Erased(m, v) \in OkMapOf(DOMAIN m.fwd \ {v})
         /\ \A w \in DOMAIN m.fwd \ {v} : Erased(m, v).fwd[w] = m.fwd[w]
<1> DEFINE D == DOMAIN m.fwd
           f == [w \in D \ {v} |-> m.fwd[w]]
           g == [id \in AliasId |-> m.back[id] \ {v}]
<1>1. D \in SUBSET Var /\ m.fwd \in [D -> (SUBSET AliasId) \ {{}}] /\ m.back \in [AliasId -> SUBSET Var]
  BY MapIs DEF OkMap
<1>2. \A id \in AliasId : m.back[id] = {w \in D : id \in m.fwd[w]}
  BY DEF OkMap, Inverted
<1>3. f \in [D \ {v} -> (SUBSET AliasId) \ {{}}] /\ g \in [AliasId -> SUBSET Var] /\ D \ {v} \in SUBSET Var
  BY <1>1
<1>4. ASSUME NEW id \in AliasId PROVE g[id] = {w \in DOMAIN f : id \in f[w]}
  BY <1>2
<1>5. Erased(m, v) = [fwd |-> f, back |-> g]
  BY DEF Erased
<1>6. /\ Erased(m, v).fwd = f /\ Erased(m, v).back = g /\ DOMAIN f = D \ {v}
      /\ \A w \in D \ {v} : f[w] = m.fwd[w]
  BY <1>5
<1> HIDE DEF f, g
<1>7. Erased(m, v) \in InverseSetMap
  BY <1>3, <1>5, MapMade
<1>8. Inverted(Erased(m, v))
  BY <1>4, <1>6 DEF Inverted
<1>9. QED
  BY <1>6, <1>7, <1>8 DEF OkMapOf, OkMap

-----------------------------------------------------------------------------
(* Loops over variables and pointers *)

\* The element a fold over a set begins with.
LEMMA AnyPicks == ASSUME NEW S PROVE Picks([s \in SUBSET S |-> CHOOSE x \in s : TRUE], S)
<1> DEFINE pick == [s \in SUBSET S |-> CHOOSE x \in s : TRUE]
<1>1. ASSUME NEW s \in (SUBSET S) \ {{}} PROVE pick[s] \in s
  BY <1>1
<1> HIDE DEF pick
<1>2. QED
  BY <1>1 DEF Picks

LEMMA ErasedAllOk ==
  ASSUME NEW m \in OkMap, NEW S, IsFiniteSet(S)
  PROVE  /\ ErasedAll(m, S) \in OkMapOf(DOMAIN m.fwd \ S)
         /\ \A w \in DOMAIN m.fwd \ S : ErasedAll(m, S).fwd[w] = m.fwd[w]
<1> DEFINE pick == [s \in SUBSET S |-> CHOOSE x \in s : TRUE]
           Op == [a \in S \X OkMap |-> Erased(a[2], a[1])]
           iter == CHOOSE F : F = [s \in SUBSET S |-> IF s = {} THEN m
                                                       ELSE Erased(F[s \ {CHOOSE x \in s : TRUE}], CHOOSE x \in s : TRUE)]
           Rest(s) == DOMAIN m.fwd \ s
           Fam == [s \in SUBSET S |-> {e \in OkMapOf(Rest(s)) : \A w \in Rest(s) : e.fwd[w] = m.fwd[w]}]
<1>1. Picks(pick, S)
  BY AnyPicks
<1>2. \A x \in S, e \in OkMap : Op[<<x, e>>] = Erased(e, x)
  OBVIOUS
<1>3. PICK F : IsFold(F, S, pick, m, Op) /\ \A s \in SUBSET S : F[s] \in OkMap
  <2>1. \A x \in S, e \in OkMap : Op[<<x, e>>] \in OkMap
    BY <1>2, ErasedOk DEF OkMapOf
  <2> HIDE DEF pick, Op
  <2>2. QED
    BY <1>1, <2>1, FoldIn
<1>4. F = [s \in SUBSET S |-> IF s = {} THEN m
                              ELSE Erased(F[s \ {CHOOSE x \in s : TRUE}], CHOOSE x \in s : TRUE)]
  <2>1. F = [s \in SUBSET S |-> IF s = {} THEN m ELSE Op[<<pick[s], F[s \ {pick[s]}]>>]]
    BY <1>3 DEF IsFold
  <2>2. ASSUME NEW s \in SUBSET S, s # {}
        PROVE Op[<<pick[s], F[s \ {pick[s]}]>>] = Erased(F[s \ {CHOOSE x \in s : TRUE}], CHOOSE x \in s : TRUE)
    <3>1. pick[s] = (CHOOSE x \in s : TRUE) /\ pick[s] \in S
      BY <2>2
    <3>2. F[s \ {pick[s]}] \in OkMap
      BY <1>3
    <3> HIDE DEF Op, pick
    <3>3. QED
      BY <1>2, <3>1, <3>2
  <2> HIDE DEF Op, pick
  <2>3. QED
    BY <2>1, <2>2
<1>5. iter = [s \in SUBSET S |-> IF s = {} THEN m
                                 ELSE Erased(iter[s \ {CHOOSE x \in s : TRUE}], CHOOSE x \in s : TRUE)]
  BY <1>4, Zenon
<1>6. ErasedAll(m, S) = iter[S]
  BY Zenon DEF ErasedAll, FoldSet, MapThenFoldSet
<1> HIDE DEF iter
<1>7. \A s \in SUBSET S : iter[s] \in Fam[s]
  <2>1. iter[{}] \in Fam[{}]
    <3>1. iter[{}] = m
      BY <1>5
    <3>2. m \in OkMapOf(Rest({}))
      BY DEF OkMapOf
    <3>3. QED
      BY <3>1, <3>2
  <2>2. ASSUME NEW s \in (SUBSET S) \ {{}}, iter[s \ {pick[s]}] \in Fam[s \ {pick[s]}]
        PROVE iter[s] \in Fam[s]
    <3> DEFINE x == pick[s]
               e == iter[s \ {x}]
    <3>1. iter[s] = Erased(e, x)
      BY <1>5
    <3>2. x \in s
      BY <1>1 DEF Picks
    <3>3. e \in OkMapOf(Rest(s \ {x})) /\ \A w \in Rest(s \ {x}) : e.fwd[w] = m.fwd[w]
      <4> HIDE DEF pick
      <4> QED BY <2>2
    <3>4. Rest(s \ {x}) \ {x} = Rest(s)
      BY <3>2
    <3> HIDE DEF e, x, Rest
    <3>5. e \in OkMap /\ DOMAIN e.fwd = Rest(s \ {x})
      BY <3>3 DEF OkMapOf
    <3>6. Erased(e, x) \in OkMapOf(Rest(s)) /\ \A w \in Rest(s) : Erased(e, x).fwd[w] = e.fwd[w]
      BY <3>4, <3>5, ErasedOk
    <3>7. \A w \in Rest(s) : Erased(e, x).fwd[w] = m.fwd[w]
      BY <3>3, <3>4, <3>6
    <3>8. QED
      BY <3>1, <3>6, <3>7
  <2> HIDE DEF Fam, pick
  <2>3. QED
    BY <1>1, <2>1, <2>2, FoldStays
<1>8. iter[S] \in OkMapOf(Rest(S)) /\ \A w \in Rest(S) : iter[S].fwd[w] = m.fwd[w]
  <2> HIDE DEF Rest
  <2> QED BY <1>7
<1>9. QED
  BY <1>6, <1>8

\* An alias is replaced wherever it occurs.
Exchanged(ids, old, new) == IF old \in ids THEN (ids \ {old}) \cup {new} ELSE ids

LEMMA ReplacedOk ==
  ASSUME NEW D, NEW m \in OkMapOf(D), NEW old \in AliasId, NEW new \in AliasId
  PROVE  /\ Replaced(m, old, new) \in OkMapOf(D)
         /\ \A v \in D : Replaced(m, old, new).fwd[v]
                           = Exchanged(m.fwd[v], old, new)
<1> DEFINE S == m.back[old]
           M == OkMapOf(D)
           step(e, x) == Put(e, x, (e.fwd[x] \ {old}) \cup {new})
           pick == [s \in SUBSET S |-> CHOOSE x \in s : TRUE]
           Op == [z \in S \X M |-> step(z[2], z[1])]
           Body(F, s) == IF s = {} THEN m ELSE step(F[s \ {CHOOSE x \in s : TRUE}], CHOOSE x \in s : TRUE)
           iter == CHOOSE F : F = [s \in SUBSET S |-> Body(F, s)]
<1>1. IsFiniteSet(S)
  <2>1. S \in SUBSET Var
    BY MapIs DEF OkMapOf, OkMap
  <2>2. QED
    BY <2>1, AlsAssumption, FS_Subset DEF AlsAssumption
<1>2. Picks(pick, S)
  BY AnyPicks
<1>3. ASSUME NEW x \in S, NEW e \in M
      PROVE /\ step(e, x) \in M
            /\ \A v \in D : step(e, x).fwd[v] = IF v = x THEN (e.fwd[v] \ {old}) \cup {new} ELSE e.fwd[v]
  <2>1. S = {v \in D : old \in m.fwd[v]}
    BY DEF OkMapOf, OkMap, Inverted
  <2>2. e \in OkMap /\ DOMAIN e.fwd = D /\ x \in D
    BY <2>1 DEF OkMapOf
  <2>3. x \in Var /\ e.fwd[x] \in SUBSET AliasId
    BY <2>2, MapIs DEF OkMap
  <2>4. /\ step(e, x) \in OkMapOf(DOMAIN e.fwd \cup {x})
        /\ step(e, x).fwd[x] = (e.fwd[x] \ {old}) \cup {new}
        /\ \A v \in DOMAIN e.fwd \ {x} : step(e, x).fwd[v] = e.fwd[v]
    BY <2>2, <2>3, PutOk
  <2>5. DOMAIN e.fwd \cup {x} = D
    BY <2>2
  <2> HIDE DEF step
  <2>6. QED
    BY <2>2, <2>4, <2>5
<1>4. \A x \in S, e \in M : Op[<<x, e>>] = step(e, x)
  <2> HIDE DEF step, S, M
  <2> QED OBVIOUS
<1>5. m \in M
  OBVIOUS
<1>6. PICK F : IsFold(F, S, pick, m, Op) /\ \A s \in SUBSET S : F[s] \in M
  <2>1. \A x \in S, e \in M : Op[<<x, e>>] \in M
    BY <1>3, <1>4
  <2> HIDE DEF pick, Op, S, M
  <2>2. QED
    BY <1>1, <1>2, <1>5, <2>1, FoldIn
<1>7. F = [s \in SUBSET S |-> Body(F, s)]
  <2>1. F = [s \in SUBSET S |-> IF s = {} THEN m ELSE Op[<<pick[s], F[s \ {pick[s]}]>>]]
    BY <1>6 DEF IsFold
  <2>2. ASSUME NEW s \in SUBSET S, s # {} PROVE Op[<<pick[s], F[s \ {pick[s]}]>>] = Body(F, s)
    <3>1. pick[s] = (CHOOSE x \in s : TRUE) /\ pick[s] \in S
      BY <1>2, <2>2 DEF Picks
    <3>2. F[s \ {pick[s]}] \in M
      BY <1>6
    <3> HIDE DEF Op, pick, step, S, M
    <3>3. QED
      BY <1>4, <2>2, <3>1, <3>2
  <2> HIDE DEF Op, pick, step, S, M
  <2>3. QED
    BY <2>1, <2>2
<1>8. iter = [s \in SUBSET S |-> Body(iter, s)]
  <2> HIDE DEF Body
  <2> QED BY <1>7, Zenon
<1>9. Replaced(m, old, new) = iter[S]
  BY Zenon DEF Replaced, FoldSet, MapThenFoldSet
<1> DEFINE Fam == [s \in SUBSET S |-> {e \in M : \A v \in D : e.fwd[v] = IF v \in s THEN (m.fwd[v] \ {old}) \cup {new} ELSE m.fwd[v]}]
<1>10. iter[S] \in Fam[S]
  <2>1. iter[{}] \in Fam[{}]
    <3>1. iter[{}] = m /\ {} \in SUBSET S
      <4> HIDE DEF iter, step, S, M
      <4> QED BY <1>8
    <3> HIDE DEF iter
    <3>2. QED
      BY <1>5, <3>1
  <2>2. ASSUME NEW s \in (SUBSET S) \ {{}}, iter[s \ {pick[s]}] \in Fam[s \ {pick[s]}] PROVE iter[s] \in Fam[s]
    <3> DEFINE x == pick[s]
               e == iter[s \ {x}]
    <3>1. iter[s] = step(e, x) /\ x \in s /\ x \in S
      <4>1. iter[s] = step(iter[s \ {pick[s]}], pick[s])
        <5> HIDE DEF iter, step, S, M
        <5> QED BY <1>8
      <4>2. pick[s] \in s
        BY <1>2 DEF Picks
      <4> HIDE DEF iter, step, S, M, pick
      <4>3. QED
        BY <4>1, <4>2
    <3>2. e \in M /\ \A v \in D : e.fwd[v] = IF v \in s \ {x} THEN (m.fwd[v] \ {old}) \cup {new} ELSE m.fwd[v]
      <4> HIDE DEF iter, pick
      <4> QED BY <2>2
    <3> HIDE DEF x, e, iter, pick
    <3>3. step(e, x) \in M /\ \A v \in D : step(e, x).fwd[v] = IF v = x THEN (e.fwd[v] \ {old}) \cup {new} ELSE e.fwd[v]
      <4> HIDE DEF step, S, M
      <4> QED BY <1>3, <3>1, <3>2
    <3> HIDE DEF step, M
    <3>4. \A v \in D : step(e, x).fwd[v] = IF v \in s THEN (m.fwd[v] \ {old}) \cup {new} ELSE m.fwd[v]
      BY <3>1, <3>2, <3>3
    <3>5. QED
      BY <3>1, <3>3, <3>4
  <2> HIDE DEF pick, Fam, iter, step, S, M
  <2>3. \A s \in SUBSET S : iter[s] \in Fam[s]
    BY <1>1, <1>2, <2>1, <2>2, FoldStays
  <2>4. QED
    BY <2>3
<1>11. S = {v \in D : old \in m.fwd[v]}
  BY DEF OkMapOf, OkMap, Inverted
<1>12. QED
  <2>1. iter[S] \in M /\ \A v \in D : iter[S].fwd[v] = IF v \in S THEN (m.fwd[v] \ {old}) \cup {new} ELSE m.fwd[v]
    <3> HIDE DEF iter, step, S, M
    <3> QED BY <1>10
  <2> HIDE DEF iter, step, S
  <2>2. QED
    BY <1>9, <1>11, <2>1 DEF Exchanged

\* Pointers that are killed become bad ones.
LEMMA AllBadOk ==
  ASSUME NEW D, NEW m \in OkMapOf(D), NEW ids, ids \subseteq Ptr
  PROVE  /\ AllBad(m, ids) \in OkMapOf(D)
         /\ \A v \in D : \A id \in m.fwd[v] : (IF id \in ids THEN "bad" ELSE id) \in AllBad(m, ids).fwd[v]
<1> DEFINE S == ids
           M == OkMapOf(D)
           step(e, x) == Replaced(e, x, "bad")
           pick == [s \in SUBSET S |-> CHOOSE x \in s : TRUE]
           Op == [z \in S \X M |-> step(z[2], z[1])]
           Body(F, s) == IF s = {} THEN m ELSE step(F[s \ {CHOOSE x \in s : TRUE}], CHOOSE x \in s : TRUE)
           iter == CHOOSE F : F = [s \in SUBSET S |-> Body(F, s)]
<1>1. IsFiniteSet(S)
  BY AlsAssumption, FS_Subset DEF AlsAssumption
<1>2. Picks(pick, S)
  BY AnyPicks
<1>3. ASSUME NEW x \in S, NEW e \in M
      PROVE /\ step(e, x) \in M /\ x # "bad"
            /\ \A v \in D : step(e, x).fwd[v] = Exchanged(e.fwd[v], x, "bad")
  <2>1. x \in AliasId /\ "bad" \in AliasId /\ x # "bad"
    BY AlsAssumption DEF AliasId, AlsAssumption
  <2>2. e \in OkMapOf(D)
    OBVIOUS
  <2> HIDE DEF M
  <2>3. /\ Replaced(e, x, "bad") \in OkMapOf(D)
        /\ \A v \in D : Replaced(e, x, "bad").fwd[v] = Exchanged(e.fwd[v], x, "bad")
    BY <2>1, <2>2, ReplacedOk
  <2>4. QED
    BY <2>1, <2>3 DEF M
<1>4. \A x \in S, e \in M : Op[<<x, e>>] = step(e, x)
  <2> HIDE DEF step, S, M
  <2> QED OBVIOUS
<1>5. m \in M
  OBVIOUS
<1>6. PICK F : IsFold(F, S, pick, m, Op) /\ \A s \in SUBSET S : F[s] \in M
  <2>1. \A x \in S, e \in M : Op[<<x, e>>] \in M
    BY <1>3, <1>4
  <2> HIDE DEF pick, Op, S, M
  <2>2. QED
    BY <1>1, <1>2, <1>5, <2>1, FoldIn
<1>7. F = [s \in SUBSET S |-> Body(F, s)]
  <2>1. F = [s \in SUBSET S |-> IF s = {} THEN m ELSE Op[<<pick[s], F[s \ {pick[s]}]>>]]
    BY <1>6 DEF IsFold
  <2>2. ASSUME NEW s \in SUBSET S, s # {} PROVE Op[<<pick[s], F[s \ {pick[s]}]>>] = Body(F, s)
    <3>1. pick[s] = (CHOOSE x \in s : TRUE) /\ pick[s] \in S
      BY <1>2, <2>2 DEF Picks
    <3>2. F[s \ {pick[s]}] \in M
      BY <1>6
    <3> HIDE DEF Op, pick, step, S, M
    <3>3. QED
      BY <1>4, <2>2, <3>1, <3>2
  <2> HIDE DEF Op, pick, step, S, M
  <2>3. QED
    BY <2>1, <2>2
<1>8. iter = [s \in SUBSET S |-> Body(iter, s)]
  <2> HIDE DEF Body
  <2> QED BY <1>7, Zenon
<1>9. AllBad(m, ids) = iter[S]
  BY Zenon DEF AllBad, FoldSet, MapThenFoldSet
<1> DEFINE Fam == [s \in SUBSET S |-> {e \in M : \A v \in D : \A id \in m.fwd[v] : (IF id \in s THEN "bad" ELSE id) \in e.fwd[v]}]
<1>10. iter[S] \in Fam[S]
  <2>1. iter[{}] \in Fam[{}]
    <3>1. iter[{}] = m /\ {} \in SUBSET S
      <4> HIDE DEF iter, step, S, M
      <4> QED BY <1>8
    <3> HIDE DEF iter
    <3>2. QED
      BY <1>5, <3>1
  <2>2. ASSUME NEW s \in (SUBSET S) \ {{}}, iter[s \ {pick[s]}] \in Fam[s \ {pick[s]}] PROVE iter[s] \in Fam[s]
    <3> DEFINE x == pick[s]
               e == iter[s \ {x}]
    <3>1. iter[s] = step(e, x) /\ x \in s /\ x \in S
      <4>1. iter[s] = step(iter[s \ {pick[s]}], pick[s])
        <5> HIDE DEF iter, step, S, M
        <5> QED BY <1>8
      <4>2. pick[s] \in s
        BY <1>2 DEF Picks
      <4> HIDE DEF iter, step, S, M, pick
      <4>3. QED
        BY <4>1, <4>2
    <3>2. e \in M /\ \A v \in D : \A id \in m.fwd[v] : (IF id \in s \ {x} THEN "bad" ELSE id) \in e.fwd[v]
      <4> HIDE DEF iter, pick
      <4> QED BY <2>2
    <3> HIDE DEF x, e, iter, pick
    <3>3. step(e, x) \in M /\ x # "bad" /\ \A v \in D : step(e, x).fwd[v] = Exchanged(e.fwd[v], x, "bad")
      <4> HIDE DEF step, S, M
      <4> QED BY <1>3, <3>1, <3>2
    <3> HIDE DEF step, M
    <3>4. \A v \in D : \A id \in m.fwd[v] : (IF id \in s THEN "bad" ELSE id) \in step(e, x).fwd[v]
      BY <3>1, <3>2, <3>3 DEF Exchanged
    <3>5. QED
      BY <3>1, <3>3, <3>4
  <2> HIDE DEF pick, Fam, iter, step, S, M
  <2>3. \A s \in SUBSET S : iter[s] \in Fam[s]
    BY <1>1, <1>2, <2>1, <2>2, FoldStays
  <2>4. QED
    BY <2>3
<1>11. QED
  <2> HIDE DEF iter, step, S, M
  <2> QED BY <1>9, <1>10 DEF S, M

\* Variables become numbers.
LEMMA AllNumbersOk ==
  ASSUME NEW D, NEW m \in OkMapOf(D), NEW ids, ids \subseteq D
  PROVE  /\ AllNumbers(m, ids) \in OkMapOf(D)
         /\ \A v \in D : AllNumbers(m, ids).fwd[v] = IF v \in ids THEN {"null"} ELSE m.fwd[v]
<1> DEFINE S == ids
           M == OkMapOf(D)
           step(e, x) == Put(e, x, {"null"})
           pick == [s \in SUBSET S |-> CHOOSE x \in s : TRUE]
           Op == [z \in S \X M |-> step(z[2], z[1])]
           Body(F, s) == IF s = {} THEN m ELSE step(F[s \ {CHOOSE x \in s : TRUE}], CHOOSE x \in s : TRUE)
           iter == CHOOSE F : F = [s \in SUBSET S |-> Body(F, s)]
<1>1. IsFiniteSet(S)
  <2>1. D \subseteq Var
    BY MapIs DEF OkMapOf, OkMap
  <2>2. QED
    BY <2>1, AlsAssumption, FS_Subset DEF AlsAssumption
<1>2. Picks(pick, S)
  BY AnyPicks
<1>3. ASSUME NEW x \in S, NEW e \in M
      PROVE step(e, x) \in M /\ \A v \in D : step(e, x).fwd[v] = IF v = x THEN {"null"} ELSE e.fwd[v]
  <2>1. {"null"} \in (SUBSET AliasId) \ {{}}
    BY DEF AliasId
  <2>2. e \in OkMap /\ DOMAIN e.fwd = D /\ x \in D
    BY DEF OkMapOf
  <2>3. x \in Var
    BY <2>2, MapIs DEF OkMap
  <2>4. /\ step(e, x) \in OkMapOf(DOMAIN e.fwd \cup {x}) /\ step(e, x).fwd[x] = {"null"}
        /\ \A v \in DOMAIN e.fwd \ {x} : step(e, x).fwd[v] = e.fwd[v]
    BY <2>1, <2>2, <2>3, PutOk
  <2>5. DOMAIN e.fwd \cup {x} = D
    BY <2>2
  <2> HIDE DEF step
  <2>6. QED
    BY <2>2, <2>4, <2>5
<1>4. \A x \in S, e \in M : Op[<<x, e>>] = step(e, x)
  <2> HIDE DEF step, S, M
  <2> QED OBVIOUS
<1>5. m \in M
  OBVIOUS
<1>6. PICK F : IsFold(F, S, pick, m, Op) /\ \A s \in SUBSET S : F[s] \in M
  <2>1. \A x \in S, e \in M : Op[<<x, e>>] \in M
    BY <1>3, <1>4
  <2> HIDE DEF pick, Op, S, M
  <2>2. QED
    BY <1>1, <1>2, <1>5, <2>1, FoldIn
<1>7. F = [s \in SUBSET S |-> Body(F, s)]
  <2>1. F = [s \in SUBSET S |-> IF s = {} THEN m ELSE Op[<<pick[s], F[s \ {pick[s]}]>>]]
    BY <1>6 DEF IsFold
  <2>2. ASSUME NEW s \in SUBSET S, s # {} PROVE Op[<<pick[s], F[s \ {pick[s]}]>>] = Body(F, s)
    <3>1. pick[s] = (CHOOSE x \in s : TRUE) /\ pick[s] \in S
      BY <1>2, <2>2 DEF Picks
    <3>2. F[s \ {pick[s]}] \in M
      BY <1>6
    <3> HIDE DEF Op, pick, step, S, M
    <3>3. QED
      BY <1>4, <2>2, <3>1, <3>2
  <2> HIDE DEF Op, pick, step, S, M
  <2>3. QED
    BY <2>1, <2>2
<1>8. iter = [s \in SUBSET S |-> Body(iter, s)]
  <2> HIDE DEF Body
  <2> QED BY <1>7, Zenon
<1>9. AllNumbers(m, ids) = iter[S]
  BY Zenon DEF AllNumbers, FoldSet, MapThenFoldSet
<1> DEFINE Fam == [s \in SUBSET S |-> {e \in M : \A v \in D : e.fwd[v] = IF v \in s THEN {"null"} ELSE m.fwd[v]}]
<1>10. iter[S] \in Fam[S]
  <2>1. iter[{}] \in Fam[{}]
    <3>1. iter[{}] = m /\ {} \in SUBSET S
      <4> HIDE DEF iter, step, S, M
      <4> QED BY <1>8
    <3> HIDE DEF iter
    <3>2. QED
      BY <1>5, <3>1
  <2>2. ASSUME NEW s \in (SUBSET S) \ {{}}, iter[s \ {pick[s]}] \in Fam[s \ {pick[s]}] PROVE iter[s] \in Fam[s]
    <3> DEFINE x == pick[s]
               e == iter[s \ {x}]
    <3>1. iter[s] = step(e, x) /\ x \in s /\ x \in S
      <4>1. iter[s] = step(iter[s \ {pick[s]}], pick[s])
        <5> HIDE DEF iter, step, S, M
        <5> QED BY <1>8
      <4>2. pick[s] \in s
        BY <1>2 DEF Picks
      <4> HIDE DEF iter, step, S, M, pick
      <4>3. QED
        BY <4>1, <4>2
    <3>2. e \in M /\ \A v \in D : e.fwd[v] = IF v \in s \ {x} THEN {"null"} ELSE m.fwd[v]
      <4> HIDE DEF iter, pick
      <4> QED BY <2>2
    <3> HIDE DEF x, e, iter, pick
    <3>3. step(e, x) \in M /\ \A v \in D : step(e, x).fwd[v] = IF v = x THEN {"null"} ELSE e.fwd[v]
      <4> HIDE DEF step, S, M
      <4> QED BY <1>3, <3>1, <3>2
    <3> HIDE DEF step, M
    <3>4. \A v \in D : step(e, x).fwd[v] = IF v \in s THEN {"null"} ELSE m.fwd[v]
      BY <3>1, <3>2, <3>3
    <3>5. QED
      BY <3>1, <3>3, <3>4
  <2> HIDE DEF pick, Fam, iter, step, S, M
  <2>3. \A s \in SUBSET S : iter[s] \in Fam[s]
    BY <1>1, <1>2, <2>1, <2>2, FoldStays
  <2>4. QED
    BY <2>3
<1>11. QED
  <2> HIDE DEF iter, step, S, M
  <2> QED BY <1>9, <1>10 DEF S, M

-----------------------------------------------------------------------------
(* Loops over sequences *)

LEMMA LeastNumber ==
  ASSUME NEW T \in SUBSET Nat, T # {}
  PROVE  \E m \in T : \A n \in T : m <= n
<1>1. PICK m \in T : \A n \in T : ~(<<n, m>> \in OpToRel(<, Nat))
  BY NatLessThanWellFounded, WFMin, Zenon
<1>2. ASSUME NEW n \in T PROVE m <= n
  <2>1. ~(n < m)
    BY <1>1, Zenon DEF OpToRel
  <2>2. QED
    BY <2>1
<1>3. QED
  BY <1>2

LEMMA MinPicks ==
  ASSUME NEW S \in SUBSET Nat
  PROVE  Picks([s \in SUBSET S |-> Sq!Min(s)], S)
<1> DEFINE pick == [s \in SUBSET S |-> Sq!Min(s)]
<1>1. ASSUME NEW s \in (SUBSET S) \ {{}} PROVE pick[s] \in s
  <2>1. \E m \in s : \A n \in s : m =< n
    BY LeastNumber
  <2>2. Sq!Min(s) \in s
    BY <2>1, Zenon DEF Sq!Min
  <2>3. QED
    BY <2>2
<1>2. Picks(pick, S)
  <2> HIDE DEF pick
  <2> QED BY <1>1 DEF Picks
<1>3. QED
  BY <1>2

LEMMA MaxPicks ==
  ASSUME NEW N \in Nat
  PROVE  Picks([s \in SUBSET (1 .. N) |-> Sq!Max(s)], 1 .. N)
<1> DEFINE pick == [s \in SUBSET (1 .. N) |-> Sq!Max(s)]
<1>1. ASSUME NEW s \in (SUBSET (1 .. N)) \ {{}} PROVE pick[s] \in s
  <2> DEFINE T == {N - x : x \in s}
  <2>1. T \in SUBSET Nat /\ T # {}
    OBVIOUS
  <2>2. PICK k \in T : \A n \in T : k <= n
    <3> HIDE DEF T
    <3> QED BY <2>1, LeastNumber
  <2>3. PICK m \in s : k = N - m
    OBVIOUS
  <2>4. ASSUME NEW n \in s PROVE m >= n
    <3>1. N - n \in T /\ n \in Nat /\ m \in Nat
      OBVIOUS
    <3>2. N - m <= N - n
      BY <2>2, <2>3, <3>1
    <3> HIDE DEF T
    <3>3. QED
      BY <3>1, <3>2
  <2>5. Sq!Max(s) \in s
    BY <2>4, Zenon DEF Sq!Max
  <2>6. QED
    BY <2>5
<1>2. Picks(pick, 1 .. N)
  <2> HIDE DEF pick
  <2> QED BY <1>1 DEF Picks
<1>3. QED
  BY <1>2

\* The values of an execution.
Execution == [val : [Var -> Values], at : [Ptr -> Values]]

Pair == (Var \X Var) \cup (Ptr \X Ptr)

\* A pair renames a variable to a variable, or a pointer to a pointer.
LEMMA PairIs ==
  ASSUME NEW p \in Pair
  PROVE  /\ (p[1] \in Var /\ p[2] \in Var /\ p[1] \notin Ptr /\ p[2] \notin Ptr)
            \/ (p[1] \in Ptr /\ p[2] \in Ptr /\ p[1] \notin Var /\ p[2] \notin Var)
BY AlsAssumption DEF AlsAssumption, Pair

\* The pointers are renamed one pair after the other.
LEMMA RenamedAliasesAre ==
  ASSUME NEW pairs \in Seq(Pair), NEW m \in OkMap
  PROVE  \E F : /\ RenamedAliases(m, pairs) = F[DOMAIN pairs]
                /\ \A s \in SUBSET DOMAIN pairs : F[s] \in OkMapOf(DOMAIN m.fwd)
                /\ \A s \in SUBSET DOMAIN pairs :
                     F[s] = IF s = {} THEN m
                            ELSE LET i == Sq!Max(s)
                                     e == F[s \ {i}]
                                 IN  RenamedAlias(e, pairs[i])
<1> DEFINE S == DOMAIN pairs
           D == DOMAIN m.fwd
           M == OkMapOf(D)
           step(e, x) == RenamedAlias(e, pairs[x])
           pick == [s \in SUBSET S |-> Sq!Max(s)]
           Op == [z \in S \X M |-> step(z[2], z[1])]
           Body(F, s) == IF s = {} THEN m ELSE step(F[s \ {Sq!Max(s)}], Sq!Max(s))
           iter == CHOOSE F : F = [s \in SUBSET S |-> Body(F, s)]
<1>0. S = 1 .. Len(pairs) /\ Len(pairs) \in Nat
  OBVIOUS
<1>1. IsFiniteSet(S)
  BY FS_Interval, <1>0
<1>2. Picks(pick, S)
  <2> HIDE DEF M, step, D
  <2> QED BY <1>0, MaxPicks
<1>3. ASSUME NEW x \in S, NEW e \in M PROVE step(e, x) \in M
  <2>1. pairs[x] \in Pair
    OBVIOUS
  <2>2. CASE pairs[x][2] \in Ptr
    <3>1. pairs[x][1] \in AliasId /\ pairs[x][2] \in AliasId
      BY <2>1, <2>2, PairIs DEF AliasId
    <3>2. Replaced(e, pairs[x][2], pairs[x][1]) \in M
      BY <3>1, ReplacedOk
    <3>3. QED
      BY <2>2, <3>2 DEF RenamedAlias
  <2>3. CASE pairs[x][2] \notin Ptr
    BY <2>3 DEF RenamedAlias
  <2>4. QED
    BY <2>2, <2>3
<1>4. \A x \in S, e \in M : Op[<<x, e>>] = step(e, x)
  <2> HIDE DEF step, S, M
  <2> QED OBVIOUS
<1>5. m \in M
  BY DEF OkMapOf
<1>6. PICK F : IsFold(F, S, pick, m, Op) /\ \A s \in SUBSET S : F[s] \in M
  <2>1. \A x \in S, e \in M : Op[<<x, e>>] \in M
    BY <1>3, <1>4
  <2> HIDE DEF pick, Op, S, M
  <2>2. QED
    BY <1>1, <1>2, <1>5, <2>1, FoldIn
<1>7. F = [s \in SUBSET S |-> Body(F, s)]
  <2>1. F = [s \in SUBSET S |-> IF s = {} THEN m ELSE Op[<<pick[s], F[s \ {pick[s]}]>>]]
    BY <1>6 DEF IsFold
  <2>2. ASSUME NEW s \in SUBSET S, s # {} PROVE Op[<<pick[s], F[s \ {pick[s]}]>>] = Body(F, s)
    <3>1. pick[s] = (Sq!Max(s)) /\ pick[s] \in S
      BY <1>2, <2>2 DEF Picks
    <3>2. F[s \ {pick[s]}] \in M
      BY <1>6
    <3> HIDE DEF Op, pick, step, S, M
    <3>3. QED
      BY <1>4, <2>2, <3>1, <3>2
  <2> HIDE DEF Op, pick, step, S, M
  <2>3. QED
    BY <2>1, <2>2
<1>8. iter = [s \in SUBSET S |-> Body(iter, s)]
  <2> HIDE DEF Body
  <2> QED BY <1>7, Zenon
<1>9. RenamedAliases(m, pairs) = iter[S]
  BY Zenon DEF RenamedAliases, Sq!FoldLeft, Sq!MapThenFoldSet
<1>10. \A s \in SUBSET S : iter[s] = Body(iter, s)
  <2> HIDE DEF iter, Body
  <2> QED BY <1>8
<1>11. ASSUME NEW t \in SUBSET S PROVE iter[t] \in M
  <2>1. IsFiniteSet(t)
    BY <1>1, FS_Subset
  <2>2. Picks(pick, t)
    BY <1>2 DEF Picks
  <2> HIDE DEF iter, step, S, M
  <2>3. iter[{}] \in M
    BY <1>5, <1>8
  <2>4. ASSUME NEW s \in (SUBSET t) \ {{}}, iter[s \ {pick[s]}] \in M PROVE iter[s] \in M
    <3>1. iter[s] = step(iter[s \ {pick[s]}], pick[s])
      BY <1>8
    <3>2. pick[s] \in S
      BY <1>2, <2>4 DEF Picks
    <3> HIDE DEF pick
    <3>3. QED
      BY <1>3, <2>4, <3>1, <3>2
  <2> HIDE DEF pick
  <2>5. QED
    BY <2>1, <2>2, <2>3, <2>4, FoldEnds
<1>12. QED
  <2> HIDE DEF iter
  <2> QED BY <1>9, <1>10, <1>11

\* The execution goes on under a new name.
LEMMA RunRenamedOk ==
  ASSUME NEW p \in Pair, NEW r \in Execution
  PROVE  RenamedRun(r, p) \in Execution
<1>1. p[1] \in Var => p[2] \in Var
  BY PairIs
<1>2. p[1] \notin Var => p[1] \in Ptr /\ p[2] \in Ptr
  BY PairIs
<1>3. QED
  BY <1>1, <1>2 DEF Execution, RenamedRun

\* The execution goes on under the new names.
LEMMA RunRenamedIs ==
  ASSUME NEW pairs \in Seq(Pair), NEW m \in Execution
  PROVE  \E F : /\ Sq!FoldLeft(RenamedRun, m, pairs) = F[DOMAIN pairs]
                /\ \A s \in SUBSET DOMAIN pairs : F[s] \in Execution
                /\ \A s \in SUBSET DOMAIN pairs :
                     F[s] = IF s = {} THEN m
                            ELSE LET i == Sq!Max(s)
                                     e == F[s \ {i}]
                                 IN  RenamedRun(e, pairs[i])
<1> DEFINE S == DOMAIN pairs
           M == Execution
           step(e, x) == RenamedRun(e, pairs[x])
           pick == [s \in SUBSET S |-> Sq!Max(s)]
           Op == [z \in S \X M |-> step(z[2], z[1])]
           Body(F, s) == IF s = {} THEN m ELSE step(F[s \ {Sq!Max(s)}], Sq!Max(s))
           iter == CHOOSE F : F = [s \in SUBSET S |-> Body(F, s)]
<1>0. S = 1 .. Len(pairs) /\ Len(pairs) \in Nat
  OBVIOUS
<1>1. IsFiniteSet(S)
  BY FS_Interval, <1>0
<1>2. Picks(pick, S)
  <2> HIDE DEF M, step
  <2> QED BY <1>0, MaxPicks
<1>3. ASSUME NEW x \in S, NEW e \in M PROVE step(e, x) \in M
  <2>1. pairs[x] \in Pair
    OBVIOUS
  <2>2. QED
    BY <2>1, RunRenamedOk
<1>4. \A x \in S, e \in M : Op[<<x, e>>] = step(e, x)
  <2> HIDE DEF step, S, M
  <2> QED OBVIOUS
<1>5. m \in M
  OBVIOUS
<1>6. PICK F : IsFold(F, S, pick, m, Op) /\ \A s \in SUBSET S : F[s] \in M
  <2>1. \A x \in S, e \in M : Op[<<x, e>>] \in M
    BY <1>3, <1>4
  <2> HIDE DEF pick, Op, S, M
  <2>2. QED
    BY <1>1, <1>2, <1>5, <2>1, FoldIn
<1>7. F = [s \in SUBSET S |-> Body(F, s)]
  <2>1. F = [s \in SUBSET S |-> IF s = {} THEN m ELSE Op[<<pick[s], F[s \ {pick[s]}]>>]]
    BY <1>6 DEF IsFold
  <2>2. ASSUME NEW s \in SUBSET S, s # {} PROVE Op[<<pick[s], F[s \ {pick[s]}]>>] = Body(F, s)
    <3>1. pick[s] = (Sq!Max(s)) /\ pick[s] \in S
      BY <1>2, <2>2 DEF Picks
    <3>2. F[s \ {pick[s]}] \in M
      BY <1>6
    <3> HIDE DEF Op, pick, step, S, M
    <3>3. QED
      BY <1>4, <2>2, <3>1, <3>2
  <2> HIDE DEF Op, pick, step, S, M
  <2>3. QED
    BY <2>1, <2>2
<1>8. iter = [s \in SUBSET S |-> Body(iter, s)]
  <2> HIDE DEF Body
  <2> QED BY <1>7, Zenon
<1>9. Sq!FoldLeft(RenamedRun, m, pairs) = iter[S]
  BY Zenon DEF Sq!FoldLeft, Sq!MapThenFoldSet
<1>10. \A s \in SUBSET S : iter[s] = Body(iter, s)
  <2> HIDE DEF iter, Body
  <2> QED BY <1>8
<1>11. ASSUME NEW t \in SUBSET S PROVE iter[t] \in M
  <2>1. IsFiniteSet(t)
    BY <1>1, FS_Subset
  <2>2. Picks(pick, t)
    BY <1>2 DEF Picks
  <2> HIDE DEF iter, step, S, M
  <2>3. iter[{}] \in M
    BY <1>5, <1>8
  <2>4. ASSUME NEW s \in (SUBSET t) \ {{}}, iter[s \ {pick[s]}] \in M PROVE iter[s] \in M
    <3>1. iter[s] = step(iter[s \ {pick[s]}], pick[s])
      BY <1>8
    <3>2. pick[s] \in S
      BY <1>2, <2>4 DEF Picks
    <3> HIDE DEF pick
    <3>3. QED
      BY <1>3, <2>4, <3>1, <3>2
  <2> HIDE DEF pick
  <2>5. QED
    BY <2>1, <2>2, <2>3, <2>4, FoldEnds
<1>12. QED
  <2> HIDE DEF iter
  <2> QED BY <1>9, <1>10, <1>11

LEMMA RenamedAliasesOk ==
  ASSUME NEW pairs \in Seq(Pair), NEW D, NEW m \in OkMapOf(D)
  PROVE  RenamedAliases(m, pairs) \in OkMapOf(D)
<1>1. m \in OkMap /\ DOMAIN m.fwd = D
  BY DEF OkMapOf
<1>2. PICK F : /\ RenamedAliases(m, pairs) = F[DOMAIN pairs]
               /\ \A s \in SUBSET DOMAIN pairs : F[s] \in OkMapOf(DOMAIN m.fwd)
  BY <1>1, RenamedAliasesAre
<1>3. QED
  BY <1>1, <1>2

LEMMA RunRenamed ==
  ASSUME NEW pairs \in Seq(Pair), NEW r \in Execution
  PROVE  Sq!FoldLeft(RenamedRun, r, pairs) \in Execution
<1>1. PICK F : /\ Sq!FoldLeft(RenamedRun, r, pairs) = F[DOMAIN pairs]
               /\ \A s \in SUBSET DOMAIN pairs : F[s] \in Execution
  BY RunRenamedIs
<1>2. QED
  BY <1>1

\* What a child knows of the offset of each variable.
Child == [Var -> SUBSET Values]

\* A variable that is not in the map has no offset.
MissingIn(m, c) == \A v \in Var \ DOMAIN m.fwd : c[v] = Values

\* An old name that is not in the map has no offset to pass on, and one that is passes
\* on its place there as well.
LEMMA RenamedTogether ==
  ASSUME NEW p \in Pair, NEW m \in OkMap, NEW c \in Child
  PROVE  /\ RenamedVar(m, p) \in OkMap /\ RenamedOffset(c, p) \in Child
         /\ MissingIn(m, c) => MissingIn(RenamedVar(m, p), RenamedOffset(c, p))
<1>1. DOMAIN m.fwd \in SUBSET Var /\ \A v \in DOMAIN m.fwd : m.fwd[v] \in (SUBSET AliasId) \ {{}}
  BY MapIs DEF OkMap
<1>2. RenamedOffset(c, p) \in Child
  <2>1. p[1] \in Var => p[2] \in Var
    BY PairIs
  <2>2. QED
    BY <2>1 DEF RenamedOffset, Child
<1>3. CASE p[2] \in DOMAIN m.fwd
  <2>1. p[1] \in Var /\ p[2] \in Var
    BY <1>1, <1>3, PairIs
  <2> DEFINE e == Put(m, p[1], m.fwd[p[2]])
  <2>2. e \in OkMap /\ DOMAIN e.fwd = DOMAIN m.fwd \cup {p[1]}
    BY <1>1, <1>3, <2>1, PutOk DEF OkMapOf
  <2>3. RenamedVar(m, p) = Erased(e, p[2])
    BY <1>3 DEF RenamedVar
  <2> HIDE DEF e
  <2>4. RenamedVar(m, p) \in OkMap /\ DOMAIN RenamedVar(m, p).fwd = (DOMAIN m.fwd \cup {p[1]}) \ {p[2]}
    BY <2>2, <2>3, ErasedOk DEF OkMapOf
  <2>5. \A v \in Var : RenamedOffset(c, p)[v] = IF v = p[2] THEN Values ELSE IF v = p[1] THEN c[p[2]] ELSE c[v]
    BY <2>1 DEF RenamedOffset, Child
  <2>6. QED
    BY <1>2, <2>4, <2>5 DEF MissingIn
<1>4. CASE p[2] \notin DOMAIN m.fwd
  <2>1. RenamedVar(m, p) = m
    BY <1>4 DEF RenamedVar
  <2>2. CASE p[1] \in Var
    <3>1. p[2] \in Var
      BY <2>2, PairIs
    <3>2. \A v \in Var : RenamedOffset(c, p)[v] = IF v = p[2] THEN Values ELSE IF v = p[1] THEN c[p[2]] ELSE c[v]
      BY <2>2, <3>1 DEF RenamedOffset, Child
    <3>3. QED
      BY <1>2, <1>4, <2>1, <3>1, <3>2 DEF MissingIn
  <2>3. CASE p[1] \notin Var
    BY <1>2, <2>1, <2>3 DEF RenamedOffset
  <2>4. QED
    BY <2>2, <2>3
<1>5. QED
  BY <1>3, <1>4

\* The variables are renamed one pair after the other.
LEMMA RenamedVarsAre ==
  ASSUME NEW pairs \in Seq(Pair), NEW m \in OkMap
  PROVE  \E F : /\ RenamedVars(m, pairs) = F[DOMAIN pairs]
                /\ \A s \in SUBSET DOMAIN pairs :
                     F[s] = IF s = {} THEN m
                            ELSE LET i == Sq!Max(s)
                                     e == F[s \ {i}]
                                 IN  RenamedVar(e, pairs[i])
<1> DEFINE S == DOMAIN pairs
           M == OkMap
           step(e, x) == RenamedVar(e, pairs[x])
           pick == [s \in SUBSET S |-> Sq!Max(s)]
           Op == [z \in S \X M |-> step(z[2], z[1])]
           Body(F, s) == IF s = {} THEN m ELSE step(F[s \ {Sq!Max(s)}], Sq!Max(s))
           iter == CHOOSE F : F = [s \in SUBSET S |-> Body(F, s)]
<1>0. S = 1 .. Len(pairs) /\ Len(pairs) \in Nat
  OBVIOUS
<1>1. IsFiniteSet(S)
  BY FS_Interval, <1>0
<1>2. Picks(pick, S)
  <2> HIDE DEF M, step
  <2> QED BY <1>0, MaxPicks
<1>3. ASSUME NEW x \in S, NEW e \in M PROVE step(e, x) \in M
  <2>1. pairs[x] \in Pair
    OBVIOUS
  <2> DEFINE c == [v \in Var |-> {}]
  <2>2. c \in Child
    BY DEF Child
  <2> HIDE DEF c
  <2>3. QED
    BY <2>1, <2>2, RenamedTogether
<1>4. \A x \in S, e \in M : Op[<<x, e>>] = step(e, x)
  <2> HIDE DEF step, S, M
  <2> QED OBVIOUS
<1>5. m \in M
  OBVIOUS
<1>6. PICK F : IsFold(F, S, pick, m, Op) /\ \A s \in SUBSET S : F[s] \in M
  <2>1. \A x \in S, e \in M : Op[<<x, e>>] \in M
    BY <1>3, <1>4
  <2> HIDE DEF pick, Op, S, M
  <2>2. QED
    BY <1>1, <1>2, <1>5, <2>1, FoldIn
<1>7. F = [s \in SUBSET S |-> Body(F, s)]
  <2>1. F = [s \in SUBSET S |-> IF s = {} THEN m ELSE Op[<<pick[s], F[s \ {pick[s]}]>>]]
    BY <1>6 DEF IsFold
  <2>2. ASSUME NEW s \in SUBSET S, s # {} PROVE Op[<<pick[s], F[s \ {pick[s]}]>>] = Body(F, s)
    <3>1. pick[s] = (Sq!Max(s)) /\ pick[s] \in S
      BY <1>2, <2>2 DEF Picks
    <3>2. F[s \ {pick[s]}] \in M
      BY <1>6
    <3> HIDE DEF Op, pick, step, S, M
    <3>3. QED
      BY <1>4, <2>2, <3>1, <3>2
  <2> HIDE DEF Op, pick, step, S, M
  <2>3. QED
    BY <2>1, <2>2
<1>8. iter = [s \in SUBSET S |-> Body(iter, s)]
  <2> HIDE DEF Body
  <2> QED BY <1>7, Zenon
<1>9. RenamedVars(m, pairs) = iter[S]
  BY Zenon DEF RenamedVars, Sq!FoldLeft, Sq!MapThenFoldSet
<1>10. \A s \in SUBSET S : iter[s] = Body(iter, s)
  <2> HIDE DEF iter, Body
  <2> QED BY <1>8
<1>11. QED
  <2> HIDE DEF iter
  <2> QED BY <1>9, <1>10

\* So are the offsets of the child.
LEMMA ChildRenamedIs ==
  ASSUME NEW pairs \in Seq(Pair), NEW c \in Child
  PROVE  \E F : /\ ChildEquateKill(c, pairs) = F[DOMAIN pairs]
                /\ \A s \in SUBSET DOMAIN pairs :
                     F[s] = IF s = {} THEN c
                            ELSE LET i == Sq!Max(s)
                                     e == F[s \ {i}]
                                 IN  RenamedOffset(e, pairs[i])
<1> DEFINE S == DOMAIN pairs
           M == Child
           step(e, x) == RenamedOffset(e, pairs[x])
           pick == [s \in SUBSET S |-> Sq!Max(s)]
           Op == [z \in S \X M |-> step(z[2], z[1])]
           Body(F, s) == IF s = {} THEN c ELSE step(F[s \ {Sq!Max(s)}], Sq!Max(s))
           iter == CHOOSE F : F = [s \in SUBSET S |-> Body(F, s)]
<1>0. S = 1 .. Len(pairs) /\ Len(pairs) \in Nat
  OBVIOUS
<1>1. IsFiniteSet(S)
  BY FS_Interval, <1>0
<1>2. Picks(pick, S)
  <2> HIDE DEF M, step
  <2> QED BY <1>0, MaxPicks
<1>3. ASSUME NEW x \in S, NEW e \in M PROVE step(e, x) \in M
  <2>1. pairs[x] \in Pair
    OBVIOUS
  <2>2. QED
    BY <2>1, EmptyOk, RenamedTogether DEF OkMapOf
<1>4. \A x \in S, e \in M : Op[<<x, e>>] = step(e, x)
  <2> HIDE DEF step, S, M
  <2> QED OBVIOUS
<1>5. c \in M
  OBVIOUS
<1>6. PICK F : IsFold(F, S, pick, c, Op) /\ \A s \in SUBSET S : F[s] \in M
  <2>1. \A x \in S, e \in M : Op[<<x, e>>] \in M
    BY <1>3, <1>4
  <2> HIDE DEF pick, Op, S, M
  <2>2. QED
    BY <1>1, <1>2, <1>5, <2>1, FoldIn
<1>7. F = [s \in SUBSET S |-> Body(F, s)]
  <2>1. F = [s \in SUBSET S |-> IF s = {} THEN c ELSE Op[<<pick[s], F[s \ {pick[s]}]>>]]
    BY <1>6 DEF IsFold
  <2>2. ASSUME NEW s \in SUBSET S, s # {} PROVE Op[<<pick[s], F[s \ {pick[s]}]>>] = Body(F, s)
    <3>1. pick[s] = (Sq!Max(s)) /\ pick[s] \in S
      BY <1>2, <2>2 DEF Picks
    <3>2. F[s \ {pick[s]}] \in M
      BY <1>6
    <3> HIDE DEF Op, pick, step, S, M
    <3>3. QED
      BY <1>4, <2>2, <3>1, <3>2
  <2> HIDE DEF Op, pick, step, S, M
  <2>3. QED
    BY <2>1, <2>2
<1>8. iter = [s \in SUBSET S |-> Body(iter, s)]
  <2> HIDE DEF Body
  <2> QED BY <1>7, Zenon
<1>9. ChildEquateKill(c, pairs) = iter[S]
  BY Zenon DEF ChildEquateKill, Sq!FoldLeft, Sq!MapThenFoldSet
<1>10. \A s \in SUBSET S : iter[s] = Body(iter, s)
  <2> HIDE DEF iter, Body
  <2> QED BY <1>8
<1>11. QED
  <2> HIDE DEF iter
  <2> QED BY <1>9, <1>10

\* And so do all pairs.
LEMMA RenamedOk ==
  ASSUME NEW pairs \in Seq(Pair), NEW m \in OkMap, NEW c \in Child
  PROVE  /\ RenamedVars(m, pairs) \in OkMap /\ ChildEquateKill(c, pairs) \in Child
         /\ MissingIn(m, c) => MissingIn(RenamedVars(m, pairs), ChildEquateKill(c, pairs))
<1> DEFINE S == DOMAIN pairs
           pick == [s \in SUBSET S |-> Sq!Max(s)]
<1>1. PICK F : /\ RenamedVars(m, pairs) = F[S]
               /\ \A s \in SUBSET S :
                    F[s] = IF s = {} THEN m ELSE RenamedVar(F[s \ {Sq!Max(s)}], pairs[Sq!Max(s)])
  BY RenamedVarsAre
<1>2. PICK H : /\ ChildEquateKill(c, pairs) = H[S]
               /\ \A s \in SUBSET S :
                    H[s] = IF s = {} THEN c ELSE RenamedOffset(H[s \ {Sq!Max(s)}], pairs[Sq!Max(s)])
  BY ChildRenamedIs
<1> DEFINE M == {g \in OkMap \X Child : MissingIn(m, c) => MissingIn(g[1], g[2])}
           G == [s \in SUBSET S |-> <<F[s], H[s]>>]
<1>3. IsFiniteSet(S) /\ Picks(pick, S)
  <2> DEFINE n == Len(pairs)
  <2>1. S = 1 .. n /\ n \in Nat
    OBVIOUS
  <2>2. IsFiniteSet(1 .. n)
    BY <2>1, FS_Interval
  <2>3. Picks([s \in SUBSET (1 .. n) |-> Sq!Max(s)], 1 .. n)
    <3> HIDE DEF n
    <3> QED BY <2>1, MaxPicks
  <2>4. QED
    BY <2>1, <2>2, <2>3
<1>4. G[{}] \in M
  <2>1. F[{}] = m /\ H[{}] = c
    BY <1>1, <1>2
  <2>2. QED
    BY <2>1
<1>5. ASSUME NEW s \in (SUBSET S) \ {{}}, G[s \ {pick[s]}] \in M PROVE G[s] \in M
  <2> DEFINE i == pick[s]
             e == F[s \ {i}]
             d == H[s \ {i}]
  <2>1. i \in S /\ i = Sq!Max(s)
    BY <1>3 DEF Picks
  <2>2. F[s] = RenamedVar(e, pairs[i]) /\ H[s] = RenamedOffset(d, pairs[i])
    BY <1>1, <1>2, <2>1
  <2>3. <<e, d>> \in M
    BY <1>5
  <2>4. pairs[i] \in Pair
    BY <2>1
  <2>5. e \in OkMap /\ d \in Child /\ (MissingIn(m, c) => MissingIn(e, d))
    BY <2>3
  <2>6. G[s] = <<F[s], H[s]>>
    OBVIOUS
  <2> HIDE DEF i, e, d, G
  <2>7. QED
    BY <2>2, <2>4, <2>5, <2>6, RenamedTogether
<1>6. G[S] \in M
  <2> HIDE DEF G, M, pick, S
  <2> QED BY <1>3, <1>4, <1>5, FoldEnds
<1>7. QED
  BY <1>1, <1>2, <1>6

-----------------------------------------------------------------------------
(* Merging *)

\* The variables both sides have are those of the result.
LEMMA CompatOk ==
  ASSUME NEW w \in BOOLEAN, NEW a \in StateSet, NEW b \in StateSet
  PROVE  /\ Compat(w, a, b) \in OkMapOf(DOMAIN a.elements.fwd \cap DOMAIN b.elements.fwd)
         /\ \A x \in DOMAIN a.elements.fwd \cap DOMAIN b.elements.fwd :
              Compat(w, a, b).fwd[x] = CompatAliases(w, a.elements.fwd[x], b.elements.fwd[x])
<1> DEFINE S == DOMAIN a.elements.fwd \cap DOMAIN b.elements.fwd
           M == OkMap
           both(x) == CompatAliases(w, a.elements.fwd[x], b.elements.fwd[x])
           step(e, x) == Put(e, x, both(x))
           pick == [s \in SUBSET S |-> CHOOSE v \in s : TRUE]
           Fam == [s \in SUBSET S |-> {e \in OkMapOf(s) : \A x \in s : e.fwd[x] = both(x)}]
           Op == [z \in S \X M |-> step(z[2], z[1])]
           Body(F, s) == IF s = {} THEN NoElements ELSE step(F[s \ {CHOOSE v \in s : TRUE}], CHOOSE v \in s : TRUE)
           iter == CHOOSE F : F = [s \in SUBSET S |-> Body(F, s)]
<1>0. ASSUME NEW v \in S
      PROVE v \in Var /\ CompatAliases(w, a.elements.fwd[v], b.elements.fwd[v]) \in (SUBSET AliasId) \ {{}}
  <2>1. a.elements \in InverseSetMap /\ b.elements \in InverseSetMap
    BY DEF StateSet
  <2>2. v \in Var /\ v \in DOMAIN a.elements.fwd /\ v \in DOMAIN b.elements.fwd
    BY <2>1, MapIs
  <2>3. /\ a.elements.fwd[v] \in (SUBSET AliasId) \ {{}}
        /\ b.elements.fwd[v] \in (SUBSET AliasId) \ {{}}
    BY <2>1, <2>2, MapIs
  <2>4. QED
    BY <2>2, <2>3 DEF CompatAliases, AliasId
<1>1. IsFiniteSet(S)
  <2>1. S \in SUBSET Var
    BY MapIs DEF StateSet
  <2>2. QED
    BY <2>1, AlsAssumption, FS_Subset DEF AlsAssumption
<1>2. Picks(pick, S)
  BY AnyPicks
<1>3. ASSUME NEW x \in S, NEW e \in M PROVE step(e, x) \in M
  BY <1>0, PutOk DEF OkMapOf
<1>4. \A x \in S, e \in M : Op[<<x, e>>] = step(e, x)
  <2> HIDE DEF step, S, M
  <2> QED OBVIOUS
<1>5. NoElements \in M
  BY EmptyOk DEF OkMapOf
<1>6. PICK F : IsFold(F, S, pick, NoElements, Op) /\ \A s \in SUBSET S : F[s] \in M
  <2>1. \A x \in S, e \in M : Op[<<x, e>>] \in M
    BY <1>3, <1>4
  <2> HIDE DEF pick, Op, S, M
  <2>2. QED
    BY <1>1, <1>2, <1>5, <2>1, FoldIn
<1>7. F = [s \in SUBSET S |-> Body(F, s)]
  <2>1. F = [s \in SUBSET S |-> IF s = {} THEN NoElements ELSE Op[<<pick[s], F[s \ {pick[s]}]>>]]
    BY <1>6 DEF IsFold
  <2>2. ASSUME NEW s \in SUBSET S, s # {} PROVE Op[<<pick[s], F[s \ {pick[s]}]>>] = Body(F, s)
    <3>1. pick[s] = (CHOOSE v \in s : TRUE) /\ pick[s] \in S
      BY <1>2, <2>2 DEF Picks
    <3>2. F[s \ {pick[s]}] \in M
      BY <1>6
    <3> HIDE DEF Op, pick, step, S, M
    <3>3. QED
      BY <1>4, <2>2, <3>1, <3>2
  <2> HIDE DEF Op, pick, step, S, M
  <2>3. QED
    BY <2>1, <2>2
<1>8. iter = [s \in SUBSET S |-> Body(iter, s)]
  <2> HIDE DEF Body
  <2> QED BY <1>7, Zenon
<1>9. Compat(w, a, b) = iter[S]
  BY Zenon DEF Compat, FoldSet, MapThenFoldSet
<1>10. \A s \in SUBSET S : iter[s] \in Fam[s]
  <2>1. iter[{}] \in Fam[{}]
    <3>1. iter[{}] = NoElements /\ {} \in SUBSET S
      BY <1>8
    <3> HIDE DEF iter, S, both
    <3>2. iter[{}] \in OkMapOf({})
      BY <3>1, EmptyOk
    <3>3. QED
      BY <3>1, <3>2
  <2>2. ASSUME NEW s \in (SUBSET S) \ {{}}, iter[s \ {pick[s]}] \in Fam[s \ {pick[s]}]
        PROVE iter[s] \in Fam[s]
    <3> DEFINE v == pick[s]
               e == iter[s \ {v}]
    <3>1. v \in s
      BY <1>2 DEF Picks
    <3>2. iter[s] = Put(e, v, both(v))
      <4>1. iter[s] = step(e, v)
        <5> HIDE DEF iter, step
        <5> QED BY <1>8
      <4> HIDE DEF iter, both, v
      <4>2. QED
        BY <4>1
    <3>3. e \in OkMapOf(s \ {v}) /\ \A x \in s \ {v} : e.fwd[x] = both(x)
      <4> HIDE DEF both, iter, pick
      <4> QED BY <2>2
    <3>4. v \in Var /\ both(v) \in (SUBSET AliasId) \ {{}}
      BY <1>0, <3>1
    <3> HIDE DEF v, e, iter, both
    <3>5. e \in OkMap /\ DOMAIN e.fwd = s \ {v} /\ (s \ {v}) \cup {v} = s /\ (s \ {v}) \ {v} = s \ {v}
      BY <3>1, <3>3 DEF OkMapOf
    <3>6. /\ iter[s] \in OkMapOf(s) /\ iter[s].fwd[v] = both(v)
          /\ \A x \in s \ {v} : iter[s].fwd[x] = e.fwd[x]
      <4> DEFINE ids == both(v)
      <4>1. ids \in (SUBSET AliasId) \ {{}} /\ iter[s] = Put(e, v, ids)
        BY <3>2, <3>4
      <4> HIDE DEF ids
      <4>2. /\ Put(e, v, ids) \in OkMapOf(DOMAIN e.fwd \cup {v}) /\ Put(e, v, ids).fwd[v] = ids
            /\ \A x \in DOMAIN e.fwd \ {v} : Put(e, v, ids).fwd[x] = e.fwd[x]
        BY <3>4, <3>5, <4>1, PutOk
      <4>3. QED
        BY <3>5, <4>1, <4>2 DEF ids
    <3>7. \A x \in s : iter[s].fwd[x] = both(x)
      BY <3>3, <3>6
    <3>8. QED
      BY <3>6, <3>7
  <2> HIDE DEF Fam, pick, iter, S
  <2>3. QED
    BY <1>1, <1>2, <2>1, <2>2, FoldStays
<1>11. iter[S] \in OkMapOf(S) /\ \A x \in S : iter[S].fwd[x] = both(x)
  <2> HIDE DEF iter, S, both
  <2> QED BY <1>10
<1>12. QED
  <2> HIDE DEF iter
  <2> QED BY <1>9, <1>11

-----------------------------------------------------------------------------
(* Expressions *)

\* A remainder is a value.
LEMMA RemainderIs == ASSUME NEW x \in Int PROVE x % Modulus \in Values
<1>1. Modulus \in Nat \ {0}
  BY AlsAssumption DEF AlsAssumption
<1>2. x % Modulus \in 0 .. Modulus - 1
  BY <1>1
<1>3. QED
  BY <1>2 DEF Values

\* So is a product.
LEMMA ProductIs == ASSUME NEW x \in Values, NEW y \in Values PROVE (x * y) % Modulus \in Values
<1>1. x \in Int /\ y \in Int
  BY DEF Values
<1>2. x * y \in Int
  BY <1>1
<1>3. QED
  BY <1>2, RemainderIs

\* A sum of values is a value.
LEMMA AddedTyped ==
  ASSUME NEW K, NEW numbers \in [K -> SUBSET Values], NEW t \in [scale : Int, var : K],
         NEW sum \in SUBSET Values
  PROVE  Added(numbers, t, sum) \in SUBSET Values
<1>1. Values \subseteq Int
  BY DEF Values
<1>2. numbers[t.var] \subseteq Int /\ sum \subseteq Int /\ t.scale \in Int
  BY <1>1
<1>3. ASSUME NEW y \in numbers[t.var], NEW r \in sum PROVE (t.scale * y + r) % Modulus \in Values
  <2>1. t.scale * y + r \in Int
    BY <1>2
  <2>2. QED
    BY <2>1, RemainderIs
<1>4. QED
  BY <1>3 DEF Added

\* The sum of the terms from each one on.
LEMMA SumIs ==
  ASSUME NEW lin \in Linear, NEW numbers \in [Var -> SUBSET Values]
  PROVE  \E F : /\ SumOf(lin, numbers) = F[1] /\ F[Len(lin.terms) + 1] = lin.c
                /\ \A i \in 1 .. Len(lin.terms) : F[i] = Added(numbers, lin.terms[i], F[i + 1])
                /\ \A i \in 1 .. Len(lin.terms) + 1 : F[i] \in SUBSET Values
<1> DEFINE ts == lin.terms
           c == lin.c
           T == [scale : Int, var : Var]
           S == DOMAIN ts
           M == SUBSET Values
           step(e, x) == Added(numbers, ts[x], e)
           pick == [s \in SUBSET S |-> Sq!Min(s)]
           Op == [z \in S \X M |-> step(z[2], z[1])]
           Body(F, s) == IF s = {} THEN c ELSE step(F[s \ {Sq!Min(s)}], Sq!Min(s))
           iter == CHOOSE F : F = [s \in SUBSET S |-> Body(F, s)]
<1>1. SumOf(lin, numbers) = iter[S]
  BY Zenon DEF SumOf, Sq!FoldRight, Sq!MapThenFoldSet
<1>2. ts \in Seq(T) /\ c \in SUBSET Values
  BY DEF Linear
<1> HIDE DEF ts, c
<1>3. S = 1 .. Len(ts) /\ Len(ts) \in Nat
  BY <1>2
<1>4. IsFiniteSet(S)
  BY FS_Interval, <1>3
<1>5. Picks(pick, S)
  <2>1. S \in SUBSET Nat
    BY <1>3
  <2> HIDE DEF M, S, step
  <2>2. QED
    BY <2>1, MinPicks
<1>6. ASSUME NEW x \in S, NEW e \in M PROVE step(e, x) \in M
  <2>1. ts[x] \in T
    <3> HIDE DEF T
    <3> QED BY <1>2
  <2>2. QED
    BY <2>1, AddedTyped
<1>7. \A x \in S, e \in M : Op[<<x, e>>] = step(e, x)
  <2> HIDE DEF step, S, M
  <2> QED OBVIOUS
<1>8. c \in M
  BY <1>2
<1>9. PICK F : IsFold(F, S, pick, c, Op) /\ \A s \in SUBSET S : F[s] \in M
  <2>1. \A x \in S, e \in M : Op[<<x, e>>] \in M
    BY <1>6, <1>7
  <2> HIDE DEF pick, Op, S, M
  <2>2. QED
    BY <1>4, <1>5, <1>8, <2>1, FoldIn
<1>10. F = [s \in SUBSET S |-> Body(F, s)]
  <2>1. F = [s \in SUBSET S |-> IF s = {} THEN c ELSE Op[<<pick[s], F[s \ {pick[s]}]>>]]
    BY <1>9 DEF IsFold
  <2>2. ASSUME NEW s \in SUBSET S, s # {} PROVE Op[<<pick[s], F[s \ {pick[s]}]>>] = Body(F, s)
    <3>1. pick[s] = (Sq!Min(s)) /\ pick[s] \in S
      BY <1>5, <2>2 DEF Picks
    <3>2. F[s \ {pick[s]}] \in M
      BY <1>9
    <3> HIDE DEF Op, pick, step, S, M
    <3>3. QED
      BY <1>7, <2>2, <3>1, <3>2
  <2> HIDE DEF Op, pick, step, S, M
  <2>3. QED
    BY <2>1, <2>2
<1>11. iter = [s \in SUBSET S |-> Body(iter, s)]
  <2> HIDE DEF Body
  <2> QED BY <1>10, Zenon
<1>12. \A s \in SUBSET S : iter[s] \in M
  <2> DEFINE Fam == [s \in SUBSET S |-> M]
  <2> HIDE DEF iter, step, S, M
  <2>1. iter[{}] \in Fam[{}]
    BY <1>8, <1>11
  <2>2. ASSUME NEW s \in (SUBSET S) \ {{}}, iter[s \ {pick[s]}] \in Fam[s \ {pick[s]}] PROVE iter[s] \in Fam[s]
    <3>1. iter[s] = step(iter[s \ {pick[s]}], pick[s]) /\ iter[s \ {pick[s]}] \in M
      BY <1>11, <2>2
    <3>2. pick[s] \in S
      BY <1>5 DEF Picks
    <3> HIDE DEF pick
    <3>3. QED
      BY <1>6, <3>1, <3>2
  <2> HIDE DEF Fam, pick
  <2>3. \A s \in SUBSET S : iter[s] \in Fam[s]
    BY <1>4, <1>5, <2>1, <2>2, FoldStays
  <2>4. QED
    BY <2>3 DEF Fam
<1> DEFINE n == Len(ts)
           G == [i \in 1 .. n + 1 |-> iter[i .. n]]
<1> HIDE DEF iter
<1>13. n \in Nat /\ S = 1 .. n
  BY <1>3
<1> HIDE DEF S, n
<1>14. ASSUME NEW i \in 1 .. n PROVE G[i] = Added(numbers, ts[i], G[i + 1])
  <2> DEFINE s == i .. n
  <2>1. s \in SUBSET S /\ s # {} /\ i \in s /\ \A x \in s : i <= x
    BY <1>13, <1>14
  <2>2. Sq!Min(s) = i
    <3>1. \A m \in s : (\A x \in s : m <= x) => m = i
      BY <1>13, <2>1
    <3> HIDE DEF s
    <3>2. QED
      BY <2>1, <3>1 DEF Sq!Min
  <2>3. s \ {i} = i + 1 .. n /\ i \in Int /\ i + 1 \in 1 .. n + 1 /\ i \in 1 .. n + 1
    BY <1>13, <1>14
  <2> HIDE DEF s
  <2>4. iter[s] = step(iter[s \ {i}], i)
    BY <1>11, <2>1, <2>2
  <2>5. G[i] = iter[s] /\ G[i + 1] = iter[s \ {i}]
    BY <2>3 DEF s
  <2> HIDE DEF G
  <2>6. QED
    BY <2>4, <2>5
<1>15. G[n + 1] = c
  <2>1. n + 1 .. n = {} /\ n + 1 \in 1 .. n + 1
    BY <1>13
  <2>2. iter[{}] = c
    BY <1>11
  <2>3. QED
    BY <2>1, <2>2
<1>16. G[1] = iter[S] /\ \A i \in 1 .. n + 1 : G[i] \in M
  <2>1. \A i \in 1 .. n + 1 : i .. n \in SUBSET S /\ 1 \in 1 .. n + 1
    BY <1>13
  <2> HIDE DEF M
  <2>2. QED
    BY <1>12, <1>13, <2>1
<1> HIDE DEF G
<1>17. /\ SumOf(lin, numbers) = G[1] /\ G[Len(ts) + 1] = c
       /\ \A i \in 1 .. Len(ts) : G[i] = Added(numbers, ts[i], G[i + 1])
       /\ \A i \in 1 .. Len(ts) + 1 : G[i] \in SUBSET Values
  BY <1>1, <1>14, <1>15, <1>16 DEF n
<1>18. QED
  BY <1>17 DEF ts, c

LEMMA SumTyped ==
  ASSUME NEW lin \in Linear, NEW numbers \in [Var -> SUBSET Values]
  PROVE  SumOf(lin, numbers) \in SUBSET Values
<1>1. lin.terms \in Seq([scale : Int, var : Var])
  BY DEF Linear
<1>2. 1 \in 1 .. Len(lin.terms) + 1
  <2>1. Len(lin.terms) \in Nat
    BY <1>1
  <2>2. QED
    BY <2>1
<1>3. QED
  BY <1>2, SumIs

\* So are the values of an expression,
LEMMA ExprOfTyped ==
  ASSUME NEW exp \in Exprs \cup Cmps, NEW numbers \in [Var -> SUBSET Values]
  PROVE  ExprOf(exp, numbers) \in SUBSET Values
<1>1. ASSUME NEW lin \in Linear PROVE SumOf(lin, numbers) \subseteq Values
  <2>1. SumOf(lin, numbers) \in SUBSET Values
    BY SumTyped
  <2>2. QED
    BY <2>1
<1>2. exp.opnd1 \in Linear /\ exp.opnd2 \in Linear
  BY InputsAssumption DEF InputsAssumption
<1>3. \A x, y \in Values : (x * y) % Modulus \in Values
  BY ProductIs
<1>4. SumOf(exp.opnd1, numbers) \subseteq Values /\ SumOf(exp.opnd2, numbers) \subseteq Values
  BY <1>1, <1>2
<1>5. QED
  BY <1>3, <1>4 DEF ExprOf

LEMMA ExprValuesTyped ==
  ASSUME NEW exp \in Exprs \cup Cmps, run \in Execution
  PROVE  ExprValues(exp) \subseteq Values
<1> DEFINE numbers == [v \in Var |-> {run.val[v]}]
<1>1. numbers \in [Var -> SUBSET Values]
  BY DEF Execution
<1>2. ExprValues(exp) = ExprOf(exp, numbers)
  BY DEF ExprValues
<1> HIDE DEF numbers
<1>3. QED
  BY <1>1, <1>2, ExprOfTyped

\* the answers to a query,
LEMMA AliasesIs ==
  ASSUME NEW a \in StateSet, NEW v PROVE Aliases(a, v) \in (SUBSET AliasId) \ {{}}
<1>1. a.elements \in InverseSetMap
  BY DEF StateSet
<1>2. QED
  BY <1>1, MapIs DEF Aliases, AliasId

LEMMA OffsetsAre ==
  ASSUME NEW c \in Child, NEW id \in AliasId
  PROVE  Offsets(c)[id] = IF id = "null" THEN {0} ELSE Values
BY AlsAssumption DEF AlsAssumption, AliasId, Offsets

LEMMA ReplacePointersTyped ==
  ASSUME NEW a \in StateSet PROVE ReplacePointers(a) \in [Var -> SUBSET Values]
<1>1. ASSUME NEW v \in Var PROVE QueryVal(a, v) \subseteq Values
  <2>1. a.child \in Child
    BY DEF StateSet, Child
  <2>2. 0 \in Values /\ Values \subseteq Int
    BY AlsAssumption DEF AlsAssumption, Values
  <2>3. ASSUME NEW id \in Aliases(a, v), NEW x \in a.child[v], NEW y \in Offsets(a.child)[id]
        PROVE  (x + y) % Modulus \in Values
    <3>1. id \in AliasId
      BY AliasesIs
    <3>2. Offsets(a.child)[id] \subseteq Values
      BY <2>1, <2>2, <3>1, OffsetsAre
    <3>3. x \in Values /\ y \in Values
      BY <2>1, <3>2 DEF Child
    <3>4. x \in Int /\ y \in Int
      BY <2>2, <3>3
    <3>5. x + y \in Int
      BY <3>4
    <3>6. QED
      BY <3>5, RemainderIs
  <2>4. QED
    BY <2>3 DEF QueryVal
<1>2. QED
  BY <1>1 DEF ReplacePointers

\* what an assigned expression may be,
LEMMA ChildOfTyped ==
  ASSUME NEW a \in StateSet, NEW exp \in Exprs
  PROVE  ChildOf(a, exp) \in SUBSET Values
<1> DEFINE numbers == IF exp.kind = "lin" THEN a.child ELSE ReplacePointers(a)
<1>1. numbers \in [Var -> SUBSET Values]
  BY ReplacePointersTyped DEF StateSet
<1>2. ChildOf(a, exp) = ExprOf(exp, numbers)
  BY DEF ChildOf
<1> HIDE DEF numbers
<1>3. QED
  BY <1>1, <1>2, ExprOfTyped

\* and its aliases are aliases: there is a way to choose one for each variable.
LEMMA AliasesOfTyped ==
  ASSUME NEW a \in StateSet, NEW exp \in Exprs
  PROVE  AliasesOf(a, exp) \in (SUBSET AliasId) \ {{}}
<1> DEFINE ts == exp.opnd1.terms
           chosen(f) == \A i \in DOMAIN f : f[i] \in Aliases(a, ts[i].var)
           some == [i \in DOMAIN ts |-> CHOOSE id \in Aliases(a, ts[i].var) : TRUE]
<1>1. ASSUME NEW D, NEW ids \in [D -> AliasId] PROVE SimplifyPtrSum(ids) \in AliasId
  <2> DEFINE pointers == {i \in DOMAIN ids : ids[i] # "null"}
  <2>1. pointers # {} => (CHOOSE i \in pointers : TRUE) \in D
    OBVIOUS
  <2>2. "null" \in AliasId /\ "bad" \in AliasId
    BY DEF AliasId
  <2> HIDE DEF pointers
  <2>3. SimplifyPtrSum(ids) = IF pointers = {} THEN "null"
                              ELSE IF \E i \in pointers : pointers = {i}
                              THEN ids[CHOOSE i \in pointers : TRUE] ELSE "bad"
    BY DEF SimplifyPtrSum, pointers
  <2>4. QED
    BY <2>1, <2>2, <2>3
<1>2. \A i \in DOMAIN ts : some[i] \in Aliases(a, ts[i].var) /\ some[i] \in AliasId
  <2>1. ASSUME NEW v PROVE /\ (CHOOSE id \in Aliases(a, v) : TRUE) \in Aliases(a, v)
                           /\ Aliases(a, v) \subseteq AliasId
    BY AliasesIs
  <2> HIDE DEF ts
  <2>2. QED
    BY <2>1
<1>3. some \in [DOMAIN ts -> AliasId] /\ chosen(some)
  <2> HIDE DEF ts
  <2> QED BY <1>2
<1>4. LinAliases(a, exp.opnd1) = {SimplifyPtrSum(ids) : ids \in {f \in [DOMAIN ts -> AliasId] : chosen(f)}}
  BY DEF LinAliases
<1>5. "null" \in AliasId
  BY DEF AliasId
<1> HIDE DEF ts, chosen, some
<1>6. LinAliases(a, exp.opnd1) \in (SUBSET AliasId) \ {{}}
  BY <1>1, <1>3, <1>4
<1>7. QED
  BY <1>5, <1>6 DEF AliasesOf

-----------------------------------------------------------------------------
(* The child *)

LEMMA ChildSetTyped ==
  ASSUME NEW c \in Child, NEW v \in Var, NEW offsets \in SUBSET Values
  PROVE  /\ ChildSet(c, v, offsets) \in Child
         /\ \/ \E w \in Var : ChildSet(c, v, offsets)[w] = {}
            \/ /\ ~\E w \in Var : c[w] = {}
               /\ ChildSet(c, v, offsets) = [c EXCEPT ![v] = offsets]
BY DEF Child, ChildSet, BottomChild

LEMMA ForgetTyped ==
  ASSUME NEW c \in Child, NEW ids
  PROVE  /\ Forget(c, ids) \in Child
         /\ \/ \E w \in Var : Forget(c, ids)[w] = {}
            \/ \A v \in Var : Forget(c, ids)[v] = IF v \in ids THEN Values ELSE c[v]
BY DEF Child, Forget

LEMMA ChildAssumeTyped ==
  ASSUME NEW c \in Child, NEW cmp
  PROVE  /\ ChildAssume(c, cmp) \in Child
         /\ \/ Var = {}
            \/ \E w \in Var : ChildAssume(c, cmp)[w] = {}
            \/ \A v \in Var \ VarsOf(cmp) : ChildAssume(c, cmp)[v] = c[v]
<1> DEFINE sums(d) == {x \in SumOf(cmp.opnd1, d) : Holds(x, cmp.op)}
           refined == [v \in Var |-> IF v \notin VarsOf(cmp) THEN c[v]
                                     ELSE {o \in c[v] : sums([c EXCEPT ![v] = {o}]) # {}}]
<1>1. ChildAssume(c, cmp) = IF sums(c) = {} \/ \E v \in Var : c[v] = {} THEN BottomChild ELSE refined
  BY DEF ChildAssume
<1>2. refined \in Child /\ \A v \in Var \ VarsOf(cmp) : refined[v] = c[v]
  <2> HIDE DEF sums
  <2> QED BY DEF Child
<1>3. BottomChild \in Child /\ (Var = {} \/ \E w \in Var : BottomChild[w] = {})
  BY DEF BottomChild, Child
<1> HIDE DEF sums, refined
<1>4. QED
  BY <1>1, <1>2, <1>3

-----------------------------------------------------------------------------
(* The operations *)

\* A state with a map that is its own inverse.
OkState == {a \in StateSet : Inverted(a.elements)}

LEMMA StateIs ==
  ASSUME NEW a \in OkState
  PROVE  /\ a \in StateSet /\ a.elements \in OkMap /\ a.elements \in OkMapOf(DOMAIN a.elements.fwd)
         /\ a.child \in Child /\ DOMAIN a.elements.fwd \subseteq Var
         /\ MissingTop(a) => IsBottom(a) \/ MissingIn(a.elements, a.child)
<1>1. a \in StateSet /\ a.elements \in OkMap /\ a.child \in Child
  BY DEF OkState, StateSet, OkMap, Child
<1>2. DOMAIN a.elements.fwd \subseteq Var
  BY <1>1, MapIs DEF OkMap
<1>3. QED
  BY <1>1, <1>2 DEF OkMapOf, MissingTop, MissingIn

LEMMA StateMade ==
  ASSUME NEW m \in OkMap, NEW c \in Child
  PROVE  /\ State(m, c) \in OkState
         /\ (\E w \in Var : c[w] = {}) \/ MissingIn(m, c) => MissingTop(State(m, c))
         /\ IsBottom(State(m, c)) <=> \E w \in Var : c[w] = {}
BY DEF State, OkState, StateSet, OkMap, Child, MissingTop, MissingIn, IsBottom

\* A variable gets new aliases and a new offset.
LEMMA WrittenOk ==
  ASSUME NEW a \in OkState, NEW v \in Var, NEW ids \in (SUBSET AliasId) \ {{}},
         NEW offsets \in SUBSET Values
  PROVE  LET b == State(Put(a.elements, v, ids), ChildSet(a.child, v, offsets))
         IN  b \in OkState /\ (MissingTop(a) => MissingTop(b))
<1> DEFINE m == Put(a.elements, v, ids)
           c == ChildSet(a.child, v, offsets)
<1>1. m \in OkMap /\ DOMAIN m.fwd = DOMAIN a.elements.fwd \cup {v}
  BY StateIs, PutOk DEF OkMapOf
<1>2. /\ c \in Child
      /\ \/ \E w \in Var : c[w] = {}
         \/ /\ ~\E w \in Var : a.child[w] = {}
            /\ c = [a.child EXCEPT ![v] = offsets]
  BY StateIs, ChildSetTyped
<1>3. ASSUME MissingTop(a) PROVE (\E w \in Var : c[w] = {}) \/ MissingIn(m, c)
  <2> HIDE DEF m, c
  <2>1. IsBottom(a) \/ MissingIn(a.elements, a.child)
    BY <1>3, StateIs
  <2>2. a.child \in Child
    BY StateIs
  <2>3. QED
    BY <1>1, <1>2, <2>1, <2>2 DEF MissingIn, IsBottom, Child
<1> HIDE DEF m, c
<1>4. State(m, c) \in OkState /\ (MissingTop(a) => MissingTop(State(m, c)))
  BY <1>1, <1>2, <1>3, StateMade
<1>5. QED
  BY <1>4 DEF m, c

LEMMA AssumedOk ==
  ASSUME NEW a \in OkState, NEW cmp
  PROVE  /\ AssumeState(a, cmp) \in OkState
         /\ MissingTop(a) /\ VarsOf(cmp) \subseteq DOMAIN a.elements.fwd
              => MissingTop(AssumeState(a, cmp))
<1> DEFINE D == DOMAIN a.elements.fwd
           numbers == {v \in VarsOf(cmp) : v \in D /\ a.elements.fwd[v] = {"null"}}
           onlyNumbers == cmp.op = "NEQ" \/ (cmp.op = "EQ" /\ Cardinality(VarsOf(cmp)) # 1)
           rebased == (VarsOf(cmp) \cap D) \ numbers
           m == AllNumbers(a.elements, rebased)
           c1 == ChildAssume(a.child, cmp)
           c2 == ChildAssume(Forget(a.child, rebased), cmp)
<1>1. AssumeState(a, cmp) = IF IsBottom(a) THEN a
                            ELSE IF onlyNumbers
                            THEN IF numbers = VarsOf(cmp) THEN State(a.elements, c1) ELSE a
                            ELSE State(m, c2)
  BY Zenon DEF AssumeState
<1>2. m \in OkMapOf(D)
  <2>1. rebased \subseteq D /\ a.elements \in OkMapOf(D)
    BY StateIs
  <2> HIDE DEF rebased, D
  <2>2. QED
    BY <2>1, AllNumbersOk
<1>3. /\ a.child \in Child /\ a.elements \in OkMap /\ m \in OkMap /\ D \subseteq Var
      /\ DOMAIN m.fwd = D /\ rebased \subseteq D
  <2> HIDE DEF m
  <2> QED BY <1>2, StateIs DEF OkMapOf
<1>4. Forget(a.child, rebased) \in Child
  <2> HIDE DEF rebased, m, D
  <2> QED BY <1>3, ForgetTyped
<1>5. c1 \in Child /\ c2 \in Child
  BY <1>3, <1>4, ChildAssumeTyped
<1>6. ASSUME MissingTop(a), VarsOf(cmp) \subseteq D, ~IsBottom(a)
      PROVE  /\ (\E w \in Var : c1[w] = {}) \/ MissingIn(a.elements, c1)
             /\ (\E w \in Var : c2[w] = {}) \/ MissingIn(m, c2)
  <2>1. MissingIn(a.elements, a.child)
    BY <1>6, StateIs
  <2>2. \/ Var = {} \/ \E w \in Var : c1[w] = {}
        \/ \A v \in Var \ VarsOf(cmp) : c1[v] = a.child[v]
    BY <1>3, ChildAssumeTyped
  <2>3. \/ Var = {} \/ \E w \in Var : c2[w] = {}
        \/ \A v \in Var \ VarsOf(cmp) : c2[v] = Forget(a.child, rebased)[v]
    BY <1>4, ChildAssumeTyped
  <2>4. ~\E w \in Var : a.child[w] = {}
    BY <1>6 DEF IsBottom
  <2>5. \A v \in Var : Forget(a.child, rebased)[v] = IF v \in rebased THEN Values ELSE a.child[v]
    <3> HIDE DEF rebased
    <3> QED BY <2>4 DEF Forget
  <2> HIDE DEF c1, c2, m, rebased, D
  <2>6. D = DOMAIN a.elements.fwd
    BY DEF D
  <2>7. QED
    BY <1>3, <1>6, <2>1, <2>2, <2>3, <2>5, <2>6 DEF MissingIn
<1> HIDE DEF c1, c2, m, rebased, onlyNumbers, numbers
<1>7. State(a.elements, c1) \in OkState /\ State(m, c2) \in OkState
  BY <1>3, <1>5, StateMade
<1>8. MissingTop(a) /\ VarsOf(cmp) \subseteq D /\ ~IsBottom(a)
        => MissingTop(State(a.elements, c1)) /\ MissingTop(State(m, c2))
  BY <1>3, <1>5, <1>6, StateMade
<1>9. QED
  BY <1>1, <1>7, <1>8

LEMMA KilledOk ==
  ASSUME NEW a \in OkState, NEW ids, ids \subseteq Var \cup Ptr
  PROVE  KillState(a, ids) \in OkState /\ (MissingTop(a) => MissingTop(KillState(a, ids)))
<1> DEFINE D == DOMAIN a.elements.fwd
           m1 == ErasedAll(a.elements, ids \cap Var)
           m == AllBad(m1, ids \cap Ptr)
           c == Forget(a.child, ids)
<1>1. KillState(a, ids) = State(m, c)
  BY Zenon DEF KillState
<1>2. IsFiniteSet(ids \cap Var)
  BY AlsAssumption, FS_Subset DEF AlsAssumption
<1>3. m1 \in OkMapOf(D \ (ids \cap Var))
  BY <1>2, StateIs, ErasedAllOk
<1>4. m \in OkMapOf(D \ (ids \cap Var))
  <2> HIDE DEF m1, D
  <2> QED BY <1>3, AllBadOk
<1>5. /\ c \in Child
      /\ \/ \E w \in Var : c[w] = {}
         \/ \A v \in Var : c[v] = IF v \in ids THEN Values ELSE a.child[v]
  BY StateIs, ForgetTyped
<1>6. IsBottom(a) => c = a.child
  BY DEF IsBottom, Forget
<1>7. ASSUME MissingTop(a) PROVE (\E w \in Var : c[w] = {}) \/ MissingIn(m, c)
  <2>1. IsBottom(a) \/ MissingIn(a.elements, a.child)
    BY <1>7, StateIs
  <2>2. DOMAIN m.fwd = D \ (ids \cap Var)
    BY <1>4 DEF OkMapOf
  <2> HIDE DEF m, c
  <2>3. QED
    BY <1>5, <1>6, <2>1, <2>2 DEF MissingIn, IsBottom
<1>8. m \in OkMap
  BY <1>4 DEF OkMapOf
<1> HIDE DEF m, c
<1>9. QED
  BY <1>1, <1>5, <1>7, <1>8, StateMade

LEMMA ProjectedOk ==
  ASSUME NEW a \in OkState, NEW gone \in SUBSET Var
  PROVE  LET b == State(ErasedAll(a.elements, gone), Forget(a.child, gone))
         IN  b \in OkState /\ (MissingTop(a) => MissingTop(b))
<1> DEFINE D == DOMAIN a.elements.fwd
           m == ErasedAll(a.elements, gone)
           c == Forget(a.child, gone)
<1>1. IsFiniteSet(gone)
  BY AlsAssumption, FS_Subset DEF AlsAssumption
<1>2. m \in OkMapOf(D \ gone)
  BY <1>1, StateIs, ErasedAllOk
<1>3. /\ c \in Child
      /\ \/ \E w \in Var : c[w] = {}
         \/ \A v \in Var : c[v] = IF v \in gone THEN Values ELSE a.child[v]
  BY StateIs, ForgetTyped
<1>4. IsBottom(a) => c = a.child
  BY DEF IsBottom, Forget
<1>5. ASSUME MissingTop(a) PROVE (\E w \in Var : c[w] = {}) \/ MissingIn(m, c)
  <2>1. IsBottom(a) \/ MissingIn(a.elements, a.child)
    BY <1>5, StateIs
  <2>2. DOMAIN m.fwd = D \ gone
    BY <1>2 DEF OkMapOf
  <2> HIDE DEF m, c
  <2>3. QED
    BY <1>3, <1>4, <2>1, <2>2 DEF MissingIn, IsBottom
<1>6. m \in OkMap
  BY <1>2 DEF OkMapOf
<1> HIDE DEF m, c
<1>7. State(m, c) \in OkState /\ (MissingTop(a) => MissingTop(State(m, c)))
  BY <1>3, <1>5, <1>6, StateMade
<1>8. QED
  BY <1>7 DEF m, c

\* The new names replace the old ones.
LEMMA EquateKilledOk ==
  ASSUME NEW a \in OkState, NEW pairs \in Seq(Pair)
  PROVE  LET b == State(RenamedVars(RenamedAliases(a.elements, pairs), pairs),
                        IF IsBottom(a) THEN a.child ELSE ChildEquateKill(a.child, pairs))
         IN  b \in OkState /\ (MissingTop(a) => MissingTop(b))
<1> DEFINE D == DOMAIN a.elements.fwd
           m1 == RenamedAliases(a.elements, pairs)
           m == RenamedVars(m1, pairs)
           c == IF IsBottom(a) THEN a.child ELSE ChildEquateKill(a.child, pairs)
<1>1. m1 \in OkMapOf(D)
  BY StateIs, RenamedAliasesOk
<1> HIDE DEF m1
<1>2. m1 \in OkMap /\ DOMAIN m1.fwd = D /\ a.child \in Child
  BY <1>1, StateIs DEF OkMapOf
<1>3. /\ m \in OkMap /\ ChildEquateKill(a.child, pairs) \in Child
      /\ MissingIn(m1, a.child) => MissingIn(m, ChildEquateKill(a.child, pairs))
  BY <1>2, RenamedOk
<1> HIDE DEF m
<1>4. c \in Child
  BY <1>2, <1>3
<1>5. ASSUME MissingTop(a) PROVE (\E w \in Var : c[w] = {}) \/ MissingIn(m, c)
  <2>1. CASE IsBottom(a)
    BY <2>1 DEF IsBottom
  <2>2. CASE ~IsBottom(a)
    <3>1. MissingIn(a.elements, a.child)
      BY <1>5, <2>2, StateIs
    <3>2. MissingIn(m1, a.child)
      BY <1>2, <3>1 DEF MissingIn
    <3>3. QED
      BY <1>3, <2>2, <3>2
  <2>3. QED
    BY <2>1, <2>2
<1> HIDE DEF c
<1>6. State(m, c) \in OkState /\ (MissingTop(a) => MissingTop(State(m, c)))
  BY <1>3, <1>4, <1>5, StateMade
<1>7. QED
  BY <1>6 DEF m, c, m1

\* Of two states only the variables both know are kept, and only of those that
\* both know something is known.
LEMMA JoinedOk ==
  ASSUME NEW a \in OkState, NEW b \in OkState
  PROVE  /\ Joined(a, b) \in OkState
         /\ MissingTop(a) /\ MissingTop(b) => MissingTop(Joined(a, b))
<1> DEFINE m == Compat(FALSE, a, b)
           c == [v \in Var |-> a.child[v] \cup b.child[v]]
<1>1. m \in OkMapOf(DOMAIN a.elements.fwd \cap DOMAIN b.elements.fwd)
  BY StateIs, CompatOk
<1>2. m \in OkMap /\ DOMAIN m.fwd = DOMAIN a.elements.fwd \cap DOMAIN b.elements.fwd
  BY <1>1 DEF OkMapOf
<1>3. a.child \in Child /\ b.child \in Child /\ c \in Child
  BY StateIs DEF Child
<1>4. ASSUME MissingTop(a), MissingTop(b), ~IsBottom(a), ~IsBottom(b) PROVE MissingIn(m, c)
  <2>1. MissingIn(a.elements, a.child) /\ MissingIn(b.elements, b.child)
    BY <1>4, StateIs
  <2> HIDE DEF m
  <2>2. QED
    BY <1>2, <1>3, <2>1 DEF MissingIn, Child
<1>5. Joined(a, b) = IF IsBottom(a) THEN b ELSE IF IsBottom(b) THEN a ELSE State(m, c)
  BY DEF Joined
<1> HIDE DEF m, c
<1>6. State(m, c) \in OkState
  BY <1>2, <1>3, StateMade
<1>7. MissingTop(a) /\ MissingTop(b) /\ ~IsBottom(a) /\ ~IsBottom(b) => MissingTop(State(m, c))
  BY <1>2, <1>3, <1>4, StateMade
<1>8. QED
  BY <1>5, <1>6, <1>7

\* A box keeps the offsets of the newer state or those that did not grow.
LEMMA BoxedOk ==
  ASSUME NEW a \in OkState, NEW b \in OkState
  PROVE  /\ Boxed(a, b) \in OkState
         /\ MissingTop(a) /\ MissingTop(b) /\ DOMAIN b.elements.fwd \subseteq DOMAIN a.elements.fwd
              => MissingTop(Boxed(a, b))
<1> DEFINE m1 == Compat(FALSE, a, b)
           m2 == Compat(TRUE, a, b)
           D == DOMAIN a.elements.fwd \cap DOMAIN b.elements.fwd
           c == WidenedChild(a.child, b.child)
<1>1. m1 \in OkMapOf(D) /\ m2 \in OkMapOf(D)
  BY StateIs, CompatOk
<1>2. m1 \in OkMap /\ DOMAIN m1.fwd = D /\ m2 \in OkMap /\ DOMAIN m2.fwd = D
  BY <1>1 DEF OkMapOf
<1>3. a.child \in Child /\ b.child \in Child /\ c \in Child
  BY StateIs DEF Child, WidenedChild
<1>4. ASSUME MissingTop(b), DOMAIN b.elements.fwd \subseteq DOMAIN a.elements.fwd, ~IsBottom(b)
      PROVE  MissingIn(m1, b.child) /\ MissingIn(m2, c)
  <2>1. MissingIn(b.elements, b.child)
    BY <1>4, StateIs
  <2>2. D = DOMAIN b.elements.fwd
    BY <1>4
  <2>3. \A v \in Var \ D : b.child[v] = Values
    BY <2>1, <2>2 DEF MissingIn
  <2> HIDE DEF m1, m2, D
  <2>4. MissingIn(m1, b.child)
    BY <1>2, <2>3 DEF MissingIn
  <2>5. ASSUME NEW v \in Var \ D PROVE c[v] = Values
    <3>1. a.child[v] \subseteq Values /\ b.child[v] = Values
      BY <1>3, <2>3 DEF Child
    <3>2. c[v] = IF b.child[v] \subseteq a.child[v] THEN a.child[v] ELSE Values
      BY DEF WidenedChild
    <3> HIDE DEF c
    <3>3. QED
      BY <3>1, <3>2
  <2> HIDE DEF c
  <2>6. MissingIn(m2, c)
    BY <1>2, <2>5 DEF MissingIn
  <2>7. QED
    BY <2>4, <2>6
<1>5. Boxed(a, b) = IF IsBottom(a) THEN b ELSE IF IsBottom(b) THEN a
                    ELSE IF GreaterEq(a, b) THEN State(m1, b.child) ELSE State(m2, c)
  BY DEF Boxed, Narrowed, Widened
<1> HIDE DEF m1, m2, c
<1>6. State(m1, b.child) \in OkState /\ State(m2, c) \in OkState
  BY <1>2, <1>3, StateMade
<1>7. MissingTop(b) /\ DOMAIN b.elements.fwd \subseteq DOMAIN a.elements.fwd /\ ~IsBottom(b)
        => MissingTop(State(m1, b.child)) /\ MissingTop(State(m2, c))
  BY <1>2, <1>3, <1>4, StateMade
<1>8. QED
  BY <1>5, <1>6, <1>7

-----------------------------------------------------------------------------
(* Every step *)

LEMMA InvIs ==
  IInv <=> als \in OkState /\ (run = Dead \/ run \in Execution)
BY DEF IInv, TypeOK, WayBack, OkState, Execution

\* The execution goes on with a value.
LEMMA ContinueOk ==
  ASSUME IInv, NEW a, NEW v \in Var, NEW values, Alive => values \subseteq Values, Continue(a, v, values)
  PROVE  als' = a /\ (run' = Dead \/ run' \in Execution)
<1>1. CASE Alive
  <2>1. run \in Execution
    BY <1>1, InvIs DEF Alive
  <2>2. \E x \in Values : run' = [run EXCEPT !.val[v] = x]
    BY <1>1 DEF Continue
  <2>3. QED
    BY <2>1, <2>2 DEF Execution, Continue
<1>2. CASE ~Alive
  BY <1>2 DEF Continue
<1>3. QED
  BY <1>1, <1>2

\* A set of pointers has aliases, and stands for values.
LEMMA PointersOk ==
  ASSUME NEW ptrs \in PtrSets
  PROVE  /\ Ids(ptrs) \in (SUBSET AliasId) \ {{}}
         /\ \A some \in SUBSET ptrs : OffsetsOf(some) \in SUBSET Values
         /\ run \in Execution => Pointed(ptrs) \subseteq Values
<1>1. ptrs # {} /\ \A p \in ptrs : p.id \in AliasId /\ p.offset \subseteq Values
  BY InputsAssumption DEF InputsAssumption
<1>2. Ids(ptrs) \in (SUBSET AliasId) \ {{}}
  BY <1>1 DEF Ids
<1>3. \A some \in SUBSET ptrs : OffsetsOf(some) \in SUBSET Values
  BY <1>1 DEF OffsetsOf
<1>4. ASSUME run \in Execution, NEW p \in ptrs, p.id # "bad", NEW o \in p.offset
      PROVE  (Base(run.at, p.id) + o) % Modulus \in Values
  <2>1. p.id \in Ptr \/ p.id = "null"
    BY <1>1, <1>4 DEF AliasId
  <2>2. Base(run.at, p.id) \in Int /\ o \in Int
    BY <1>1, <1>4, <2>1 DEF Base, Execution, Values
  <2>3. QED
    BY <2>2, RemainderIs
<1>5. run \in Execution => Pointed(ptrs) \subseteq Values
  BY <1>4 DEF Pointed
<1>6. QED
  BY <1>2, <1>3, <1>5

LEMMA InitOk == Init => IInv /\ MissingIsTop
<1> SUFFICES ASSUME Init PROVE IInv /\ MissingIsTop
  OBVIOUS
<1>1. NoElements \in OkMap /\ TopChild \in Child
  BY EmptyOk DEF OkMapOf, TopChild, Child
<1>2. MissingIn(NoElements, TopChild)
  BY DEF MissingIn, TopChild
<1>3. als \in OkState /\ MissingTop(als)
  BY <1>1, <1>2, StateMade DEF Init, Top
<1>4. run \in Execution
  BY DEF Init, Runs, Execution
<1>5. QED
  BY <1>3, <1>4, InvIs DEF MissingIsTop

\* The invariant of the step after.
LEMMA InvNext ==
  ASSUME als' \in OkState, run' = Dead \/ run' \in Execution PROVE IInv'
<1>1. als' \in StateSet /\ Inverted(als.elements)'
  BY DEF OkState, Inverted
<1>2. QED
  BY <1>1 DEF IInv, TypeOK, WayBack, Execution, OkState

\* A state that another path or an earlier visit brings.
LEMMA OtherOk == ASSUME NEW other \in Others PROVE other \in OkState /\ MissingTop(other)
BY InputsAssumption DEF InputsAssumption, OkState

\* The execution of the other path.
LEMMA ElsewhereOk ==
  ASSUME IInv, Alive, NEW other PROVE run \in Execution /\ Elsewhere(other) \subseteq {Dead} \cup Execution
<1>1. run \in Execution
  BY InvIs DEF Alive
<1>2. run.at \in [Ptr -> Values]
  BY <1>1 DEF Execution
<1>3. QED
  BY <1>1, <1>2 DEF Elsewhere, Execution

\* What a step leaves: a state, an execution, and nothing known of what is not in the map.
LEMMA StepOk ==
  ASSUME IInv, Next
  PROVE  /\ als' \in OkState /\ (run' = Dead \/ run' \in Execution)
         /\ ~Untracked /\ MissingTop(als) => MissingTop(als')
<1> DEFINE Goal == /\ als' \in OkState /\ (run' = Dead \/ run' \in Execution)
                   /\ ~Untracked /\ MissingTop(als) => MissingTop(als')
<1>1. als \in OkState /\ (run = Dead \/ run \in Execution)
  BY InvIs
<1>2. /\ als \in StateSet /\ als.elements \in OkMap /\ als.child \in Child
  BY <1>1, StateIs
<1>3. Alive => run \in Execution
  BY <1>1 DEF Alive
<1> USE DEF Goal
<1>4. ASSUME NEW lhs \in Var, NEW exp \in Exprs, Assign(lhs, exp) PROVE Goal
  <2> DEFINE ids == AliasesOf(als, exp)
             offsets == ChildOf(als, exp)
             b == State(Put(als.elements, lhs, ids), ChildSet(als.child, lhs, offsets))
  <2>1. ids \in (SUBSET AliasId) \ {{}} /\ offsets \in SUBSET Values
    BY <1>2, AliasesOfTyped, ChildOfTyped
  <2>2. b \in OkState /\ (MissingTop(als) => MissingTop(b))
    <3> HIDE DEF ids, offsets
    <3> QED BY <1>1, <2>1, WrittenOk
  <2>3. Alive => ExprValues(exp) \subseteq Values
    BY <1>3, ExprValuesTyped
  <2>4. Continue(b, lhs, ExprValues(exp))
    BY <1>4 DEF Assign
  <2> HIDE DEF b
  <2>5. als' = b /\ (run' = Dead \/ run' \in Execution)
    BY <2>3, <2>4, ContinueOk
  <2>6. QED
    BY <2>2, <2>5
<1>5. ASSUME NEW lhs \in Var, NEW exp \in Exprs, WeakAssign(lhs, exp) PROVE Goal
  <2> DEFINE known == IF lhs \in DOMAIN als.elements.fwd THEN als.elements.fwd[lhs] ELSE {}
             ids == known \cup AliasesOf(als, exp)
             offsets == als.child[lhs] \cup ChildOf(als, exp)
             b == State(Put(als.elements, lhs, ids), ChildSet(als.child, lhs, offsets))
             values == ExprValues(exp) \cup {run.val[lhs]}
  <2>1. AliasesOf(als, exp) \in (SUBSET AliasId) \ {{}} /\ ChildOf(als, exp) \in SUBSET Values
    BY <1>2, AliasesOfTyped, ChildOfTyped
  <2>2. known \subseteq AliasId
    BY <1>2, MapIs DEF OkMap
  <2>3. als.child[lhs] \in SUBSET Values
    BY <1>2 DEF Child
  <2> HIDE DEF known
  <2>4. ids \in (SUBSET AliasId) \ {{}} /\ offsets \in SUBSET Values
    BY <2>1, <2>2, <2>3
  <2>5. b \in OkState /\ (MissingTop(als) => MissingTop(b))
    <3> HIDE DEF ids, offsets
    <3> QED BY <1>1, <2>4, WrittenOk
  <2>6. Alive => values \subseteq Values
    <3>1. ASSUME Alive PROVE run.val[lhs] \in Values /\ ExprValues(exp) \subseteq Values
      BY <1>3, <3>1, ExprValuesTyped DEF Execution
    <3>2. QED
      BY <3>1
  <2>7. Continue(b, lhs, values)
    BY <1>5 DEF WeakAssign, known
  <2> HIDE DEF b, values
  <2>8. als' = b /\ (run' = Dead \/ run' \in Execution)
    BY <2>6, <2>7, ContinueOk
  <2>9. QED
    BY <2>5, <2>8
<1>6. ASSUME NEW lhs \in Var, NEW ptrs \in PtrSets, AssignPtrs(lhs, ptrs) PROVE Goal
  <2> DEFINE good == {p \in ptrs : p.id # "bad"}
             offsets == IF good = {} THEN Values ELSE OffsetsOf(good)
             b == State(Put(als.elements, lhs, Ids(ptrs)), ChildSet(als.child, lhs, offsets))
             values == IF Alive THEN Pointed(ptrs) ELSE {}
  <2>1. Ids(ptrs) \in (SUBSET AliasId) \ {{}} /\ offsets \in SUBSET Values
    BY PointersOk
  <2>2. b \in OkState /\ (MissingTop(als) => MissingTop(b))
    <3> HIDE DEF offsets
    <3> QED BY <1>1, <2>1, WrittenOk
  <2>3. Alive => values \subseteq Values
    BY <1>3, PointersOk
  <2>4. Continue(b, lhs, values)
    BY <1>6 DEF AssignPtrs
  <2> HIDE DEF b, values
  <2>5. als' = b /\ (run' = Dead \/ run' \in Execution)
    BY <2>3, <2>4, ContinueOk
  <2>6. QED
    BY <2>2, <2>5
<1>7. ASSUME NEW lhs \in Var, NEW ptrs \in PtrSets, AssumePtrs(lhs, ptrs) PROVE Goal
  <2> DEFINE offsets == als.child[lhs] \cap OffsetsOf(ptrs)
             b == State(Put(als.elements, lhs, Ids(ptrs)), ChildSet(als.child, lhs, offsets))
             values == IF Alive THEN Pointed(ptrs) ELSE {}
  <2>1. Ids(ptrs) \in (SUBSET AliasId) \ {{}} /\ OffsetsOf(ptrs) \in SUBSET Values
    BY PointersOk
  <2>2. offsets \in SUBSET Values
    BY <2>1
  <2>3. b \in OkState /\ (MissingTop(als) => MissingTop(b))
    <3> HIDE DEF offsets
    <3> QED BY <1>1, <2>1, <2>2, WrittenOk
  <2>4. Alive => values \subseteq Values
    BY <1>3, PointersOk
  <2>5. Continue(b, lhs, values)
    BY <1>7 DEF AssumePtrs
  <2> HIDE DEF b, values
  <2>6. als' = b /\ (run' = Dead \/ run' \in Execution)
    BY <2>4, <2>5, ContinueOk
  <2>7. QED
    BY <2>3, <2>6
<1>8. ASSUME NEW cmp \in Cmps, Assume(cmp) PROVE Goal
  <2>1. /\ AssumeState(als, cmp) \in OkState
        /\ MissingTop(als) /\ VarsOf(cmp) \subseteq DOMAIN als.elements.fwd
             => MissingTop(AssumeState(als, cmp))
    BY <1>1, AssumedOk
  <2>2. als' = AssumeState(als, cmp) /\ run' \in {run, Dead}
    BY <1>8 DEF Assume
  <2>3. ~Untracked => VarsOf(cmp) \subseteq DOMAIN als.elements.fwd
    BY <1>8 DEF Assume
  <2>4. QED
    BY <1>1, <2>1, <2>2, <2>3
<1>9. ASSUME NEW id \in Var \cup Ptr, Kill({id}) PROVE Goal
  <2>1. KillState(als, {id}) \in OkState /\ (MissingTop(als) => MissingTop(KillState(als, {id})))
    BY <1>1, KilledOk
  <2>2. als' = KillState(als, {id}) /\ (run' = Dead \/ run' \in Runs)
    BY <1>9 DEF Kill
  <2>3. Runs \subseteq Execution
    BY DEF Runs, Execution
  <2>4. QED
    BY <2>1, <2>2, <2>3
<1>10. ASSUME NEW ids \in SUBSET Var, Project(ids) PROVE Goal
  <2> DEFINE gone == Var \ ids
             b == State(ErasedAll(als.elements, gone), Forget(als.child, gone))
  <2>1. gone \in SUBSET Var
    OBVIOUS
  <2>2. als' = b /\ run' = run
    BY <1>10 DEF Project
  <2>3. b \in OkState /\ (MissingTop(als) => MissingTop(b))
    <3> HIDE DEF gone
    <3> QED BY <1>1, <2>1, ProjectedOk
  <2> HIDE DEF b
  <2>4. QED
    BY <1>1, <2>2, <2>3
<1>11. ASSUME NEW pairs \in Renames, EquateKill(pairs) PROVE Goal
  <2> DEFINE b == State(RenamedVars(RenamedAliases(als.elements, pairs), pairs),
                        IF IsBottom(als) THEN als.child ELSE ChildEquateKill(als.child, pairs))
  <2>1. pairs \in Seq(Pair)
    BY InputsAssumption DEF InputsAssumption, Pair
  <2>2. als' = b
    BY <1>11 DEF EquateKill
  <2>3. b \in OkState /\ (MissingTop(als) => MissingTop(b))
    BY <1>1, <2>1, EquateKilledOk
  <2>4. run' = Dead \/ run' \in Execution
    <3>1. CASE Alive
      <4>1. run' = Sq!FoldLeft(RenamedRun, run, pairs)
        BY <1>11, <3>1, Zenon DEF EquateKill
      <4>2. QED
        BY <1>3, <2>1, <3>1, <4>1, RunRenamed
    <3>2. CASE ~Alive
      BY <1>11, <3>2 DEF EquateKill
    <3>3. QED
      BY <3>1, <3>2
  <2> HIDE DEF b
  <2>5. QED
    BY <2>2, <2>3, <2>4
<1>12. ASSUME NEW other \in Others, Join(other) PROVE Goal
  <2>1. other \in OkState /\ MissingTop(other)
    BY OtherOk
  <2>2. als' = Joined(als, other) /\ Alive /\ run' \in {run} \cup Elsewhere(other)
    BY <1>12 DEF Join
  <2>3. Joined(als, other) \in OkState /\ (MissingTop(als) => MissingTop(Joined(als, other)))
    BY <1>1, <2>1, JoinedOk
  <2>4. run' = Dead \/ run' \in Execution
    BY <1>3, <2>2, ElsewhereOk
  <2>5. QED
    BY <2>2, <2>3, <2>4
<1>13. ASSUME NEW other \in Others, Box(other) PROVE Goal
  <2>1. other \in OkState /\ MissingTop(other)
    BY OtherOk
  <2>2. als' = Boxed(als, other) /\ Alive /\ run' \in Elsewhere(other)
    BY <1>13 DEF Box
  <2>3. ~Untracked => DOMAIN other.elements.fwd \subseteq DOMAIN als.elements.fwd
    BY <1>13 DEF Box
  <2>4. /\ Boxed(als, other) \in OkState
        /\ ~Untracked /\ MissingTop(als) => MissingTop(Boxed(als, other))
    BY <1>1, <2>1, <2>3, BoxedOk
  <2>5. run' = Dead \/ run' \in Execution
    BY <2>2, ElsewhereOk
  <2>6. QED
    BY <2>2, <2>4, <2>5
<1> HIDE DEF Goal
<1>14. Goal
  BY <1>4, <1>5, <1>6, <1>7, <1>8, <1>9, <1>10, <1>11, <1>12, <1>13 DEF Next
<1>15. QED
  BY <1>14 DEF Goal

\* A step keeps the invariant, and what is known of variables that are not in the map.
LEMMA NextOk ==
  ASSUME IInv, [Next]_vars PROVE IInv' /\ (~Untracked /\ MissingIsTop => MissingIsTop')
<1>1. CASE Next
  <2>1. /\ als' \in OkState /\ (run' = Dead \/ run' \in Execution)
        /\ ~Untracked /\ MissingTop(als) => MissingTop(als')
    BY <1>1, StepOk
  <2>2. IInv'
    BY <2>1, InvNext
  <2>3. ~Untracked /\ MissingIsTop => MissingIsTop'
    BY <2>1 DEF MissingIsTop, MissingTop, IsBottom
  <2>4. QED
    BY <2>2, <2>3
<1>2. CASE UNCHANGED vars
  <2>1. als' = als /\ run' = run
    BY <1>2 DEF vars
  <2>2. als \in OkState /\ (run = Dead \/ run \in Execution)
    BY InvIs
  <2>3. IInv'
    BY <2>1, <2>2, InvNext
  <2>4. MissingIsTop => MissingIsTop'
    BY <2>1 DEF MissingIsTop, MissingTop, IsBottom
  <2>5. QED
    BY <2>3, <2>4
<1>3. QED
  BY <1>1, <1>2

-----------------------------------------------------------------------------
(* Remainders *)

LEMMA ModulusIs == Modulus \in Nat /\ Modulus > 0 /\ Values = 0 .. Modulus - 1 /\ Values \subseteq Int /\ 0 \in Values
BY AlsAssumption DEF AlsAssumption, Values

\* A remainder is the only value at its distance.
LEMMA RemainderOnly ==
  ASSUME NEW x \in Int, NEW r \in Values, NEW q \in Int, x = r + Modulus * q
  PROVE  x % Modulus = r
<1>1. Modulus \in Nat /\ Modulus > 0 /\ r \in Int /\ 0 <= r /\ r < Modulus
  BY ModulusIs
<1> DEFINE d == x \div Modulus
           y == x % Modulus
<1>2. d \in Int /\ y \in Int /\ 0 <= y /\ y < Modulus /\ x = Modulus * d + y
  <2>1. x = Modulus * (x \div Modulus) + (x % Modulus)
    BY <1>1
  <2>2. x \div Modulus \in Int /\ x % Modulus \in 0 .. Modulus - 1
    BY <1>1
  <2>3. QED
    BY <1>1, <2>1, <2>2
<1> HIDE DEF d, y
<1>3. y - r = Modulus * (q - d)
  BY <1>1, <1>2
<1>4. q - d > 0 => Modulus * (q - d) >= Modulus
  BY <1>1, <1>2
<1>5. q - d < 0 => Modulus * (q - d) <= -Modulus
  BY <1>1, <1>2
<1>6. q - d \in Int /\ (q - d = 0 => Modulus * (q - d) = 0)
  BY <1>1, <1>2
<1>7. y = r
  <2> DEFINE e == Modulus * (q - d)
             f == q - d
  <2>1. e \in Int /\ f \in Int /\ (f > 0 => e >= Modulus) /\ (f < 0 => e <= -Modulus) /\ (f = 0 => e = 0) /\ y - r = e
    BY <1>1, <1>3, <1>4, <1>5, <1>6
  <2> HIDE DEF e, f
  <2>2. QED
    BY <1>1, <1>2, <2>1
<1>8. QED
  BY <1>7 DEF y

LEMMA Remainder == ASSUME NEW x \in Int PROVE \E q \in Int : x = (x % Modulus) + Modulus * q
<1>1. Modulus \in Nat /\ Modulus > 0
  BY ModulusIs
<1> DEFINE d == x \div Modulus
           r == x % Modulus
<1>2. x = Modulus * d + r /\ d \in Int /\ r \in Int
  BY <1>1
<1> HIDE DEF d, r
<1>3. x = r + Modulus * d
  BY <1>1, <1>2
<1>4. QED
  BY <1>2, <1>3 DEF r

\* Numbers a multiple apart have the same remainder.
LEMMA SameRemainder ==
  ASSUME NEW x \in Int, NEW y \in Int, NEW q \in Int, x = y + Modulus * q
  PROVE  x % Modulus = y % Modulus
<1>1. Modulus \in Int /\ y % Modulus \in Values /\ y % Modulus \in Int
  BY ModulusIs, RemainderIs
<1>2. PICK p \in Int : y = (y % Modulus) + Modulus * p
  BY Remainder
<1> DEFINE r == y % Modulus
<1>3. r \in Values /\ r \in Int /\ y = r + Modulus * p
  BY <1>1, <1>2
<1> HIDE DEF r
<1>4. x = r + Modulus * (p + q) /\ p + q \in Int
  <2>1. Modulus * (p + q) = Modulus * p + Modulus * q
    BY <1>1
  <2>2. QED
    BY <1>1, <1>3, <2>1
<1>5. x % Modulus = r
  BY <1>3, <1>4, RemainderOnly
<1>6. QED
  BY <1>5 DEF r

LEMMA ValueIs == ASSUME NEW x \in Values PROVE x \in Int /\ x % Modulus = x
<1>1. Modulus \in Int /\ x \in Int /\ x = x + Modulus * 0 /\ 0 \in Int
  BY ModulusIs
<1>2. QED
  BY <1>1, RemainderOnly

\* An offset and what it is an offset to are the value.
LEMMA OffsetBack ==
  ASSUME NEW x \in Values, NEW b \in Int
  PROVE  /\ (((x - b) % Modulus) + b) % Modulus = x
         /\ (x - b) % Modulus \in Values
<1>1. Modulus \in Int /\ x \in Int /\ x - b \in Int
  BY ModulusIs
<1>2. (x - b) % Modulus \in Values /\ (x - b) % Modulus \in Int
  BY <1>1, ModulusIs, RemainderIs
<1>3. PICK q \in Int : x - b = ((x - b) % Modulus) + Modulus * q
  BY <1>1, Remainder
<1> DEFINE y == (x - b) % Modulus
<1>4. y \in Int /\ x - b = y + Modulus * q
  BY <1>2, <1>3
<1> HIDE DEF y
<1>5. y + b = x + Modulus * (-q) /\ y + b \in Int /\ -q \in Int
  <2>1. Modulus * (-q) = -(Modulus * q) /\ Modulus * q \in Int
    BY <1>1
  <2> DEFINE k == Modulus * q
  <2> HIDE DEF k
  <2>2. y + b = x + (-k)
    BY <1>1, <1>4, <2>1 DEF k
  <2>3. QED
    BY <1>4, <2>1, <2>2 DEF k
<1>6. (y + b) % Modulus = x
  BY <1>1, <1>5, RemainderOnly
<1>7. QED
  BY <1>2, <1>6 DEF y

LEMMA OffsetOf ==
  ASSUME NEW o \in Values, NEW b \in Int
  PROVE  (((b + o) % Modulus) - b) % Modulus = o
<1>1. Modulus \in Int /\ o \in Int /\ b + o \in Int
  BY ModulusIs
<1>2. (b + o) % Modulus \in Int
  BY <1>1, ModulusIs, RemainderIs
<1>3. PICK q \in Int : b + o = ((b + o) % Modulus) + Modulus * q
  BY <1>1, Remainder
<1> DEFINE y == (b + o) % Modulus
<1>4. y \in Int /\ b + o = y + Modulus * q
  BY <1>2, <1>3
<1> HIDE DEF y
<1>5. y - b = o + Modulus * (-q) /\ y - b \in Int /\ -q \in Int
  <2>1. Modulus * (-q) = -(Modulus * q) /\ Modulus * q \in Int
    BY <1>1
  <2> DEFINE k == Modulus * q
  <2> HIDE DEF k
  <2>2. y - b = o + (-k)
    BY <1>1, <1>4, <2>1 DEF k
  <2>3. QED
    BY <1>4, <2>1, <2>2 DEF k
<1>6. (y - b) % Modulus = o
  BY <1>5, RemainderOnly
<1>7. QED
  BY <1>6 DEF y

\* A sum of what is at some distances is at the sum of the distances.
LEMMA SumApart ==
  ASSUME NEW s \in Int, NEW x \in Int, NEW b \in Int, NEW r \in Int, NEW d \in Int
  PROVE  (s * ((x - b) % Modulus) + ((r - d) % Modulus)) % Modulus
           = (((s * x + r) % Modulus) - (s * b + d)) % Modulus
<1> DEFINE y == (x - b) % Modulus
           u == (r - d) % Modulus
           t == s * x + r
           w == t % Modulus
<1>1. Modulus \in Int /\ t \in Int /\ x - b \in Int /\ r - d \in Int /\ s * b \in Int /\ s * x \in Int
  BY ModulusIs
<1>2. y \in Int /\ u \in Int /\ w \in Int
  BY <1>1, ModulusIs, RemainderIs
<1>3. PICK p \in Int : x - b = y + Modulus * p
  BY <1>1, Remainder
<1>4. PICK q \in Int : r - d = u + Modulus * q
  BY <1>1, Remainder
<1>5. PICK k \in Int : t = w + Modulus * k
  <2> HIDE DEF t
  <2> QED BY <1>1, Remainder
<1> DEFINE left == s * y + u
           right == w - (s * b + d)
           n == k - s * p - q
<1>6. left \in Int /\ right \in Int /\ n \in Int
  BY <1>1, <1>2
<1>7. left = right + Modulus * n
  <2>1. y = x - b - Modulus * p /\ u = r - d - Modulus * q /\ w = s * x + r - Modulus * k
    <3> HIDE DEF y, u, w
    <3> QED BY <1>1, <1>2, <1>3, <1>4, <1>5
  <2> HIDE DEF y, u, w
  <2>2. s * y = s * x - s * b - Modulus * (s * p)
    BY <1>1, <1>2, <2>1
  <2>3. QED
    BY <1>1, <1>2, <2>1, <2>2
<1> HIDE DEF left, right, n
<1>8. left % Modulus = right % Modulus
  BY <1>6, <1>7, SameRemainder
<1>9. QED
  BY <1>8 DEF left, right

\* The values of a term, and what they are added to.
LEMMA TermIs ==
  ASSUME NEW lin \in Linear, NEW i \in 1 .. Len(lin.terms)
  PROVE  lin.terms[i].scale \in Int /\ lin.terms[i].var \in Var
<1> DEFINE T == [scale : Int, var : Var]
<1>1. lin.terms \in Seq(T)
  BY DEF Linear
<1>2. lin.terms[i] \in T
  <2> HIDE DEF T
  <2> QED BY <1>1
<1>3. QED
  BY <1>2

\* A sum of values of which at most one is not an offset itself, but an offset to
\* a base that is not scaled, is an offset to the same base.
LEMMA SumApartAll ==
  ASSUME NEW lin \in Linear, NEW val \in [Var -> Values], NEW numbers \in [Var -> SUBSET Values],
         NEW j \in 0 .. Len(lin.terms), NEW B \in Int,
         \A i \in 1 .. Len(lin.terms) :
           IF i = j
           THEN lin.terms[i].scale = 1 /\ (val[lin.terms[i].var] - B) % Modulus \in numbers[lin.terms[i].var]
           ELSE val[lin.terms[i].var] \in numbers[lin.terms[i].var],
         NEW x \in SumOf(lin, [v \in Var |-> {val[v]}])
  PROVE  (x - (IF j = 0 THEN 0 ELSE B)) % Modulus \in SumOf(lin, numbers)
<1> DEFINE ts == lin.terms
           n == Len(ts)
           single == [v \in Var |-> {val[v]}]
           D(i) == IF j >= i THEN B ELSE 0
<1>1. single \in [Var -> SUBSET Values]
  OBVIOUS
<1>2. PICK F : /\ SumOf(lin, single) = F[1] /\ F[n + 1] = lin.c
               /\ \A i \in 1 .. n : F[i] = Added(single, ts[i], F[i + 1])
               /\ \A i \in 1 .. n + 1 : F[i] \in SUBSET Values
  <2> HIDE DEF single
  <2> QED BY <1>1, SumIs
<1>3. PICK G : /\ SumOf(lin, numbers) = G[1] /\ G[n + 1] = lin.c
               /\ \A i \in 1 .. n : G[i] = Added(numbers, ts[i], G[i + 1])
               /\ \A i \in 1 .. n + 1 : G[i] \in SUBSET Values
  BY SumIs
<1>4. n \in Nat /\ \A i \in 1 .. n : ts[i].scale \in Int /\ ts[i].var \in Var
  <2>1. ts \in Seq([scale : Int, var : Var])
    BY DEF Linear
  <2>2. QED
    BY <2>1, TermIs
<1>5. \A i \in 1 .. n : single[ts[i].var] = {val[ts[i].var]} /\ val[ts[i].var] \in Values
  BY <1>4
<1>6. \A i \in 1 .. n : IF i = j THEN ts[i].scale = 1 /\ (val[ts[i].var] - B) % Modulus \in numbers[ts[i].var]
                        ELSE val[ts[i].var] \in numbers[ts[i].var]
  OBVIOUS
<1> HIDE DEF ts, n, single
<1> DEFINE Holds1(i) == \A y \in F[i] : (y - D(i)) % Modulus \in G[i]
           Ns == {k \in Nat : k <= n => Holds1(n + 1 - k)}
<1>7. 0 \in Ns
  <2>1. ASSUME NEW y \in lin.c PROVE (y - 0) % Modulus \in lin.c
    <3>1. y \in Values
      BY DEF Linear
    <3>2. y - 0 = y /\ y % Modulus = y
      BY <3>1, ValueIs
    <3>3. QED
      BY <3>2
  <2>2. D(n + 1) = 0 /\ n + 1 - 0 = n + 1
    BY <1>4 DEF n, ts
  <2> HIDE DEF D
  <2>3. Holds1(n + 1)
    BY <1>2, <1>3, <2>1, <2>2
  <2> HIDE DEF Holds1
  <2>4. QED
    BY <2>2, <2>3
<1>8. ASSUME NEW k \in Nat, k \in Ns PROVE k + 1 \in Ns
  <2>1. SUFFICES ASSUME k + 1 <= n PROVE Holds1(n - k)
    <3>1. n + 1 - (k + 1) = n - k
      BY <1>4
    <3> HIDE DEF Holds1
    <3>2. QED
      BY <3>1
  <2> DEFINE i == n - k
  <2>2. i \in 1 .. n /\ i + 1 \in 1 .. n + 1 /\ n + 1 - k = i + 1 /\ i \in Int
    BY <1>4, <2>1
  <2>3. Holds1(i + 1)
    <3> HIDE DEF Holds1, i
    <3> QED BY <1>4, <1>8, <2>1, <2>2
  <2> HIDE DEF i
  <2>4. ASSUME NEW y \in F[i] PROVE (y - D(i)) % Modulus \in G[i]
    <3> DEFINE s == ts[i].scale
               v == val[ts[i].var]
               d == D(i + 1)
               b == IF i = j THEN B ELSE 0
    <3>1. s \in Int /\ v \in Values /\ v \in Int /\ j \in Int /\ B \in Int /\ b \in Int /\ d \in Int
      BY <1>4, <1>5, <2>2, ModulusIs
    <3>2. PICK r \in F[i + 1] : y = (s * v + r) % Modulus
      <4>1. y \in Added(single, ts[i], F[i + 1])
        BY <1>2, <2>2, <2>4
      <4>2. PICK z \in single[ts[i].var], r \in F[i + 1] : y = (ts[i].scale * z + r) % Modulus
        BY <4>1 DEF Added
      <4>3. z = v
        BY <1>5, <2>2, <4>2
      <4>4. QED
        BY <4>2, <4>3
    <3>3. r \in Int
      BY <1>2, <2>2, ModulusIs
    <3>4. (r - d) % Modulus \in G[i + 1]
      BY <2>3
    <3>5. (v - b) % Modulus \in numbers[ts[i].var]
      <4>1. CASE i = j
        BY <1>6, <2>2, <4>1
      <4>2. CASE i # j
        <5>1. v \in numbers[ts[i].var] /\ b = 0 /\ v - 0 = v /\ v % Modulus = v
          BY <1>6, <2>2, <3>1, <4>2, ValueIs
        <5> HIDE DEF v, b
        <5>2. QED
          BY <5>1
      <4>3. QED
        BY <4>1, <4>2
    <3>6. s * b + d = D(i)
      <4>1. CASE i = j
        <5>1. s = 1 /\ b = B /\ d = 0 /\ D(i) = B
          BY <1>6, <2>2, <3>1, <4>1
        <5> HIDE DEF s, b, d, D
        <5>2. QED
          BY <3>1, <5>1
      <4>2. CASE i # j
        <5>1. b = 0 /\ d = D(i)
          BY <2>2, <3>1, <4>2
        <5> HIDE DEF s, b, d, D
        <5>2. QED
          BY <3>1, <5>1
      <4>3. QED
        BY <4>1, <4>2
    <3> HIDE DEF s, v, b, d, D
    <3>7. (s * ((v - b) % Modulus) + ((r - d) % Modulus)) % Modulus = (y - D(i)) % Modulus
      <4>1. (s * ((v - b) % Modulus) + ((r - d) % Modulus)) % Modulus
              = (((s * v + r) % Modulus) - (s * b + d)) % Modulus
        <5>1. s \in Int /\ v \in Int /\ b \in Int /\ r \in Int /\ d \in Int
          BY <3>1, <3>3
        <5>2. \A s1, x1, b1, r1, d1 \in Int :
                (s1 * ((x1 - b1) % Modulus) + ((r1 - d1) % Modulus)) % Modulus
                  = (((s1 * x1 + r1) % Modulus) - (s1 * b1 + d1)) % Modulus
          BY SumApart
        <5>3. \A x1, b1, r1, d1 \in Int :
                (s * ((x1 - b1) % Modulus) + ((r1 - d1) % Modulus)) % Modulus
                  = (((s * x1 + r1) % Modulus) - (s * b1 + d1)) % Modulus
          BY <5>1, <5>2, Zenon
        <5>4. \A b1, r1, d1 \in Int :
                (s * ((v - b1) % Modulus) + ((r1 - d1) % Modulus)) % Modulus
                  = (((s * v + r1) % Modulus) - (s * b1 + d1)) % Modulus
          BY <5>1, <5>3, Zenon
        <5>5. \A r1, d1 \in Int :
                (s * ((v - b) % Modulus) + ((r1 - d1) % Modulus)) % Modulus
                  = (((s * v + r1) % Modulus) - (s * b + d1)) % Modulus
          BY <5>1, <5>4, Zenon
        <5>6. \A d1 \in Int :
                (s * ((v - b) % Modulus) + ((r - d1) % Modulus)) % Modulus
                  = (((s * v + r) % Modulus) - (s * b + d1)) % Modulus
          BY <5>1, <5>5, Zenon
        <5>7. QED
          BY <5>1, <5>6, Zenon
      <4>2. QED
        BY <3>2, <3>6, <4>1
    <3>8. (s * ((v - b) % Modulus) + ((r - d) % Modulus)) % Modulus \in Added(numbers, ts[i], G[i + 1])
      BY <3>4, <3>5 DEF Added, s
    <3>9. QED
      BY <1>3, <2>2, <3>7, <3>8
  <2>5. QED
    BY <2>4 DEF i
<1>9. Holds1(1)
  <2>1. Nat \subseteq Ns
    <3> HIDE DEF Ns
    <3> QED BY <1>7, <1>8, EveryNumber
  <2>2. n \in Ns /\ n <= n /\ n + 1 - n = 1
    BY <1>4, <2>1
  <2> HIDE DEF Holds1
  <2>3. QED
    BY <2>2
<1>10. x \in F[1]
  BY <1>2 DEF single
<1>11. D(1) = IF j = 0 THEN 0 ELSE B
  BY DEF n, ts
<1> HIDE DEF D
<1>12. QED
  BY <1>3, <1>9, <1>10, <1>11

\* A sum over variables of which none has no offset has some.
LEMMA SumSome ==
  ASSUME NEW lin \in Linear, NEW some \in [Var -> SUBSET Values], SumOf(lin, some) # {},
         NEW numbers \in [Var -> SUBSET Values], \A v \in Var : numbers[v] # {}
  PROVE  SumOf(lin, numbers) # {}
<1> DEFINE ts == lin.terms
           n == Len(ts)
<1>1. PICK F : /\ SumOf(lin, some) = F[1] /\ F[n + 1] = lin.c
               /\ \A i \in 1 .. n : F[i] = Added(some, ts[i], F[i + 1])
  BY SumIs
<1>2. PICK G : /\ SumOf(lin, numbers) = G[1] /\ G[n + 1] = lin.c
               /\ \A i \in 1 .. n : G[i] = Added(numbers, ts[i], G[i + 1])
  BY SumIs
<1>3. n \in Nat /\ \A i \in 1 .. n : ts[i].var \in Var
  <2>1. ts \in Seq([scale : Int, var : Var])
    BY DEF Linear
  <2>2. QED
    BY <2>1, TermIs
<1> HIDE DEF ts, n
<1> DEFINE Fs(k) == k <= n => F[k + 1] # {}
           Gs(k) == k <= n => G[n + 1 - k] # {}
<1>4. lin.c # {}
  <2> DEFINE Ns == {k \in Nat : Fs(k)}
  <2>1. 0 \in Ns
    <3>1. 0 + 1 = 1
      OBVIOUS
    <3>2. QED
      BY <1>1, <3>1
  <2>2. ASSUME NEW k \in Nat, k \in Ns PROVE k + 1 \in Ns
    <3>1. SUFFICES ASSUME k + 1 <= n PROVE F[(k + 1) + 1] # {}
      OBVIOUS
    <3>2. k + 1 \in 1 .. n /\ k <= n
      BY <1>3, <3>1
    <3>3. F[k + 1] = Added(some, ts[k + 1], F[(k + 1) + 1]) /\ F[k + 1] # {}
      BY <1>1, <2>2, <3>2
    <3>4. QED
      BY <3>3 DEF Added
  <2>3. Nat \subseteq Ns
    <3> HIDE DEF Ns
    <3> QED BY <2>1, <2>2, EveryNumber
  <2>4. QED
    BY <1>1, <1>3, <2>3
<1>5. QED
  <2> DEFINE Ns == {k \in Nat : Gs(k)}
  <2>1. 0 \in Ns
    <3>1. n + 1 - 0 = n + 1
      BY <1>3
    <3>2. QED
      BY <1>2, <1>4, <3>1
  <2>2. ASSUME NEW k \in Nat, k \in Ns PROVE k + 1 \in Ns
    <3>1. SUFFICES ASSUME k + 1 <= n PROVE G[n + 1 - (k + 1)] # {}
      OBVIOUS
    <3> DEFINE i == n - k
    <3>2. i \in 1 .. n /\ n + 1 - (k + 1) = i /\ n + 1 - k = i + 1 /\ k <= n
      BY <1>3, <3>1
    <3>3. G[i + 1] # {}
      <4> HIDE DEF i
      <4> QED BY <2>2, <3>2
    <3> HIDE DEF i
    <3>4. G[i] = Added(numbers, ts[i], G[i + 1]) /\ numbers[ts[i].var] # {}
      BY <1>2, <1>3, <3>2
    <3>5. G[i] # {}
      <4>1. PICK z \in numbers[ts[i].var], r \in G[i + 1] : TRUE
        BY <3>3, <3>4
      <4>2. (ts[i].scale * z + r) % Modulus \in Added(numbers, ts[i], G[i + 1])
        BY <4>1 DEF Added
      <4>3. QED
        BY <3>4, <4>2
    <3>6. QED
      BY <3>2, <3>5
  <2>3. Nat \subseteq Ns
    <3> HIDE DEF Ns
    <3> QED BY <2>1, <2>2, EveryNumber
  <2>4. G[1] # {}
    <3>1. n \in Ns /\ n <= n /\ n + 1 - n = 1
      BY <1>3, <2>3
    <3>2. QED
      BY <3>1
  <2>5. QED
    BY <1>2, <2>4

-----------------------------------------------------------------------------
(* What a state covers *)

\* A value is one of the aliases plus one of the offsets.
Fits(ids, offsets, x, at) == \E id \in ids : id = "bad" \/ (x - Base(at, id)) % Modulus \in offsets

Fitting(a, val, at) ==
  \A v \in Var : a.child[v] # {} /\ Fits(Aliases(a, v), a.child[v], val[v], at)

LEMMA CoversIs == ASSUME NEW a, NEW r PROVE Covers(a, r) <=> r = Dead \/ Fitting(a, r.val, r.at)
BY DEF Covers, Fitting, Fits

LEMMA FitsMore ==
  ASSUME NEW ids, NEW offsets, NEW x, NEW at, NEW ids2, NEW offsets2,
         Fits(ids, offsets, x, at), ids \subseteq ids2, offsets \subseteq offsets2
  PROVE  Fits(ids2, offsets2, x, at)
BY DEF Fits

LEMMA BaseIs ==
  ASSUME NEW id \in AliasId \ {"bad"}, NEW at \in [Ptr -> Values]
  PROVE  Base(at, id) \in Values /\ Base(at, id) \in Int
<1>1. Base(at, id) \in Values
  BY ModulusIs DEF AliasId, Base
<1>2. QED
  BY <1>1, ModulusIs

\* With every offset it may be anything.
LEMMA FitsAll ==
  ASSUME NEW ids \in (SUBSET AliasId) \ {{}}, NEW x \in Values, NEW at \in [Ptr -> Values]
  PROVE  Fits(ids, Values, x, at)
<1>1. PICK id \in ids : id \in AliasId
  OBVIOUS
<1>2. ASSUME id # "bad" PROVE (x - Base(at, id)) % Modulus \in Values
  BY <1>1, <1>2, BaseIs, OffsetBack
<1>3. QED
  BY <1>1, <1>2 DEF Fits

\* What is written to a variable.
LEMMA WrittenFits ==
  ASSUME NEW a \in OkState, NEW v \in Var, NEW ids \in (SUBSET AliasId) \ {{}},
         NEW offsets \in (SUBSET Values) \ {{}}, NEW val \in [Var -> Values], NEW at, Fitting(a, val, at),
         NEW x, Fits(ids, offsets, x, at)
  PROVE  Fitting(State(Put(a.elements, v, ids), ChildSet(a.child, v, offsets)), [val EXCEPT ![v] = x], at)
<1> DEFINE m == Put(a.elements, v, ids)
           c == ChildSet(a.child, v, offsets)
           b == State(m, c)
           new == [val EXCEPT ![v] = x]
<1>1. /\ DOMAIN m.fwd = DOMAIN a.elements.fwd \cup {v} /\ m.fwd[v] = ids
      /\ \A w \in DOMAIN a.elements.fwd \ {v} : m.fwd[w] = a.elements.fwd[w]
  BY StateIs, PutOk DEF OkMapOf
<1>2. a.child \in Child /\ c = [a.child EXCEPT ![v] = offsets]
  BY StateIs DEF ChildSet, Fitting
<1>3. c[v] = offsets /\ \A w \in Var \ {v} : c[w] = a.child[w]
  BY <1>2 DEF Child
<1>4. new[v] = x /\ \A w \in Var \ {v} : new[w] = val[w]
  OBVIOUS
<1>5. b.elements = m /\ b.child = c
  BY DEF State
<1> HIDE DEF m, c, b, new
<1>6. Aliases(b, v) = ids /\ \A w \in Var \ {v} : Aliases(b, w) = Aliases(a, w)
  BY <1>1, <1>5 DEF Aliases
<1>7. QED
  <2>1. ASSUME NEW w \in Var PROVE b.child[w] # {} /\ Fits(Aliases(b, w), b.child[w], new[w], at)
    <3>1. CASE w = v
      BY <1>3, <1>4, <1>5, <1>6, <3>1
    <3>2. CASE w # v
      BY <1>3, <1>4, <1>5, <1>6, <3>2 DEF Fitting
    <3>3. QED
      BY <3>1, <3>2
  <2>2. Fitting(b, new, at)
    BY <2>1 DEF Fitting
  <2>3. QED
    BY <2>2 DEF b, m, c, new

-----------------------------------------------------------------------------
(* Expressions *)

\* What may be a pointer is not scaled.
Unscaled(a) ==
  \A exp \in Exprs : exp.kind = "lin" => \A i \in DOMAIN exp.opnd1.terms :
    exp.opnd1.terms[i].scale = 1 \/ Aliases(a, exp.opnd1.terms[i].var) \subseteq {"null", "bad"}

\* The answer to queryVal contains the value.
LEMMA QueryFits ==
  ASSUME NEW a \in OkState, NEW val \in [Var -> Values], NEW at \in [Ptr -> Values], Fitting(a, val, at),
         NEW v \in Var
  PROVE  val[v] \in QueryVal(a, v)
<1>1. PICK id \in Aliases(a, v) : id = "bad" \/ (val[v] - Base(at, id)) % Modulus \in a.child[v]
  BY DEF Fitting, Fits
<1>2. id \in AliasId /\ a.child[v] # {} /\ a.child[v] \subseteq Values /\ val[v] \in Values
  <2>1. a \in StateSet /\ a.child \in Child
    BY StateIs
  <2>2. QED
    BY <2>1, AliasesIs DEF Fitting, Child
<1>3. Offsets(a.child)[id] = IF id = "null" THEN {0} ELSE Values
  BY <1>2, StateIs, OffsetsAre
<1>4. \E x \in a.child[v], y \in Offsets(a.child)[id] : val[v] = (x + y) % Modulus
  <2>1. CASE id = "bad"
    <3>1. PICK x \in a.child[v] : x \in Values
      BY <1>2
    <3>2. x \in Int
      BY <3>1, ModulusIs
    <3> DEFINE y == (val[v] - x) % Modulus
    <3>3. y \in Values /\ (y + x) % Modulus = val[v]
      BY <1>2, <3>2, OffsetBack
    <3>4. y + x = x + y
      BY <3>2, <3>3, ModulusIs
    <3> HIDE DEF y
    <3>5. QED
      BY <1>3, <2>1, <3>1, <3>3, <3>4
  <2>2. CASE id # "bad"
    <3> DEFINE y == Base(at, id)
               x == (val[v] - y) % Modulus
    <3>1. y \in Values /\ y \in Int
      BY <1>2, <2>2, BaseIs
    <3>2. x \in a.child[v]
      BY <1>1, <2>2
    <3>3. (x + y) % Modulus = val[v]
      BY <1>2, <3>1, OffsetBack
    <3>4. y \in Offsets(a.child)[id]
      BY <1>3, <3>1 DEF Base
    <3> HIDE DEF x, y
    <3>5. QED
      BY <3>2, <3>3, <3>4
  <2>3. QED
    BY <2>1, <2>2
<1>5. QED
  BY <1>4 DEF QueryVal

\* A sum of values is among the sums of what they are among.
LEMMA SumSame ==
  ASSUME NEW lin \in Linear, NEW val \in [Var -> Values], NEW numbers \in [Var -> SUBSET Values],
         \A i \in 1 .. Len(lin.terms) : val[lin.terms[i].var] \in numbers[lin.terms[i].var],
         NEW x \in SumOf(lin, [v \in Var |-> {val[v]}])
  PROVE  x \in SumOf(lin, numbers)
<1> DEFINE single == [v \in Var |-> {val[v]}]
<1>1. Len(lin.terms) \in Nat
  <2>1. lin.terms \in Seq([scale : Int, var : Var])
    BY DEF Linear
  <2>2. QED
    BY <2>1
<1>2. 0 \in 0 .. Len(lin.terms) /\ 0 \in Int
  BY <1>1
<1>3. \A i \in 1 .. Len(lin.terms) :
        IF i = 0
        THEN lin.terms[i].scale = 1 /\ (val[lin.terms[i].var] - 0) % Modulus \in numbers[lin.terms[i].var]
        ELSE val[lin.terms[i].var] \in numbers[lin.terms[i].var]
  BY <1>1
<1>4. (x - (IF 0 = 0 THEN 0 ELSE 0)) % Modulus \in SumOf(lin, numbers)
  BY <1>2, <1>3, SumApartAll
<1>5. single \in [Var -> SUBSET Values]
  OBVIOUS
<1>6. x \in Values
  <2>1. x \in SumOf(lin, single)
    OBVIOUS
  <2> HIDE DEF single
  <2>2. QED
    BY <1>5, <2>1, SumTyped
<1>7. x - 0 = x /\ x % Modulus = x
  BY <1>6, ValueIs
<1>8. QED
  BY <1>4, <1>7

\* A result that is not linear is a number.
LEMMA NumberFits ==
  ASSUME NEW a \in OkState, NEW val \in [Var -> Values], NEW at \in [Ptr -> Values], Fitting(a, val, at),
         NEW exp \in Exprs, exp.kind = "bin", NEW x \in ExprOf(exp, [v \in Var |-> {val[v]}])
  PROVE  ChildOf(a, exp) # {} /\ Fits(AliasesOf(a, exp), ChildOf(a, exp), x, at)
<1> DEFINE numbers == ReplacePointers(a)
           single == [v \in Var |-> {val[v]}]
<1>1. numbers \in [Var -> SUBSET Values]
  BY StateIs, ReplacePointersTyped
<1>2. \A v \in Var : val[v] \in numbers[v]
  BY QueryFits DEF ReplacePointers
<1> HIDE DEF numbers
<1>3. ASSUME NEW lin \in Linear, NEW y \in SumOf(lin, single) PROVE y \in SumOf(lin, numbers)
  <2>1. \A i \in 1 .. Len(lin.terms) : val[lin.terms[i].var] \in numbers[lin.terms[i].var]
    BY <1>2, TermIs
  <2>2. QED
    BY <1>1, <1>3, <2>1, SumSame
<1>4. exp.opnd1 \in Linear /\ exp.opnd2 \in Linear
  BY InputsAssumption DEF InputsAssumption
<1>5. x \in ChildOf(a, exp) /\ x \in Values
  <2>1. PICK y \in SumOf(exp.opnd1, single), z \in SumOf(exp.opnd2, single) : x = (y * z) % Modulus
    <3> HIDE DEF single
    <3>1. x \in ExprOf(exp, single)
      BY DEF single
    <3>2. ExprOf(exp, single) = {(y * z) % Modulus : y \in SumOf(exp.opnd1, single), z \in SumOf(exp.opnd2, single)}
      BY DEF ExprOf
    <3>3. QED
      BY <3>1, <3>2
  <2> HIDE DEF single
  <2>2. y \in SumOf(exp.opnd1, numbers) /\ z \in SumOf(exp.opnd2, numbers)
    BY <1>3, <1>4, <2>1
  <2>3. x \in ExprOf(exp, numbers)
    <3>1. ExprOf(exp, numbers) = {(p * q) % Modulus : p \in SumOf(exp.opnd1, numbers), q \in SumOf(exp.opnd2, numbers)}
      BY DEF ExprOf
    <3>2. QED
      BY <2>1, <2>2, <3>1
  <2>4. ChildOf(a, exp) = ExprOf(exp, numbers)
    BY DEF ChildOf, numbers
  <2>5. QED
    BY <1>1, <2>3, <2>4, ExprOfTyped
<1>6. (x - Base(at, "null")) % Modulus = x
  <2>1. Base(at, "null") = 0 /\ x - 0 = x /\ x % Modulus = x
    BY <1>5, ValueIs DEF Base
  <2>2. QED
    BY <2>1
<1>7. AliasesOf(a, exp) = {"null"}
  BY DEF AliasesOf
<1>8. QED
  BY <1>5, <1>6, <1>7 DEF Fits

\* A sum with one pointer in it is at an offset to it; with several it may be
\* anything.
LEMMA SumFits ==
  ASSUME NEW a \in OkState, NEW val \in [Var -> Values], NEW at \in [Ptr -> Values], Fitting(a, val, at),
         Unscaled(a), NEW exp \in Exprs, exp.kind = "lin", NEW x \in ExprOf(exp, [v \in Var |-> {val[v]}])
  PROVE  ChildOf(a, exp) # {} /\ Fits(AliasesOf(a, exp), ChildOf(a, exp), x, at)
<1> DEFINE lin == exp.opnd1
           ts == lin.terms
           n == Len(ts)
           single == [v \in Var |-> {val[v]}]
           var(i) == ts[i].var
           fits(id, v) == id = "bad" \/ (val[v] - Base(at, id)) % Modulus \in a.child[v]
           ids == [i \in DOMAIN ts |-> CHOOSE id \in Aliases(a, var(i)) : fits(id, var(i))]
           pointers == {i \in DOMAIN ids : ids[i] # "null"}
<1>1. lin \in Linear
  BY InputsAssumption DEF InputsAssumption
<1>2. /\ DOMAIN ts = 1 .. n /\ n \in Nat
      /\ \A i \in 1 .. n : var(i) \in Var
      /\ \A i \in 1 .. n : ts[i].scale = 1 \/ Aliases(a, var(i)) \subseteq {"null", "bad"}
  <2>1. ts \in Seq([scale : Int, var : Var])
    BY <1>1 DEF Linear
  <2>2. \A i \in DOMAIN ts : ts[i].scale = 1 \/ Aliases(a, var(i)) \subseteq {"null", "bad"}
    BY DEF Unscaled
  <2> HIDE DEF lin
  <2>3. DOMAIN ts = 1 .. n /\ n \in Nat /\ \A i \in 1 .. n : var(i) \in Var
    BY <1>1, <2>1, TermIs
  <2> HIDE DEF ts, n, var
  <2>4. QED
    BY <2>2, <2>3
<1>3. /\ a.child \in [Var -> SUBSET Values] /\ \A v \in Var : a.child[v] # {}
      /\ \A v \in Var : \E id \in Aliases(a, v) : fits(id, v)
      /\ \A v \in Var : Aliases(a, v) \subseteq AliasId
  BY StateIs, AliasesIs DEF Fitting, Fits, Child
<1>4. x \in SumOf(lin, single) /\ ChildOf(a, exp) = SumOf(lin, a.child) /\ AliasesOf(a, exp) = LinAliases(a, lin)
  BY DEF ExprOf, ChildOf, AliasesOf
<1>5. single \in [Var -> SUBSET Values]
  OBVIOUS
<1>6. ChildOf(a, exp) # {}
  <2> HIDE DEF single, lin
  <2> QED BY <1>1, <1>3, <1>4, <1>5, SumSome
<1> HIDE DEF lin, ts, n
<1>7. /\ DOMAIN ids = 1 .. n
      /\ \A i \in 1 .. n : ids[i] \in Aliases(a, var(i)) /\ ids[i] \in AliasId /\ fits(ids[i], var(i))
  <2>1. ASSUME NEW i \in 1 .. n
        PROVE ids[i] \in Aliases(a, var(i)) /\ ids[i] \in AliasId /\ fits(ids[i], var(i))
    <3>1. var(i) \in Var /\ ids[i] = CHOOSE id \in Aliases(a, var(i)) : fits(id, var(i))
      BY <1>2
    <3> DEFINE w == var(i)
    <3>2. w \in Var /\ ids[i] = CHOOSE id \in Aliases(a, w) : fits(id, w)
      BY <3>1
    <3> HIDE DEF w, fits, ids
    <3>3. ids[i] \in Aliases(a, w) /\ fits(ids[i], w)
      BY <1>3, <3>2
    <3>4. QED
      BY <1>3, <3>2, <3>3 DEF w
  <2> HIDE DEF fits
  <2>2. QED
    BY <1>2, <2>1
<1>8. SimplifyPtrSum(ids) \in AliasesOf(a, exp)
  <2>1. LinAliases(a, lin) = {SimplifyPtrSum(f) : f \in
          {f \in [DOMAIN ts -> AliasId] : \A i \in DOMAIN f : f[i] \in Aliases(a, ts[i].var)}}
    BY DEF LinAliases, ts
  <2>2. ids \in [DOMAIN ts -> AliasId]
    <3>1. ids = [i \in 1 .. n |-> ids[i]]
      BY <1>2
    <3> HIDE DEF ids
    <3>2. QED
      BY <1>2, <1>7, <3>1
  <2> HIDE DEF ids
  <2>3. QED
    BY <1>4, <1>7, <2>1, <2>2
<1>9. SimplifyPtrSum(ids) = IF pointers = {} THEN "null"
                            ELSE IF \E i \in pointers : pointers = {i}
                            THEN ids[CHOOSE i \in pointers : TRUE] ELSE "bad"
  BY DEF SimplifyPtrSum
<1>10. \A i \in 1 .. n : ids[i] = "null" => val[var(i)] \in a.child[var(i)]
  <2>1. ASSUME NEW i \in 1 .. n, ids[i] = "null" PROVE val[var(i)] \in a.child[var(i)]
    <3> DEFINE w == var(i)
    <3>1. w \in Var /\ (val[w] - 0) % Modulus \in a.child[w]
      BY <1>2, <1>7, <2>1 DEF Base
    <3> HIDE DEF w
    <3>2. val[w] - 0 = val[w] /\ val[w] % Modulus = val[w]
      BY <3>1, ValueIs
    <3>3. QED
      BY <3>1, <3>2 DEF w
  <2> HIDE DEF ids, var
  <2>2. QED
    BY <2>1
<1>11. CASE pointers = {}
  <2>1. \A i \in 1 .. n : val[var(i)] \in a.child[var(i)]
    <3> HIDE DEF ids
    <3> QED BY <1>7, <1>10, <1>11
  <2>2. x \in SumOf(lin, a.child)
    BY <1>1, <1>3, <1>4, <2>1, SumSame DEF n, ts
  <2>3. (x - Base(at, "null")) % Modulus = x
    <3>1. x \in Values
      BY <1>1, <1>3, <2>2, SumTyped
    <3>2. x - 0 = x /\ x % Modulus = x
      BY <3>1, ValueIs
    <3>3. QED
      BY <3>2 DEF Base
  <2>4. "null" \in AliasesOf(a, exp)
    BY <1>8, <1>9, <1>11
  <2>5. QED
    BY <1>4, <1>6, <2>2, <2>3, <2>4 DEF Fits
<1>12. CASE \E i \in pointers : pointers = {i}
  <2>1. PICK j \in pointers : pointers = {j}
    BY <1>12
  <2>2. j \in 1 .. n /\ SimplifyPtrSum(ids) = ids[j]
    <3>1. (CHOOSE i \in pointers : TRUE) = j /\ pointers # {}
      BY <2>1
    <3>2. j \in 1 .. n
      BY <1>7
    <3> HIDE DEF pointers, ids
    <3>3. QED
      BY <1>9, <1>12, <3>1, <3>2
  <2>3. CASE ids[j] = "bad"
    <3> HIDE DEF ids
    <3> QED BY <1>6, <1>8, <2>2, <2>3 DEF Fits
  <2>4. CASE ids[j] # "bad"
    <3> DEFINE B == Base(at, ids[j])
    <3>1. B \in Int /\ (val[var(j)] - B) % Modulus \in a.child[var(j)]
      <4>1. ids[j] \in AliasId \ {"bad"} /\ fits(ids[j], var(j))
        BY <1>7, <2>2, <2>4
      <4> HIDE DEF ids
      <4>2. QED
        BY <2>4, <4>1, BaseIs
    <3>2. \A i \in 1 .. n : i # j => val[var(i)] \in a.child[var(i)]
      <4>1. \A i \in 1 .. n : i # j => ids[i] = "null"
        BY <1>7, <2>1
      <4> HIDE DEF ids, var
      <4>2. QED
        BY <1>10, <4>1
    <3>3. j \in 0 .. n /\ j # 0 /\ ts[j].scale = 1
      <4>1. ids[j] \in Aliases(a, var(j)) /\ ids[j] # "null"
        BY <1>7, <2>1, <2>2
      <4> HIDE DEF ids, var, pointers
      <4>2. QED
        BY <1>2, <2>2, <2>4, <4>1
    <3> HIDE DEF B, pointers, ids
    <3>4. (x - (IF j = 0 THEN 0 ELSE B)) % Modulus \in SumOf(lin, a.child)
      <4>1. \A i \in 1 .. n : IF i = j THEN ts[i].scale = 1 /\ (val[ts[i].var] - B) % Modulus \in a.child[ts[i].var]
                              ELSE val[ts[i].var] \in a.child[ts[i].var]
        BY <1>2, <3>1, <3>2, <3>3
      <4>2. QED
        BY <1>1, <1>3, <1>4, <3>1, <3>3, <4>1, SumApartAll DEF n, ts
    <3>5. (x - Base(at, ids[j])) % Modulus \in ChildOf(a, exp)
      BY <1>4, <3>3, <3>4 DEF B
    <3>6. QED
      BY <1>6, <1>8, <2>2, <3>5 DEF Fits
  <2>5. QED
    BY <2>3, <2>4
<1>13. CASE pointers # {} /\ ~\E i \in pointers : pointers = {i}
  <2>1. "bad" \in AliasesOf(a, exp)
    <3> HIDE DEF pointers, ids
    <3> QED BY <1>8, <1>9, <1>13
  <2>2. QED
    BY <1>6, <2>1 DEF Fits
<1>14. QED
  <2> HIDE DEF pointers
  <2> QED BY <1>11, <1>12, <1>13

\* What an expression may be fits what is written for it.
LEMMA ExprFits ==
  ASSUME NEW a \in OkState, NEW val \in [Var -> Values], NEW at \in [Ptr -> Values], Fitting(a, val, at),
         Unscaled(a), NEW exp \in Exprs, NEW x \in ExprOf(exp, [v \in Var |-> {val[v]}])
  PROVE  ChildOf(a, exp) # {} /\ Fits(AliasesOf(a, exp), ChildOf(a, exp), x, at)
<1>1. exp.kind = "lin" \/ exp.kind = "bin"
  BY InputsAssumption DEF InputsAssumption
<1>2. QED
  BY <1>1, SumFits, NumberFits

-----------------------------------------------------------------------------
(* Conditions *)

LEMMA NumberIs ==
  ASSUME NEW offsets, NEW x \in Values, NEW at
  PROVE  Fits({"null"}, offsets, x, at) <=> x \in offsets
<1>1. x - 0 = x /\ x % Modulus = x
  BY ValueIs
<1>2. (x - Base(at, "null")) % Modulus = x
  BY <1>1 DEF Base
<1>3. Fits({"null"}, offsets, x, at) <=> (x - Base(at, "null")) % Modulus \in offsets
  BY DEF Fits
<1>4. QED
  BY <1>2, <1>3

LEMMA VarsAre == ASSUME NEW cmp \in Cmps PROVE VarsOf(cmp) \subseteq Var
<1>1. cmp.opnd1 \in Linear
  BY InputsAssumption DEF InputsAssumption
<1>2. cmp.opnd1.terms \in Seq([scale : Int, var : Var])
  BY <1>1 DEF Linear
<1>3. DOMAIN cmp.opnd1.terms = 1 .. Len(cmp.opnd1.terms)
  BY <1>2
<1>4. QED
  BY <1>1, <1>3, TermIs DEF VarsOf

\* The values for which the condition holds stay among the offsets.
LEMMA ChildAssumeFits ==
  ASSUME NEW c \in Child, \A v \in Var : c[v] # {}, NEW cmp \in Cmps, NEW val \in [Var -> Values],
         \A v \in VarsOf(cmp) : val[v] \in c[v],
         NEW x \in ExprOf(cmp, [v \in Var |-> {val[v]}]), Holds(x, cmp.op)
  PROVE  /\ \A v \in VarsOf(cmp) : val[v] \in ChildAssume(c, cmp)[v]
         /\ \A v \in Var \ VarsOf(cmp) : ChildAssume(c, cmp)[v] = c[v]
<1> DEFINE sums(d) == {y \in SumOf(cmp.opnd1, d) : Holds(y, cmp.op)}
           refined == [v \in Var |-> IF v \notin VarsOf(cmp) THEN c[v]
                                     ELSE {o \in c[v] : sums([c EXCEPT ![v] = {o}]) # {}}]
<1>1. cmp.opnd1 \in Linear /\ cmp.kind = "lin"
  BY InputsAssumption DEF InputsAssumption
<1>2. ASSUME NEW d \in Child, \A v \in VarsOf(cmp) : val[v] \in d[v] PROVE sums(d) # {}
  <2>1. \A i \in 1 .. Len(cmp.opnd1.terms) : cmp.opnd1.terms[i].var \in VarsOf(cmp)
    <3>1. cmp.opnd1.terms \in Seq([scale : Int, var : Var])
      BY <1>1 DEF Linear
    <3>2. DOMAIN cmp.opnd1.terms = 1 .. Len(cmp.opnd1.terms)
      BY <3>1
    <3>3. QED
      BY <3>2 DEF VarsOf
  <2>2. x \in SumOf(cmp.opnd1, [v \in Var |-> {val[v]}])
    BY <1>1 DEF ExprOf
  <2>3. x \in SumOf(cmp.opnd1, d)
    BY <1>1, <1>2, <2>1, <2>2, SumSame DEF Child
  <2>4. QED
    BY <2>3
<1>3. ChildAssume(c, cmp) = IF sums(c) = {} \/ \E v \in Var : c[v] = {} THEN BottomChild ELSE refined
  BY DEF ChildAssume
<1>4. sums(c) # {}
  <2> HIDE DEF sums
  <2> QED BY <1>2
<1>5. ASSUME NEW v \in VarsOf(cmp) PROVE val[v] \in refined[v]
  <2> DEFINE d == [c EXCEPT ![v] = {val[v]}]
  <2>1. v \in Var
    BY VarsAre
  <2>2. d \in Child /\ \A w \in VarsOf(cmp) : val[w] \in d[w]
    BY <2>1, VarsAre DEF Child
  <2> HIDE DEF d, sums
  <2>3. sums(d) # {}
    BY <1>2, <2>2
  <2>4. QED
    BY <2>1, <2>3 DEF d
<1> HIDE DEF sums
<1>6. \A v \in Var \ VarsOf(cmp) : refined[v] = c[v]
  OBVIOUS
<1> HIDE DEF refined
<1>7. ChildAssume(c, cmp) = refined
  BY <1>3, <1>4
<1>8. QED
  BY <1>5, <1>6, <1>7

LEMMA AssumedFits ==
  ASSUME NEW a \in OkState, NEW val \in [Var -> Values], NEW at \in [Ptr -> Values], Fitting(a, val, at),
         NEW cmp \in Cmps, NEW x \in ExprOf(cmp, [v \in Var |-> {val[v]}]), Holds(x, cmp.op)
  PROVE  Fitting(AssumeState(a, cmp), val, at)
<1> DEFINE D == DOMAIN a.elements.fwd
           ids == VarsOf(cmp)
           numbers == {v \in ids : v \in D /\ a.elements.fwd[v] = {"null"}}
           onlyNumbers == cmp.op = "NEQ" \/ (cmp.op = "EQ" /\ Cardinality(ids) # 1)
           rebased == (ids \cap D) \ numbers
           m == AllNumbers(a.elements, rebased)
           c == Forget(a.child, rebased)
           b1 == State(a.elements, ChildAssume(a.child, cmp))
           b2 == State(m, ChildAssume(c, cmp))
<1>1. AssumeState(a, cmp) = IF IsBottom(a) THEN a
                            ELSE IF onlyNumbers THEN IF numbers = ids THEN b1 ELSE a
                            ELSE b2
  BY Zenon DEF AssumeState
<1>2. /\ a.child \in Child /\ \A v \in Var : a.child[v] # {} /\ a.child[v] \subseteq Values
      /\ \A v \in Var : Fits(Aliases(a, v), a.child[v], val[v], at) /\ val[v] \in Values
      /\ ids \subseteq Var
  BY StateIs, VarsAre DEF Fitting, Child
<1>3. ~IsBottom(a)
  BY <1>2 DEF IsBottom
<1>4. ASSUME NEW b, b.child \in Child, \A v \in ids : Aliases(b, v) = {"null"} /\ val[v] \in b.child[v],
             \A v \in Var \ ids : Aliases(b, v) = Aliases(a, v) /\ b.child[v] = a.child[v]
      PROVE  Fitting(b, val, at)
  <2>1. ASSUME NEW v \in Var PROVE b.child[v] # {} /\ Fits(Aliases(b, v), b.child[v], val[v], at)
    <3>1. CASE v \in ids
      <4>1. Aliases(b, v) = {"null"} /\ val[v] \in b.child[v] /\ val[v] \in Values
        BY <1>2, <1>4, <3>1
      <4>2. QED
        BY <4>1, NumberIs
    <3>2. CASE v \notin ids
      BY <1>2, <1>4, <3>2
    <3>3. QED
      BY <3>1, <3>2
  <2>2. QED
    BY <2>1 DEF Fitting
<1>5. \A v \in ids : v \notin D \/ v \in numbers => Aliases(a, v) = {"null"} /\ val[v] \in a.child[v]
  <2>1. ASSUME NEW v \in ids, v \notin D \/ v \in numbers PROVE Aliases(a, v) = {"null"} /\ val[v] \in a.child[v]
    <3>1. Aliases(a, v) = {"null"}
      BY <2>1 DEF Aliases
    <3>2. v \in Var /\ Fits({"null"}, a.child[v], val[v], at) /\ val[v] \in Values
      BY <1>2, <3>1
    <3>3. QED
      BY <3>1, <3>2, NumberIs
  <2>2. QED
    BY <2>1
<1>6. CASE onlyNumbers /\ numbers = ids
  <2>1. /\ \A v \in ids : val[v] \in ChildAssume(a.child, cmp)[v]
        /\ \A v \in Var \ ids : ChildAssume(a.child, cmp)[v] = a.child[v]
    <3>1. \A v \in VarsOf(cmp) : val[v] \in a.child[v]
      BY <1>5, <1>6
    <3>2. a.child \in Child /\ \A v \in Var : a.child[v] # {}
      BY <1>2
    <3>3. QED
      BY <3>1, <3>2, ChildAssumeFits
  <2>2. b1.child = ChildAssume(a.child, cmp) /\ b1.elements = a.elements
    BY DEF State
  <2>3. \A v : Aliases(b1, v) = Aliases(a, v)
    BY <2>2 DEF Aliases
  <2>4. b1.child \in Child
    BY <1>2, <2>2, ChildAssumeTyped
  <2> HIDE DEF b1, ids, numbers
  <2>5. Fitting(b1, val, at)
    BY <1>4, <1>5, <1>6, <2>1, <2>2, <2>3, <2>4
  <2>6. QED
    BY <1>1, <1>3, <1>6, <2>5
<1>7. CASE ~onlyNumbers
  <2>1. m \in OkMapOf(D) /\ \A v \in D : m.fwd[v] = IF v \in rebased THEN {"null"} ELSE a.elements.fwd[v]
    <3>1. rebased \subseteq D /\ a.elements \in OkMapOf(D)
      BY StateIs
    <3> HIDE DEF rebased, D
    <3>2. QED
      BY <3>1, AllNumbersOk
  <2>2. c \in Child /\ \A v \in Var : c[v] = IF v \in rebased THEN Values ELSE a.child[v]
    BY <1>2 DEF Forget, Child
  <2> HIDE DEF m, c
  <2>3. \A v \in Var : c[v] # {}
    BY <1>2, <2>2, ModulusIs
  <2>4. \A v \in ids : val[v] \in c[v]
    BY <1>2, <1>5, <2>2
  <2>5. /\ \A v \in ids : val[v] \in ChildAssume(c, cmp)[v]
        /\ \A v \in Var \ ids : ChildAssume(c, cmp)[v] = c[v]
    BY <2>2, <2>3, <2>4, ChildAssumeFits
  <2>6. b2.child = ChildAssume(c, cmp) /\ b2.elements = m
    BY DEF State
  <2>7. b2.child \in Child
    BY <2>2, <2>6, ChildAssumeTyped
  <2>8. DOMAIN m.fwd = D
    BY <2>1 DEF OkMapOf
  <2> HIDE DEF b2
  <2>9. \A v \in ids : Aliases(b2, v) = {"null"}
    <3>1. ASSUME NEW v \in ids PROVE Aliases(b2, v) = {"null"}
      <4>1. CASE v \in D
        BY <2>1, <2>6, <2>8, <4>1 DEF Aliases
      <4>2. CASE v \notin D
        BY <2>6, <2>8, <4>2 DEF Aliases
      <4>3. QED
        BY <4>1, <4>2
    <3>2. QED
      BY <3>1
  <2>10. \A v \in Var \ ids : Aliases(b2, v) = Aliases(a, v)
    BY <2>1, <2>6, <2>8 DEF Aliases
  <2>11. \A v \in Var \ ids : b2.child[v] = a.child[v]
    BY <2>2, <2>5, <2>6
  <2> HIDE DEF ids, D, rebased
  <2>12. Fitting(b2, val, at)
    BY <1>4, <2>5, <2>6, <2>7, <2>9, <2>10, <2>11
  <2>13. QED
    BY <1>1, <1>3, <1>7, <2>12
<1>8. QED
  <2> HIDE DEF onlyNumbers, ids, numbers, b1, b2
  <2> QED BY <1>1, <1>3, <1>6, <1>7

-----------------------------------------------------------------------------
(* Variables and pointers that are gone *)

LEMMA KilledFits ==
  ASSUME NEW a \in OkState, NEW ids, ids \subseteq Var \cup Ptr,
         NEW val \in [Var -> Values], NEW at \in [Ptr -> Values], Fitting(a, val, at),
         NEW val2 \in [Var -> Values], \A v \in Var \ ids : val2[v] = val[v],
         NEW at2 \in [Ptr -> Values], \A p \in Ptr \ ids : at2[p] = at[p]
  PROVE  Fitting(KillState(a, ids), val2, at2)
<1> DEFINE D == DOMAIN a.elements.fwd
           gone == ids \cap Var
           m1 == ErasedAll(a.elements, gone)
           m == AllBad(m1, ids \cap Ptr)
           c == Forget(a.child, ids)
           b == KillState(a, ids)
<1>1. b.elements = m /\ b.child = c
  <2>1. b = State(m, c)
    BY Zenon DEF KillState
  <2> HIDE DEF m, c, b
  <2>2. QED
    BY <2>1 DEF State
<1>2. /\ m1 \in OkMapOf(D \ gone)
      /\ \A v \in D \ gone : m1.fwd[v] = a.elements.fwd[v]
  <2>1. IsFiniteSet(gone) /\ a.elements \in OkMap
    BY AlsAssumption, FS_Subset, StateIs DEF AlsAssumption
  <2> HIDE DEF gone
  <2>2. QED
    BY <2>1, ErasedAllOk
<1>3. /\ m \in OkMapOf(D \ gone)
      /\ \A v \in D \ gone : \A id \in m1.fwd[v] :
           (IF id \in ids \cap Ptr THEN "bad" ELSE id) \in m.fwd[v]
  <2> HIDE DEF m1, D, gone
  <2> QED BY <1>2, AllBadOk
<1>4. /\ a \in StateSet /\ a.child \in Child /\ \A v \in Var : a.child[v] # {}
      /\ \A v \in Var : Fits(Aliases(a, v), a.child[v], val[v], at)
  BY StateIs DEF Fitting
<1>5. \A v \in Var : c[v] = IF v \in ids THEN Values ELSE a.child[v]
  BY <1>4 DEF Forget
<1>6. b.elements = m /\ b.child = c /\ DOMAIN m.fwd = D \ gone
  <2> HIDE DEF m, c, b
  <2> QED BY <1>1, <1>3 DEF OkMapOf
<1> HIDE DEF m, m1, c, b
<1>7. ASSUME NEW v \in Var PROVE b.child[v] # {} /\ Fits(Aliases(b, v), b.child[v], val2[v], at2)
  <2>1. CASE v \in ids
    <3>1. b.child[v] = Values /\ Aliases(b, v) = {"null"} /\ val2[v] \in Values /\ "null" \in AliasId
      BY <1>5, <1>6, <2>1 DEF Aliases, AliasId
    <3>2. QED
      BY <3>1, FitsAll, ModulusIs
  <2>2. CASE v \notin ids
    <3>1. PICK id \in Aliases(a, v) : id = "bad" \/ (val[v] - Base(at, id)) % Modulus \in a.child[v]
      BY <1>4 DEF Fits
    <3>2. id \in AliasId
      BY <1>4, AliasesIs
    <3>3. b.child[v] = a.child[v] /\ val2[v] = val[v] /\ b.child[v] # {}
      BY <1>4, <1>5, <1>6, <2>2
    <3>4. (IF id \in ids \cap Ptr THEN "bad" ELSE id) \in Aliases(b, v)
      <4>1. CASE v \in D
        <5>1. Aliases(a, v) = m1.fwd[v] /\ Aliases(b, v) = m.fwd[v] /\ v \in D \ gone
          BY <1>2, <1>6, <2>2, <4>1 DEF Aliases
        <5>2. QED
          BY <1>3, <3>1, <5>1
      <4>2. CASE v \notin D
        <5>1. Aliases(a, v) = {"null"} /\ Aliases(b, v) = {"null"} /\ "null" \notin Ptr
          BY <1>6, <4>2, AlsAssumption DEF Aliases, AlsAssumption
        <5>2. QED
          BY <3>1, <5>1
      <4>3. QED
        BY <4>1, <4>2
    <3>5. CASE id \in ids \cap Ptr \/ id = "bad"
      BY <3>3, <3>4, <3>5 DEF Fits
    <3>6. CASE id \notin ids \cap Ptr /\ id # "bad"
      <4>1. Base(at2, id) = Base(at, id)
        BY <3>2, <3>6 DEF AliasId, Base
      <4>2. QED
        BY <3>1, <3>3, <3>4, <3>6, <4>1 DEF Fits
    <3>7. QED
      BY <3>5, <3>6
  <2>3. QED
    BY <2>1, <2>2
<1>8. QED
  BY <1>7 DEF Fitting, b

LEMMA ProjectedFits ==
  ASSUME NEW a \in OkState, NEW gone \in SUBSET Var,
         NEW val \in [Var -> Values], NEW at \in [Ptr -> Values], Fitting(a, val, at)
  PROVE  Fitting(State(ErasedAll(a.elements, gone), Forget(a.child, gone)), val, at)
<1> DEFINE D == DOMAIN a.elements.fwd
           m == ErasedAll(a.elements, gone)
           c == Forget(a.child, gone)
           b == State(m, c)
<1>1. m \in OkMapOf(D \ gone) /\ \A v \in D \ gone : m.fwd[v] = a.elements.fwd[v]
  <2>1. IsFiniteSet(gone)
    BY AlsAssumption, FS_Subset DEF AlsAssumption
  <2>2. QED
    BY <2>1, StateIs, ErasedAllOk
<1>2. /\ a.child \in Child /\ \A v \in Var : a.child[v] # {}
      /\ \A v \in Var : Fits(Aliases(a, v), a.child[v], val[v], at)
  BY StateIs DEF Fitting
<1>3. \A v \in Var : c[v] = IF v \in gone THEN Values ELSE a.child[v]
  BY <1>2 DEF Forget
<1>4. b.elements = m /\ b.child = c /\ DOMAIN m.fwd = D \ gone
  BY <1>1 DEF State, OkMapOf
<1> HIDE DEF m, c, b
<1>5. ASSUME NEW v \in Var PROVE b.child[v] # {} /\ Fits(Aliases(b, v), b.child[v], val[v], at)
  <2>1. CASE v \in gone
    <3>1. b.child[v] = Values /\ Aliases(b, v) = {"null"} /\ val[v] \in Values /\ "null" \in AliasId
      BY <1>3, <1>4, <2>1 DEF Aliases, AliasId
    <3>2. QED
      BY <3>1, FitsAll, ModulusIs
  <2>2. CASE v \notin gone
    <3>1. Aliases(b, v) = Aliases(a, v) /\ b.child[v] = a.child[v]
      BY <1>1, <1>3, <1>4, <2>2 DEF Aliases
    <3>2. QED
      BY <1>2, <3>1
  <2>3. QED
    BY <2>1, <2>2
<1>6. QED
  BY <1>5 DEF Fitting, b, m, c

-----------------------------------------------------------------------------
(* Merging *)

\* Both sides have aliases.
Shared(a, b) == DOMAIN a.elements.fwd \cap DOMAIN b.elements.fwd

\* The aliases of a merged state are those it has for the shared variables.
Merging(s, a, b) ==
  /\ DOMAIN s.elements.fwd = Shared(a, b)
  /\ \A v \in Shared(a, b) : /\ Aliases(a, v) = a.elements.fwd[v] /\ Aliases(b, v) = b.elements.fwd[v]
                            /\ Aliases(s, v) = s.elements.fwd[v]
  /\ \A v \in Var \ Shared(a, b) : Aliases(s, v) = {"null"}

LEMMA MergingIs ==
  ASSUME NEW a, NEW b, NEW s, DOMAIN s.elements.fwd = Shared(a, b)
  PROVE  Merging(s, a, b)
BY DEF Merging, Aliases, Shared

\* A joined or narrowed state has the aliases of both.
JoinOf(s, a, b) ==
  /\ DOMAIN s.elements.fwd = Shared(a, b)
  /\ \A v \in Shared(a, b) : s.elements.fwd[v] = a.elements.fwd[v] \cup b.elements.fwd[v]
  /\ \A v \in Shared(a, b) : Aliases(s, v) = Aliases(a, v) \cup Aliases(b, v)
  /\ \A v \in Var \ Shared(a, b) : Aliases(s, v) = {"null"}

LEMMA JoinIs ==
  ASSUME NEW a \in OkState, NEW b \in OkState, NEW c
  PROVE  JoinOf(State(Compat(FALSE, a, b), c), a, b)
<1> DEFINE s == State(Compat(FALSE, a, b), c)
<1>1. s.elements = Compat(FALSE, a, b)
  BY DEF State
<1> HIDE DEF s
<1>2. s.elements \in OkMapOf(Shared(a, b))
  BY <1>1, StateIs, CompatOk DEF Shared
<1>3. \A v \in Shared(a, b) : s.elements.fwd[v] = CompatAliases(FALSE, a.elements.fwd[v], b.elements.fwd[v])
  BY <1>1, StateIs, CompatOk DEF Shared
<1>4. DOMAIN s.elements.fwd = Shared(a, b)
  BY <1>2 DEF OkMapOf
<1>5. Merging(s, a, b)
  BY <1>4, MergingIs
<1>6. JoinOf(s, a, b)
  BY <1>3, <1>5 DEF CompatAliases, Merging, JoinOf
<1>7. QED
  BY <1>6 DEF s

Grown(ids, more) == IF more \subseteq ids THEN ids ELSE ids \cup {"bad"}

\* In a widened state a variable with new aliases is bad.
WideningOf(s, a, b) ==
  /\ DOMAIN s.elements.fwd = Shared(a, b)
  /\ \A v \in Shared(a, b) : s.elements.fwd[v] = Grown(a.elements.fwd[v], b.elements.fwd[v])
  /\ \A v \in Shared(a, b) : Aliases(s, v) = Grown(Aliases(a, v), Aliases(b, v))
  /\ \A v \in Var \ Shared(a, b) : Aliases(s, v) = {"null"}

LEMMA WideningIs ==
  ASSUME NEW a \in OkState, NEW b \in OkState, NEW c
  PROVE  WideningOf(State(Compat(TRUE, a, b), c), a, b)
<1> DEFINE s == State(Compat(TRUE, a, b), c)
<1>1. s.elements = Compat(TRUE, a, b)
  BY DEF State
<1> HIDE DEF s
<1>2. s.elements \in OkMapOf(Shared(a, b))
  BY <1>1, StateIs, CompatOk DEF Shared
<1>3. \A v \in Shared(a, b) : s.elements.fwd[v] = CompatAliases(TRUE, a.elements.fwd[v], b.elements.fwd[v])
  BY <1>1, StateIs, CompatOk DEF Shared
<1>4. DOMAIN s.elements.fwd = Shared(a, b)
  BY <1>2 DEF OkMapOf
<1>5. Merging(s, a, b)
  BY <1>4, MergingIs
<1>6. \A v \in Shared(a, b) : s.elements.fwd[v] = Grown(a.elements.fwd[v], b.elements.fwd[v])
  <2>1. TAKE v \in Shared(a, b)
  <2> DEFINE ids == a.elements.fwd[v]
             more == b.elements.fwd[v]
  <2>2. s.elements.fwd[v] = CompatAliases(TRUE, ids, more)
    BY <1>3
  <2> HIDE DEF ids, more
  <2>3. s.elements.fwd[v] = Grown(ids, more)
    BY <2>2 DEF CompatAliases, Grown
  <2>4. QED
    BY <2>3 DEF ids, more
<1>7. WideningOf(s, a, b)
  BY <1>5, <1>6 DEF Merging, WideningOf
<1>8. QED
  BY <1>7 DEF s

\* What a side covers, the join covers.
LEMMA JoinedFits ==
  ASSUME NEW a \in OkState, NEW b \in OkState, MissingTop(a), MissingTop(b), ~IsBottom(a), ~IsBottom(b),
         NEW val \in [Var -> Values], NEW at \in [Ptr -> Values], Fitting(a, val, at) \/ Fitting(b, val, at)
  PROVE  Fitting(Joined(a, b), val, at)
<1> DEFINE c == [v \in Var |-> a.child[v] \cup b.child[v]]
           D == Shared(a, b)
           s == State(Compat(FALSE, a, b), c)
<1>1. Joined(a, b) = s /\ s.elements = Compat(FALSE, a, b) /\ s.child = c
  BY DEF Joined, State
<1>2. /\ s.child = c
      /\ \A v \in D : Aliases(s, v) = Aliases(a, v) \cup Aliases(b, v)
      /\ \A v \in Var \ D : Aliases(s, v) = {"null"}
  <2>1. JoinOf(s, a, b)
    BY JoinIs
  <2> HIDE DEF s, c
  <2>2. QED
    BY <1>1, <2>1 DEF JoinOf
<1>3. /\ a.child \in Child /\ b.child \in Child
      /\ \A v \in Var \ DOMAIN a.elements.fwd : a.child[v] = Values
      /\ \A v \in Var \ DOMAIN b.elements.fwd : b.child[v] = Values
  BY StateIs DEF MissingTop
<1> HIDE DEF s
<1>4. ASSUME NEW v \in Var PROVE s.child[v] # {} /\ Fits(Aliases(s, v), s.child[v], val[v], at)
  <2>1. /\ s.child[v] = a.child[v] \cup b.child[v] /\ val[v] \in Values
        /\ s.child[v] # {}
    BY <1>2, <1>3 DEF Fitting
  <2>2. CASE v \in D
    <3>1. Aliases(s, v) = Aliases(a, v) \cup Aliases(b, v)
      BY <1>2, <2>2
    <3>2. Fits(Aliases(a, v), a.child[v], val[v], at) \/ Fits(Aliases(b, v), b.child[v], val[v], at)
      BY DEF Fitting
    <3>3. QED
      BY <2>1, <3>1, <3>2 DEF Fits
  <2>3. CASE v \notin D
    <3>1. s.child[v] = Values
      <4>1. a.child[v] = Values \/ b.child[v] = Values
        BY <1>3, <2>3 DEF Shared
      <4>2. a.child[v] \subseteq Values /\ b.child[v] \subseteq Values
        BY <1>3 DEF Child
      <4>3. QED
        BY <2>1, <4>1, <4>2
    <3>2. {"null"} \in (SUBSET AliasId) \ {{}}
      BY DEF AliasId
    <3>3. QED
      BY <1>2, <2>1, <2>3, <3>1, <3>2, FitsAll
  <2>4. QED
    BY <2>2, <2>3
<1>5. QED
  BY <1>1, <1>4 DEF Fitting

\* What the new side covers, the boxed state covers.
LEMMA BoxedFits ==
  ASSUME NEW a \in OkState, NEW b \in OkState, MissingTop(b), ~IsBottom(a), ~IsBottom(b),
         DOMAIN b.elements.fwd \subseteq DOMAIN a.elements.fwd,
         NEW val \in [Var -> Values], NEW at \in [Ptr -> Values], Fitting(b, val, at)
  PROVE  Fitting(Boxed(a, b), val, at)
<1> DEFINE D == Shared(a, b)
           c == WidenedChild(a.child, b.child)
           s1 == State(Compat(FALSE, a, b), b.child)
           s2 == State(Compat(TRUE, a, b), c)
<1>1. /\ Boxed(a, b) = IF GreaterEq(a, b) THEN s1 ELSE s2
      /\ s1.elements = Compat(FALSE, a, b) /\ s1.child = b.child
      /\ s2.elements = Compat(TRUE, a, b) /\ s2.child = c
  BY DEF Boxed, Narrowed, Widened, State
<1>2. /\ s1.child = b.child
      /\ \A v \in D : Aliases(s1, v) = Aliases(a, v) \cup Aliases(b, v)
      /\ \A v \in Var \ D : Aliases(s1, v) = {"null"}
  <2>1. JoinOf(s1, a, b)
    BY JoinIs
  <2> HIDE DEF s1, s2, c
  <2>2. QED
    BY <1>1, <2>1 DEF JoinOf
<1>3. /\ s2.child = c
      /\ \A v \in D : Aliases(s2, v) = IF Aliases(b, v) \subseteq Aliases(a, v)
                                         THEN Aliases(a, v) ELSE Aliases(a, v) \cup {"bad"}
      /\ \A v \in Var \ D : Aliases(s2, v) = {"null"}
  <2>1. WideningOf(s2, a, b)
    BY WideningIs
  <2> HIDE DEF s1, s2, c
  <2>2. QED
    BY <1>1, <2>1 DEF WideningOf, Grown
<1>4. /\ a.child \in Child /\ b.child \in Child
      /\ \A v \in Var \ DOMAIN b.elements.fwd : b.child[v] = Values /\ Aliases(b, v) = {"null"}
      /\ \A v \in Var : b.child[v] # {} /\ Fits(Aliases(b, v), b.child[v], val[v], at)
  BY StateIs DEF MissingTop, Fitting, Aliases
<1>5. \A v \in Var : c[v] = IF b.child[v] \subseteq a.child[v] THEN a.child[v] ELSE Values
  BY DEF WidenedChild
<1>6. \A v \in Var : v \in D \/ v \in Var \ DOMAIN b.elements.fwd
  BY DEF Shared
<1> HIDE DEF s1, s2, c, D
<1>7. ASSUME NEW v \in Var PROVE s1.child[v] # {} /\ Fits(Aliases(s1, v), s1.child[v], val[v], at)
  <2>1. CASE v \in D
    <3>1. Aliases(b, v) \subseteq Aliases(s1, v)
      BY <1>2, <2>1
    <3>2. QED
      BY <1>2, <1>4, <3>1, FitsMore
  <2>2. CASE v \notin D
    <3>1. Aliases(s1, v) = Aliases(b, v)
      BY <1>2, <1>4, <1>6, <2>2
    <3>2. QED
      BY <1>2, <1>4, <3>1
  <2>3. QED
    BY <2>1, <2>2
<1>8. ASSUME NEW v \in Var PROVE s2.child[v] # {} /\ Fits(Aliases(s2, v), s2.child[v], val[v], at)
  <2>1. b.child[v] \subseteq s2.child[v] /\ b.child[v] # {}
    BY <1>3, <1>4, <1>5 DEF Child
  <2>2. CASE v \in D
    <3>1. Aliases(b, v) \subseteq Aliases(s2, v) \/ "bad" \in Aliases(s2, v)
      BY <1>3, <2>2
    <3>2. CASE Aliases(b, v) \subseteq Aliases(s2, v)
      BY <1>4, <2>1, <3>2, FitsMore
    <3>3. CASE "bad" \in Aliases(s2, v)
      BY <2>1, <3>3 DEF Fits
    <3>4. QED
      BY <3>1, <3>2, <3>3
  <2>3. CASE v \notin D
    <3>1. Aliases(s2, v) = Aliases(b, v)
      BY <1>3, <1>4, <1>6, <2>3
    <3>2. QED
      BY <1>4, <2>1, <3>1, FitsMore
  <2>4. QED
    BY <2>2, <2>3
<1>9. QED
  BY <1>1, <1>7, <1>8 DEF Fitting

\* A state greater than another covers what it covers.
LEMMA GreaterFits ==
  ASSUME NEW a \in OkState, NEW b \in OkState, MissingTop(a), ~IsBottom(a), ~IsBottom(b), GreaterEq(a, b),
         NEW val \in [Var -> Values], NEW at \in [Ptr -> Values], Fitting(b, val, at)
  PROVE  Fitting(a, val, at)
<1>1. ASSUME NEW v \in Var PROVE a.child[v] # {} /\ Fits(Aliases(a, v), a.child[v], val[v], at)
  <2>1. /\ b.child[v] \subseteq a.child[v] /\ b.child[v] # {} /\ val[v] \in Values
        /\ Fits(Aliases(b, v), b.child[v], val[v], at)
    BY DEF GreaterEq, Fitting
  <2>2. CASE v \in DOMAIN a.elements.fwd
    <3>1. Aliases(b, v) \subseteq Aliases(a, v)
      BY <2>2 DEF GreaterEq, Aliases
    <3>2. QED
      BY <2>1, <3>1, FitsMore
  <2>3. CASE v \notin DOMAIN a.elements.fwd
    <3>1. a.child[v] = Values /\ Aliases(a, v) = {"null"} /\ {"null"} \in (SUBSET AliasId) \ {{}}
      BY <2>3 DEF MissingTop, Aliases, AliasId
    <3>2. QED
      BY <2>1, <3>1, FitsAll
  <2>4. QED
    BY <2>2, <2>3
<1>2. QED
  BY <1>1 DEF Fitting

\* The join lies above both sides.
LEMMA JoinedAbove ==
  ASSUME NEW a \in OkState, NEW b \in OkState, ~IsBottom(a), ~IsBottom(b)
  PROVE  GreaterEq(Joined(a, b), a) /\ GreaterEq(Joined(a, b), b)
<1> DEFINE c == [v \in Var |-> a.child[v] \cup b.child[v]]
           D == Shared(a, b)
           s == State(Compat(FALSE, a, b), c)
<1>1. Joined(a, b) = s /\ s.elements = Compat(FALSE, a, b) /\ s.child = c
  BY DEF Joined, State
<1>2. /\ s.child = c /\ DOMAIN s.elements.fwd = D
      /\ \A v \in D : s.elements.fwd[v] = a.elements.fwd[v] \cup b.elements.fwd[v]
  <2>1. JoinOf(s, a, b)
    BY JoinIs
  <2> HIDE DEF s, c
  <2>2. QED
    BY <1>1, <2>1 DEF JoinOf
<1> HIDE DEF s
<1>3. \A v \in D : a.elements.fwd[v] \subseteq s.elements.fwd[v] /\ b.elements.fwd[v] \subseteq s.elements.fwd[v]
  BY <1>2
<1>4. \A v \in Var : a.child[v] \subseteq s.child[v] /\ b.child[v] \subseteq s.child[v]
  BY <1>2
<1>5. GreaterEq(s, a) /\ GreaterEq(s, b)
  BY <1>2, <1>3, <1>4 DEF GreaterEq, Shared
<1>6. QED
  BY <1>1, <1>5

-----------------------------------------------------------------------------
(* Renaming *)

\* The last of the first pairs, and those before it.
LEMMA LastIs ==
  ASSUME NEW k \in Nat
  PROVE  Sq!Max(1 .. k + 1) = k + 1 /\ (1 .. k + 1) \ {k + 1} = 1 .. k /\ 1 .. k + 1 # {} /\ 1 .. 0 = {}
<1> DEFINE T == 1 .. k + 1
<1>1. k + 1 \in T /\ \A y \in T : k + 1 >= y
  OBVIOUS
<1>2. \A x \in T : (\A y \in T : x >= y) => x = k + 1
  OBVIOUS
<1>3. Sq!Max(T) = k + 1
  <2> HIDE DEF T
  <2> QED BY <1>1, <1>2, Zenon DEF Sq!Max
<1>4. (1 .. k + 1) \ {k + 1} = 1 .. k /\ T # {} /\ 1 .. 0 = {}
  OBVIOUS
<1>5. QED
  BY <1>3, <1>4

\* From one pair to the next.
LEMMA StepByStep ==
  ASSUME NEW n \in Nat, NEW T, 0 \in T, \A k \in 0 .. n - 1 : k \in T => k + 1 \in T
  PROVE  n \in T
<1> DEFINE U == {k \in 0 .. n : k \notin T}
<1>1. ASSUME U # {} PROVE FALSE
  <2>1. U \in SUBSET Nat
    OBVIOUS
  <2>2. PICK m \in U : \A k \in U : m <= k
    <3> HIDE DEF U
    <3> QED BY <1>1, <2>1, LeastNumber
  <2>3. m # 0 /\ m \in 0 .. n
    OBVIOUS
  <2>4. m - 1 \in 0 .. n - 1 /\ m - 1 \notin U
    <3>1. m - 1 \in 0 .. n - 1 /\ ~(m <= m - 1)
      BY <2>3
    <3>2. QED
      BY <2>2, <3>1
  <2>5. m - 1 \in T /\ (m - 1) + 1 = m
    BY <2>3, <2>4
  <2>6. QED
    BY <2>4, <2>5
<1>2. QED
  BY <1>1

AliasesIn(m, v) == IF v \in DOMAIN m.fwd THEN m.fwd[v] ELSE {"null"}

\* What an old pointer was, its new name is.
LEMMA AliasRenamedFits ==
  ASSUME NEW D, NEW m \in OkMapOf(D), NEW c, NEW p \in Pair, NEW val, NEW r \in Execution,
         \A v \in D : Fits(m.fwd[v], c[v], val[v], r.at),
         p[1] \in Ptr => \A v \in D : p[1] \notin m.fwd[v]
  PROVE  /\ \A v \in D : Fits(RenamedAlias(m, p).fwd[v], c[v], val[v], RenamedRun(r, p).at)
         /\ p[1] \in Ptr => \A v \in D : RenamedAlias(m, p).fwd[v] = Exchanged(m.fwd[v], p[2], p[1])
         /\ p[1] \notin Ptr => RenamedAlias(m, p) = m
<1> DEFINE m2 == RenamedAlias(m, p)
           at == r.at
           at2 == RenamedRun(r, p).at
<1>1. CASE p[1] \notin Ptr
  <2>1. p[1] \in Var /\ p[2] \notin Ptr
    BY <1>1, PairIs
  <2>2. m2 = m
    BY <2>1 DEF RenamedAlias
  <2>3. at2 = r.at
    BY <2>1 DEF RenamedRun, Execution
  <2>4. QED
    BY <1>1, <2>2, <2>3
<1>2. CASE p[1] \in Ptr
  <2>1. p[2] \in Ptr /\ p[1] \notin Var
    BY <1>2, PairIs
  <2>2. m2 = Replaced(m, p[2], p[1]) /\ p[1] \in AliasId /\ p[2] \in AliasId
    BY <1>2, <2>1 DEF RenamedAlias, AliasId
  <2>3. \A v \in D : m2.fwd[v] = Exchanged(m.fwd[v], p[2], p[1])
    <3> HIDE DEF m2
    <3> QED BY <2>2, ReplacedOk
  <2>4. at2 = [at EXCEPT ![p[1]] = at[p[2]]]
    BY <2>1 DEF RenamedRun, Execution
  <2>5. at \in [Ptr -> Values] /\ "bad" \notin Ptr /\ "null" \notin Ptr
    BY AlsAssumption DEF Execution, AlsAssumption
  <2> HIDE DEF m2, at2, at
  <2>6. ASSUME NEW v \in D PROVE Fits(m2.fwd[v], c[v], val[v], at2)
    <3> DEFINE ids == m.fwd[v]
    <3>1. PICK id \in ids : id = "bad" \/ (val[v] - Base(at, id)) % Modulus \in c[v]
      BY DEF Fits, at
    <3>2. p[1] \notin ids /\ m2.fwd[v] = Exchanged(ids, p[2], p[1])
      BY <1>2, <2>3
    <3> HIDE DEF ids
    <3>3. CASE id = p[2]
      <4>1. p[1] \in m2.fwd[v]
        BY <3>2, <3>3 DEF Exchanged
      <4>2. Base(at2, p[1]) = Base(at, id) /\ id # "bad"
        BY <1>2, <2>1, <2>4, <2>5, <3>3 DEF Base
      <4>3. QED
        BY <3>1, <4>1, <4>2 DEF Fits
    <3>4. CASE id # p[2]
      <4>1. id \in m2.fwd[v] /\ id # p[1]
        BY <3>1, <3>2, <3>4 DEF Exchanged
      <4>2. Base(at2, id) = Base(at, id)
        BY <2>4, <4>1 DEF Base
      <4>3. QED
        BY <3>1, <4>1, <4>2 DEF Fits
    <3>5. QED
      BY <3>3, <3>4
  <2>7. QED
    BY <1>2, <2>3, <2>6 DEF m2, at2
<1>3. QED
  BY <1>1, <1>2

\* What is known of an old variable is known under the new name.
LEMMA RenamedOffsetIs ==
  ASSUME NEW c \in Child, NEW p \in Pair, p[1] \in Var, NEW v \in Var
  PROVE  RenamedOffset(c, p)[v] = IF v = p[2] THEN Values ELSE IF v = p[1] THEN c[p[2]] ELSE c[v]
<1>1. p[2] \in Var
  BY PairIs
<1>2. QED
  BY <1>1 DEF RenamedOffset, Child

LEMMA RenamedVarIs ==
  ASSUME NEW m \in OkMap, NEW p \in Pair, p[1] \in Var, p[1] \notin DOMAIN m.fwd
  PROVE  /\ RenamedVar(m, p) \in OkMap
         /\ DOMAIN RenamedVar(m, p).fwd \subseteq (DOMAIN m.fwd \cup {p[1]}) \ {p[2]}
         /\ \A v \in Var : AliasesIn(RenamedVar(m, p), v)
              = IF v = p[2] THEN {"null"} ELSE AliasesIn(m, IF v = p[1] THEN p[2] ELSE v)
<1> DEFINE D == DOMAIN m.fwd
           m2 == RenamedVar(m, p)
<1>1. p[2] \in Var /\ \A v \in D : m.fwd[v] \in (SUBSET AliasId) \ {{}}
  BY PairIs, MapIs DEF OkMap
<1>2. CASE p[2] \in D
  <2> DEFINE ids == m.fwd[p[2]]
             e == Put(m, p[1], ids)
  <2>1. m2 = Erased(e, p[2]) /\ ids \in (SUBSET AliasId) \ {{}}
    BY <1>1, <1>2 DEF RenamedVar
  <2> HIDE DEF ids
  <2>2. /\ e \in OkMap /\ DOMAIN e.fwd = D \cup {p[1]} /\ e.fwd[p[1]] = ids
        /\ \A w \in D \ {p[1]} : e.fwd[w] = m.fwd[w]
    BY <2>1, PutOk DEF OkMapOf
  <2> HIDE DEF e
  <2>3. /\ m2 \in OkMap /\ DOMAIN m2.fwd = DOMAIN e.fwd \ {p[2]}
        /\ \A w \in DOMAIN e.fwd \ {p[2]} : m2.fwd[w] = e.fwd[w]
    <3> HIDE DEF m2
    <3> QED BY <1>1, <2>1, <2>2, ErasedOk DEF OkMapOf
  <2> HIDE DEF m2
  <2>4. \A v \in Var : AliasesIn(m2, v)
              = IF v = p[2] THEN {"null"} ELSE AliasesIn(m, IF v = p[1] THEN p[2] ELSE v)
    BY <1>2, <2>2, <2>3 DEF AliasesIn, ids
  <2>5. QED
    BY <2>2, <2>3, <2>4 DEF m2
<1>3. CASE p[2] \notin D
  <2>1. m2 = m
    BY <1>3 DEF RenamedVar
  <2> HIDE DEF m2
  <2>2. \A v \in Var : AliasesIn(m2, v)
              = IF v = p[2] THEN {"null"} ELSE AliasesIn(m, IF v = p[1] THEN p[2] ELSE v)
    BY <1>3, <2>1 DEF AliasesIn
  <2>3. QED
    BY <1>3, <2>1, <2>2 DEF m2
<1>4. QED
  BY <1>2, <1>3

LEMMA VarRenamedFits ==
  ASSUME NEW m \in OkMap, NEW c \in Child, NEW p \in Pair, NEW r \in Execution, NEW at \in [Ptr -> Values],
         \A v \in Var : c[v] # {} /\ Fits(AliasesIn(m, v), c[v], r.val[v], at),
         p[1] \in Var => p[1] \notin DOMAIN m.fwd
  PROVE  \A v \in Var : /\ RenamedOffset(c, p)[v] # {}
                        /\ Fits(AliasesIn(RenamedVar(m, p), v), RenamedOffset(c, p)[v], RenamedRun(r, p).val[v], at)
<1> DEFINE m2 == RenamedVar(m, p)
           c2 == RenamedOffset(c, p)
           val == r.val
           val2 == RenamedRun(r, p).val
<1>1. CASE p[1] \notin Var
  <2>1. p[1] \in Ptr /\ p[2] \notin DOMAIN m.fwd
    BY <1>1, PairIs, MapIs DEF OkMap
  <2>2. m2 = m /\ c2 = c
    BY <1>1, <2>1 DEF RenamedVar, RenamedOffset
  <2>3. val2 = r.val
    BY <1>1 DEF RenamedRun, Execution
  <2>4. QED
    BY <2>2, <2>3
<1>2. CASE p[1] \in Var
  <2>1. /\ \A v \in Var : c2[v] = IF v = p[2] THEN Values ELSE IF v = p[1] THEN c[p[2]] ELSE c[v]
        /\ \A v \in Var : AliasesIn(m2, v)
              = IF v = p[2] THEN {"null"} ELSE AliasesIn(m, IF v = p[1] THEN p[2] ELSE v)
    BY <1>2, RenamedOffsetIs, RenamedVarIs
  <2>2. val2 = [val EXCEPT ![p[1]] = val[p[2]]] /\ val \in [Var -> Values] /\ p[2] \in Var
    BY <1>2, PairIs DEF RenamedRun, Execution
  <2>3. {"null"} \in (SUBSET AliasId) \ {{}} /\ Values # {}
    BY ModulusIs DEF AliasId
  <2>4. \A v \in Var : c[v] # {} /\ Fits(AliasesIn(m, v), c[v], val[v], at)
    OBVIOUS
  <2> HIDE DEF m2, c2, val, val2
  <2>5. ASSUME NEW v \in Var PROVE c2[v] # {} /\ Fits(AliasesIn(m2, v), c2[v], val2[v], at)
    <3>1. CASE v = p[2]
      <4>1. c2[v] = Values /\ AliasesIn(m2, v) = {"null"} /\ val2[v] \in Values
        BY <1>2, <2>1, <2>2, <3>1
      <4>2. QED
        BY <2>3, <4>1, FitsAll
    <3>2. CASE v # p[2] /\ v = p[1]
      <4>1. c2[v] = c[p[2]] /\ AliasesIn(m2, v) = AliasesIn(m, p[2]) /\ val2[v] = val[p[2]]
        BY <2>1, <2>2, <3>2
      <4>2. QED
        BY <2>2, <2>4, <4>1
    <3>3. CASE v # p[2] /\ v # p[1]
      <4>1. c2[v] = c[v] /\ AliasesIn(m2, v) = AliasesIn(m, v) /\ val2[v] = val[v]
        BY <2>1, <2>2, <3>3
      <4>2. QED
        BY <2>4, <4>1
    <3>4. QED
      BY <3>1, <3>2, <3>3
  <2>6. QED
    BY <2>5 DEF m2, c2, val2
<1>3. QED
  BY <1>1, <1>2

\* A fold over the pairs goes from one to the next.
LEMMA PairsAre ==
  ASSUME NEW pairs \in Renames
  PROVE  /\ pairs \in Seq(Pair) /\ Len(pairs) \in Nat /\ DOMAIN pairs = 1 .. Len(pairs)
         /\ \A i \in 1 .. Len(pairs) : pairs[i] \in Pair
         /\ \A i, j \in 1 .. Len(pairs) : pairs[i][1] = pairs[j][1] => i = j
<1>1. pairs \in Seq(Pair) /\ \A i, j \in DOMAIN pairs : pairs[i][1] = pairs[j][1] => i = j
  BY InputsAssumption DEF InputsAssumption, Pair
<1>2. QED
  BY <1>1

\* The new names of the pairs from k on are not in use, or an earlier pair frees them.
FreshPtr(pairs, m, k) ==
  \A i \in k + 1 .. Len(pairs) : pairs[i][1] \in Ptr =>
    (\A v \in DOMAIN m.fwd : pairs[i][1] \notin m.fwd[v]) \/ \E j \in k + 1 .. i - 1 : pairs[j][2] = pairs[i][1]

FreshVar(pairs, m, k) ==
  \A i \in k + 1 .. Len(pairs) : pairs[i][1] \in Var =>
    pairs[i][1] \notin DOMAIN m.fwd \/ \E j \in k + 1 .. i - 1 : pairs[j][2] = pairs[i][1]

\* First the pointers.
LEMMA AliasesRenamedFit ==
  ASSUME NEW pairs \in Renames, NEW D, NEW m \in OkMapOf(D), NEW c, NEW val, NEW r \in Execution,
         \A v \in D : Fits(m.fwd[v], c[v], val[v], r.at), FreshPtr(pairs, m, 0)
  PROVE  LET b == RenamedAliases(m, pairs)
             end == Sq!FoldLeft(RenamedRun, r, pairs)
         IN  \A v \in D : Fits(b.fwd[v], c[v], val[v], end.at)
<1> DEFINE n == Len(pairs)
           S == DOMAIN pairs
<1>1. /\ pairs \in Seq(Pair) /\ n \in Nat /\ S = 1 .. n
      /\ \A i \in 1 .. n : pairs[i] \in Pair
      /\ \A i, j \in 1 .. n : pairs[i][1] = pairs[j][1] => i = j
  BY PairsAre
<1>2. PICK F : /\ RenamedAliases(m, pairs) = F[S]
               /\ \A s \in SUBSET S : F[s] \in OkMapOf(D)
               /\ \A s \in SUBSET S :
                    F[s] = IF s = {} THEN m ELSE RenamedAlias(F[s \ {Sq!Max(s)}], pairs[Sq!Max(s)])
  <2>1. m \in OkMap /\ DOMAIN m.fwd = D
    BY DEF OkMapOf
  <2>2. PICK F : /\ RenamedAliases(m, pairs) = F[S]
                 /\ \A s \in SUBSET S : F[s] \in OkMapOf(DOMAIN m.fwd)
                 /\ \A s \in SUBSET S :
                      F[s] = IF s = {} THEN m ELSE RenamedAlias(F[s \ {Sq!Max(s)}], pairs[Sq!Max(s)])
    BY <1>1, <2>1, RenamedAliasesAre
  <2>3. QED
    BY <2>1, <2>2
<1>3. PICK R : /\ Sq!FoldLeft(RenamedRun, r, pairs) = R[S]
               /\ \A s \in SUBSET S : R[s] \in Execution
               /\ \A s \in SUBSET S :
                    R[s] = IF s = {} THEN r ELSE RenamedRun(R[s \ {Sq!Max(s)}], pairs[Sq!Max(s)])
  BY <1>1, RunRenamedIs
<1> HIDE DEF n, S
<1>4. F[1 .. 0] = m /\ R[1 .. 0] = r
  <2>1. 1 .. 0 = {} /\ {} \in SUBSET S
    OBVIOUS
  <2>2. F[{}] = m /\ R[{}] = r
    BY <1>2, <1>3, <2>1
  <2>3. QED
    BY <2>1, <2>2, Zenon
<1>5. ASSUME NEW k \in 0 .. n - 1
      PROVE  /\ F[1 .. k + 1] = RenamedAlias(F[1 .. k], pairs[k + 1])
             /\ R[1 .. k + 1] = RenamedRun(R[1 .. k], pairs[k + 1])
             /\ F[1 .. k] \in OkMapOf(D) /\ R[1 .. k] \in Execution /\ k + 1 \in 1 .. n
  <2>1. k \in Nat /\ k + 1 \in 1 .. n /\ 1 .. k + 1 \in SUBSET S /\ 1 .. k \in SUBSET S
    BY <1>1
  <2>2. Sq!Max(1 .. k + 1) = k + 1 /\ (1 .. k + 1) \ {k + 1} = 1 .. k /\ 1 .. k + 1 # {}
    BY <2>1, LastIs
  <2>3. QED
    BY <1>2, <1>3, <2>1, <2>2
<1> DEFINE Good(k) == \A v \in D : Fits(F[1 .. k].fwd[v], c[v], val[v], R[1 .. k].at)
           T == {k \in 0 .. n : Good(k) /\ FreshPtr(pairs, F[1 .. k], k)}
<1>6. 0 \in T
  BY <1>1, <1>4
<1>7. ASSUME NEW k \in 0 .. n - 1, k \in T PROVE k + 1 \in T
  <2> DEFINE e == F[1 .. k]
             e2 == F[1 .. k + 1]
             p == pairs[k + 1]
             q == R[1 .. k]
  <2>1. /\ e \in OkMapOf(D) /\ p \in Pair /\ q \in Execution /\ e2 = RenamedAlias(e, p)
        /\ R[1 .. k + 1] = RenamedRun(q, p) /\ k + 1 \in 1 .. n /\ DOMAIN e.fwd = D
    BY <1>1, <1>5 DEF OkMapOf
  <2>2. /\ \A v \in D : Fits(e.fwd[v], c[v], val[v], q.at)
        /\ FreshPtr(pairs, e, k)
    BY <1>7
  <2>3. DOMAIN e2.fwd = D
    <3>1. F[1 .. k + 1] \in OkMapOf(D)
      <4>1. 1 .. k + 1 \in SUBSET S
        BY <1>1
      <4>2. QED
        BY <1>2, <4>1
    <3>2. QED
      BY <3>1 DEF OkMapOf
  <2>4. p[1] \in Ptr => \A v \in D : p[1] \notin e.fwd[v]
    <3>1. k + 1 \in k + 1 .. Len(pairs) /\ k + 1 .. (k + 1) - 1 = {}
      BY <1>1 DEF n
    <3> HIDE DEF e
    <3>2. QED
      BY <2>1, <2>2, <3>1 DEF FreshPtr
  <2> HIDE DEF e, e2, q, p
  <2>5. /\ \A v \in D : Fits(e2.fwd[v], c[v], val[v], RenamedRun(q, p).at)
        /\ p[1] \in Ptr => \A v \in D : e2.fwd[v] = Exchanged(e.fwd[v], p[2], p[1])
        /\ p[1] \notin Ptr => e2 = e
    BY <2>1, <2>2, <2>4, AliasRenamedFits
  <2>6. Good(k + 1)
    BY <2>1, <2>5 DEF e2
  <2>7. FreshPtr(pairs, e2, k + 1)
    <3>1. ASSUME NEW i \in (k + 1) + 1 .. n, pairs[i][1] \in Ptr
          PROVE  (\A v \in D : pairs[i][1] \notin e2.fwd[v]) \/ \E j \in (k + 1) + 1 .. i - 1 : pairs[j][2] = pairs[i][1]
      <4>1. i \in 1 .. n /\ i # k + 1 /\ i \in k + 1 .. n
        OBVIOUS
      <4>2. pairs[i][1] # p[1]
        BY <1>1, <2>1, <4>1 DEF p
      <4>3. (\A v \in D : pairs[i][1] \notin e.fwd[v]) \/ \E j \in k + 1 .. i - 1 : pairs[j][2] = pairs[i][1]
        BY <2>1, <2>2, <3>1, <4>1 DEF FreshPtr, n
      <4>4. CASE \A v \in D : pairs[i][1] \notin e.fwd[v]
        BY <2>5, <4>2, <4>4 DEF Exchanged
      <4>5. CASE \E j \in k + 1 .. i - 1 : pairs[j][2] = pairs[i][1]
        <5>1. PICK j \in k + 1 .. i - 1 : pairs[j][2] = pairs[i][1]
          BY <4>5
        <5>2. CASE j = k + 1
          <6>1. p[2] = pairs[i][1] /\ p[2] # p[1]
            BY <4>2, <5>1, <5>2 DEF p
          <6>2. p[1] \in Ptr
            BY <2>1, <3>1, <6>1, PairIs
          <6>3. QED
            BY <2>5, <6>1, <6>2 DEF Exchanged
        <5>3. CASE j # k + 1
          <6>1. j \in (k + 1) + 1 .. i - 1
            BY <5>3
          <6>2. QED
            BY <5>1, <6>1
        <5>4. QED
          BY <5>2, <5>3
      <4>6. QED
        BY <4>3, <4>4, <4>5
    <3>2. QED
      BY <2>3, <3>1 DEF FreshPtr, n
  <2>8. QED
    BY <1>1, <2>1, <2>6, <2>7 DEF e2
<1>8. n \in T
  <2> HIDE DEF T
  <2> QED BY <1>1, <1>6, <1>7, StepByStep
<1>9. Good(n)
  BY <1>8
<1>10. QED
  BY <1>1, <1>2, <1>3, <1>9

\* Then the variables.
LEMMA VarsRenamedFit ==
  ASSUME NEW pairs \in Renames, NEW m \in OkMap, NEW c \in Child, NEW r \in Execution, NEW at \in [Ptr -> Values],
         \A v \in Var : c[v] # {} /\ Fits(AliasesIn(m, v), c[v], r.val[v], at), FreshVar(pairs, m, 0)
  PROVE  LET b == RenamedVars(m, pairs)
             d == ChildEquateKill(c, pairs)
             end == Sq!FoldLeft(RenamedRun, r, pairs)
         IN  \A v \in Var : d[v] # {} /\ Fits(AliasesIn(b, v), d[v], end.val[v], at)
<1> DEFINE n == Len(pairs)
           S == DOMAIN pairs
<1>1. /\ pairs \in Seq(Pair) /\ n \in Nat /\ S = 1 .. n
      /\ \A i \in 1 .. n : pairs[i] \in Pair
      /\ \A i, j \in 1 .. n : pairs[i][1] = pairs[j][1] => i = j
  BY PairsAre
<1>2. PICK F : /\ RenamedVars(m, pairs) = F[S]
               /\ \A s \in SUBSET S :
                    F[s] = IF s = {} THEN m ELSE RenamedVar(F[s \ {Sq!Max(s)}], pairs[Sq!Max(s)])
  BY <1>1, RenamedVarsAre
<1>3. PICK C : /\ ChildEquateKill(c, pairs) = C[S]
               /\ \A s \in SUBSET S :
                    C[s] = IF s = {} THEN c ELSE RenamedOffset(C[s \ {Sq!Max(s)}], pairs[Sq!Max(s)])
  BY <1>1, ChildRenamedIs
<1>4. PICK R : /\ Sq!FoldLeft(RenamedRun, r, pairs) = R[S]
               /\ \A s \in SUBSET S : R[s] \in Execution
               /\ \A s \in SUBSET S :
                    R[s] = IF s = {} THEN r ELSE RenamedRun(R[s \ {Sq!Max(s)}], pairs[Sq!Max(s)])
  BY <1>1, RunRenamedIs
<1> HIDE DEF n, S
<1>5. F[1 .. 0] = m /\ C[1 .. 0] = c /\ R[1 .. 0] = r
  <2>1. 1 .. 0 = {} /\ {} \in SUBSET S
    OBVIOUS
  <2>2. F[{}] = m /\ C[{}] = c /\ R[{}] = r
    BY <1>2, <1>3, <1>4, <2>1
  <2>3. QED
    BY <2>1, <2>2, Zenon
<1>6. ASSUME NEW k \in 0 .. n - 1
      PROVE  /\ F[1 .. k + 1] = RenamedVar(F[1 .. k], pairs[k + 1])
             /\ C[1 .. k + 1] = RenamedOffset(C[1 .. k], pairs[k + 1])
             /\ R[1 .. k + 1] = RenamedRun(R[1 .. k], pairs[k + 1])
             /\ R[1 .. k] \in Execution /\ k + 1 \in 1 .. n
  <2>1. k \in Nat /\ k + 1 \in 1 .. n /\ 1 .. k + 1 \in SUBSET S /\ 1 .. k \in SUBSET S
    BY <1>1
  <2>2. Sq!Max(1 .. k + 1) = k + 1 /\ (1 .. k + 1) \ {k + 1} = 1 .. k /\ 1 .. k + 1 # {}
    BY <2>1, LastIs
  <2>3. QED
    BY <1>2, <1>3, <1>4, <2>1, <2>2
<1> DEFINE Good(k) == \A v \in Var : C[1 .. k][v] # {} /\ Fits(AliasesIn(F[1 .. k], v), C[1 .. k][v], R[1 .. k].val[v], at)
           T == {k \in 0 .. n : F[1 .. k] \in OkMap /\ C[1 .. k] \in Child /\ Good(k) /\ FreshVar(pairs, F[1 .. k], k)}
<1>7. 0 \in T
  BY <1>1, <1>5
<1>8. ASSUME NEW k \in 0 .. n - 1, k \in T PROVE k + 1 \in T
  <2> DEFINE e == F[1 .. k]
             e2 == F[1 .. k + 1]
             d == C[1 .. k]
             d2 == C[1 .. k + 1]
             p == pairs[k + 1]
             q == R[1 .. k]
             q2 == R[1 .. k + 1]
  <2>1. /\ e \in OkMap /\ p \in Pair /\ q \in Execution /\ e2 = RenamedVar(e, p) /\ d \in Child
        /\ d2 = RenamedOffset(d, p) /\ q2 = RenamedRun(q, p) /\ k + 1 \in 1 .. n
    BY <1>1, <1>6, <1>8
  <2>2. /\ \A v \in Var : d[v] # {} /\ Fits(AliasesIn(e, v), d[v], q.val[v], at)
        /\ FreshVar(pairs, e, k)
    BY <1>8
  <2>3. p[1] \in Var => p[1] \notin DOMAIN e.fwd
    <3>1. k + 1 \in k + 1 .. Len(pairs) /\ k + 1 .. (k + 1) - 1 = {}
      BY <1>1 DEF n
    <3> HIDE DEF e
    <3>2. QED
      BY <2>1, <2>2, <3>1 DEF FreshVar
  <2> HIDE DEF e, e2, q, p, d, d2, q2
  <2>4. /\ \A v \in Var : d2[v] # {} /\ Fits(AliasesIn(e2, v), d2[v], q2.val[v], at)
    BY <2>1, <2>2, <2>3, VarRenamedFits
  <2>5. Good(k + 1)
    BY <2>4 DEF e2, d2, q2
  <2>6. e2 \in OkMap /\ d2 \in Child
    BY <2>1, RenamedTogether
  <2>7. DOMAIN e2.fwd \subseteq (DOMAIN e.fwd \cup {p[1]}) \ {p[2]}
    <3>1. CASE p[1] \in Var
      BY <2>1, <2>3, <3>1, RenamedVarIs
    <3>2. CASE p[1] \notin Var
      <4>1. p[2] \notin Var /\ DOMAIN e.fwd \subseteq Var
        BY <2>1, <3>2, PairIs, MapIs DEF OkMap
      <4>2. QED
        BY <2>1, <4>1 DEF RenamedVar
    <3>3. QED
      BY <3>1, <3>2
  <2>8. FreshVar(pairs, e2, k + 1)
    <3>1. ASSUME NEW i \in (k + 1) + 1 .. n, pairs[i][1] \in Var
          PROVE  pairs[i][1] \notin DOMAIN e2.fwd \/ \E j \in (k + 1) + 1 .. i - 1 : pairs[j][2] = pairs[i][1]
      <4>1. i \in 1 .. n /\ i # k + 1 /\ i \in k + 1 .. n
        OBVIOUS
      <4>2. pairs[i][1] # p[1]
        BY <1>1, <2>1, <4>1 DEF p
      <4>3. pairs[i][1] \notin DOMAIN e.fwd \/ \E j \in k + 1 .. i - 1 : pairs[j][2] = pairs[i][1]
        BY <2>2, <3>1, <4>1 DEF FreshVar, n
      <4>4. CASE pairs[i][1] \notin DOMAIN e.fwd
        BY <2>7, <4>2, <4>4
      <4>5. CASE \E j \in k + 1 .. i - 1 : pairs[j][2] = pairs[i][1]
        <5>1. PICK j \in k + 1 .. i - 1 : pairs[j][2] = pairs[i][1]
          BY <4>5
        <5>2. CASE j = k + 1
          <6>1. p[2] = pairs[i][1]
            BY <5>1, <5>2 DEF p
          <6>2. QED
            BY <2>7, <6>1
        <5>3. CASE j # k + 1
          <6>1. j \in (k + 1) + 1 .. i - 1
            BY <5>3
          <6>2. QED
            BY <5>1, <6>1
        <5>4. QED
          BY <5>2, <5>3
      <4>6. QED
        BY <4>3, <4>4, <4>5
    <3>2. QED
      BY <3>1 DEF FreshVar, n
  <2>9. QED
    BY <1>1, <2>1, <2>5, <2>6, <2>8 DEF e2, d2
<1>9. n \in T
  <2> HIDE DEF T
  <2> QED BY <1>1, <1>7, <1>8, StepByStep
<1>10. Good(n)
  BY <1>9
<1>11. QED
  BY <1>1, <1>2, <1>3, <1>4, <1>10

\* All pairs, first among the aliases, then as variables.
LEMMA RenamedFits ==
  ASSUME NEW a \in OkState, NEW pairs \in Renames, NEW r \in Execution, Fitting(a, r.val, r.at),
         \A i \in DOMAIN pairs :
           IsNew(a, pairs[i][1]) \/ \E j \in 1 .. i - 1 : pairs[j][2] = pairs[i][1]
  PROVE  LET m == RenamedVars(RenamedAliases(a.elements, pairs), pairs)
             c == ChildEquateKill(a.child, pairs)
             end == Sq!FoldLeft(RenamedRun, r, pairs)
         IN  Fitting(State(m, c), end.val, end.at)
<1> DEFINE D == DOMAIN a.elements.fwd
           m1 == RenamedAliases(a.elements, pairs)
           m == RenamedVars(m1, pairs)
           c == ChildEquateKill(a.child, pairs)
           end == Sq!FoldLeft(RenamedRun, r, pairs)
<1>1. /\ pairs \in Seq(Pair) /\ Len(pairs) \in Nat /\ DOMAIN pairs = 1 .. Len(pairs)
      /\ \A i \in 1 .. Len(pairs) : pairs[i] \in Pair
  BY PairsAre
<1>2. /\ a.elements \in OkMapOf(D) /\ a.elements \in OkMap /\ a.child \in Child
      /\ \A v \in Var : a.child[v] # {} /\ Fits(Aliases(a, v), a.child[v], r.val[v], r.at)
      /\ \A v \in D : a.elements.fwd[v] \in (SUBSET AliasId) \ {{}}
      /\ D \subseteq Var
  BY StateIs, MapIs DEF Fitting, OkMap
<1>3. end \in Execution /\ m1 \in OkMapOf(D)
  BY <1>1, <1>2, RunRenamed, RenamedAliasesOk
<1>4. FreshPtr(pairs, a.elements, 0)
  <2>1. ASSUME NEW i \in 0 + 1 .. Len(pairs), pairs[i][1] \in Ptr
        PROVE  (\A v \in DOMAIN a.elements.fwd : pairs[i][1] \notin a.elements.fwd[v])
               \/ \E j \in 0 + 1 .. i - 1 : pairs[j][2] = pairs[i][1]
    <3>1. i \in DOMAIN pairs /\ 0 + 1 = 1
      BY <1>1
    <3>2. CASE IsNew(a, pairs[i][1])
      <4>1. a.elements.back[pairs[i][1]] = {}
        BY <2>1, <3>2 DEF IsNew
      <4>2. pairs[i][1] \in AliasId /\ Inverted(a.elements)
        BY <1>2, <2>1 DEF AliasId, OkMap
      <4>3. \A v \in DOMAIN a.elements.fwd : pairs[i][1] \notin a.elements.fwd[v]
        BY <4>1, <4>2 DEF Inverted
      <4>4. QED
        BY <4>3
    <3>3. QED
      BY <3>1, <3>2
  <2>2. QED
    BY <2>1 DEF FreshPtr
<1>5. \A v \in D : Fits(m1.fwd[v], a.child[v], r.val[v], end.at)
  <2> DEFINE c0 == a.child
             val == r.val
             e == a.elements
  <2>1. \A v \in D : Fits(e.fwd[v], c0[v], val[v], r.at)
    BY <1>2 DEF Aliases
  <2>2. e \in OkMapOf(D) /\ FreshPtr(pairs, e, 0)
    BY <1>2, <1>4
  <2> HIDE DEF e, c0, val, D
  <2>3. \A v \in D : Fits(RenamedAliases(e, pairs).fwd[v], c0[v], val[v], Sq!FoldLeft(RenamedRun, r, pairs).at)
    BY <2>1, <2>2, AliasesRenamedFit
  <2>4. QED
    BY <2>3 DEF e, c0, val
<1>6. FreshVar(pairs, m1, 0)
  <2>1. ASSUME NEW i \in 0 + 1 .. Len(pairs), pairs[i][1] \in Var
        PROVE  pairs[i][1] \notin DOMAIN m1.fwd \/ \E j \in 0 + 1 .. i - 1 : pairs[j][2] = pairs[i][1]
    <3>1. i \in DOMAIN pairs /\ 0 + 1 = 1 /\ DOMAIN m1.fwd = D
      BY <1>1, <1>3 DEF OkMapOf
    <3> HIDE DEF m1
    <3>2. CASE IsNew(a, pairs[i][1])
      <4>1. pairs[i][1] \notin Ptr
        BY <2>1, AlsAssumption DEF AlsAssumption
      <4>2. QED
        BY <3>1, <3>2, <4>1 DEF IsNew
    <3>3. QED
      BY <3>1, <3>2
  <2> HIDE DEF m1
  <2>2. QED
    BY <2>1 DEF FreshVar
<1>7. \A v \in Var : a.child[v] # {} /\ Fits(AliasesIn(m1, v), a.child[v], r.val[v], end.at)
  <2>1. DOMAIN m1.fwd = D
    BY <1>3 DEF OkMapOf
  <2>2. ASSUME NEW v \in Var, v \notin D PROVE Fits({"null"}, a.child[v], r.val[v], end.at)
    <3>1. r.val[v] \in Values /\ Aliases(a, v) = {"null"}
      BY <2>2 DEF Execution, Aliases
    <3>2. Fits({"null"}, a.child[v], r.val[v], r.at)
      BY <1>2, <3>1
    <3> HIDE DEF end
    <3>3. QED
      BY <3>1, <3>2, NumberIs
  <2> HIDE DEF m1, end
  <2>3. QED
    BY <1>2, <1>5, <2>1, <2>2 DEF AliasesIn
<1>8. \A v \in Var : c[v] # {} /\ Fits(AliasesIn(m, v), c[v], end.val[v], end.at)
  <2> DEFINE at == end.at
             c0 == a.child
  <2>1. at \in [Ptr -> Values] /\ c0 \in Child /\ m1 \in OkMap
    BY <1>2, <1>3 DEF Execution, OkMapOf
  <2>2. \A v \in Var : c0[v] # {} /\ Fits(AliasesIn(m1, v), c0[v], r.val[v], at)
    BY <1>7
  <2> HIDE DEF at, c0, m1
  <2>3. \A v \in Var : /\ ChildEquateKill(c0, pairs)[v] # {}
                       /\ Fits(AliasesIn(RenamedVars(m1, pairs), v), ChildEquateKill(c0, pairs)[v],
                               Sq!FoldLeft(RenamedRun, r, pairs).val[v], at)
    BY <1>6, <2>1, <2>2, VarsRenamedFit
  <2>4. QED
    BY <2>3 DEF at, c0
<1>9. State(m, c).elements = m /\ State(m, c).child = c
  BY DEF State
<1> HIDE DEF m, c, end
<1>10. Fitting(State(m, c), end.val, end.at)
  BY <1>8, <1>9 DEF Fitting, Aliases, AliasesIn
<1>11. QED
  BY <1>10 DEF m, c, m1, end

-----------------------------------------------------------------------------
(* Merging, again *)

\* A box finds nothing new in the side that was boxed.
LEMMA BoxAbove ==
  ASSUME NEW a \in OkState, NEW b \in OkState, ~IsBottom(a), ~IsBottom(b),
         DOMAIN a.elements.fwd \subseteq DOMAIN b.elements.fwd,
         \A v \in DOMAIN a.elements.fwd :
           b.elements.fwd[v] \subseteq a.elements.fwd[v] \/ "bad" \in a.elements.fwd[v],
         \A v \in Var : b.child[v] \subseteq a.child[v]
  PROVE  GreaterEq(a, Boxed(a, b))
<1> DEFINE c == WidenedChild(a.child, b.child)
           s1 == State(Compat(FALSE, a, b), b.child)
           s2 == State(Compat(TRUE, a, b), c)
<1>1. /\ Boxed(a, b) = IF GreaterEq(a, b) THEN s1 ELSE s2
      /\ s1.child = b.child /\ s2.child = c
  BY DEF Boxed, Narrowed, Widened, State
<1>2. JoinOf(s1, a, b) /\ WideningOf(s2, a, b)
  BY JoinIs, WideningIs
<1>3. Shared(a, b) = DOMAIN a.elements.fwd
  BY DEF Shared
<1>4. a.child \in Child /\ \A v \in Var : c[v] = a.child[v]
  BY StateIs DEF WidenedChild
<1> HIDE DEF s1, s2, c
<1>5. CASE GreaterEq(a, b)
  <2>1. \A v \in DOMAIN a.elements.fwd : v \in DOMAIN s1.elements.fwd /\ s1.elements.fwd[v] \subseteq a.elements.fwd[v]
    BY <1>2, <1>3, <1>5 DEF JoinOf, GreaterEq
  <2>2. QED
    BY <1>1, <1>5, <2>1 DEF GreaterEq
<1>6. CASE ~GreaterEq(a, b)
  <2>1. \A v \in DOMAIN a.elements.fwd : v \in DOMAIN s2.elements.fwd /\ s2.elements.fwd[v] \subseteq a.elements.fwd[v]
    <3>1. TAKE v \in DOMAIN a.elements.fwd
    <3> DEFINE ids == a.elements.fwd[v]
               more == b.elements.fwd[v]
    <3>2. v \in DOMAIN s2.elements.fwd /\ s2.elements.fwd[v] = Grown(ids, more)
      BY <1>2, <1>3 DEF WideningOf
    <3>3. more \subseteq ids \/ "bad" \in ids
      OBVIOUS
    <3> HIDE DEF ids, more
    <3>4. Grown(ids, more) \subseteq ids
      BY <3>3 DEF Grown
    <3>5. QED
      BY <3>2, <3>4 DEF ids
  <2>2. \A v \in Var : s2.child[v] \subseteq a.child[v]
    BY <1>1, <1>4
  <2>3. QED
    BY <1>1, <1>6, <2>1, <2>2 DEF GreaterEq
<1>7. QED
  BY <1>5, <1>6

\* A second box of the same state finds nothing new.
LEMMA BoxSettles ==
  ASSUME NEW a \in OkState, NEW b \in OkState, ~IsBottom(a), ~IsBottom(b)
  PROVE  GreaterEq(Boxed(a, b), Boxed(Boxed(a, b), b))
<1> DEFINE c == WidenedChild(a.child, b.child)
           s1 == State(Compat(FALSE, a, b), b.child)
           s2 == State(Compat(TRUE, a, b), c)
           x == Boxed(a, b)
<1>1. /\ x = IF GreaterEq(a, b) THEN s1 ELSE s2
      /\ s1.child = b.child /\ s2.child = c
  BY DEF Boxed, Narrowed, Widened, State
<1>2. JoinOf(s1, a, b) /\ WideningOf(s2, a, b) /\ x \in OkState
  BY JoinIs, WideningIs, BoxedOk
<1>3. /\ Shared(a, b) \subseteq DOMAIN b.elements.fwd /\ a.child \in Child /\ b.child \in Child
      /\ \A v \in Var : c[v] = IF b.child[v] \subseteq a.child[v] THEN a.child[v] ELSE Values
  BY StateIs DEF Shared, WidenedChild
<1>4. \A v \in Var : a.child[v] # {} /\ b.child[v] # {}
  BY DEF IsBottom
<1> HIDE DEF s1, s2, c, x
<1>5. CASE GreaterEq(a, b)
  <2>1. ~IsBottom(x)
    BY <1>1, <1>4, <1>5 DEF IsBottom
  <2>2. DOMAIN x.elements.fwd \subseteq DOMAIN b.elements.fwd
    BY <1>1, <1>2, <1>3, <1>5 DEF JoinOf
  <2>3. \A v \in DOMAIN x.elements.fwd : b.elements.fwd[v] \subseteq x.elements.fwd[v]
    BY <1>1, <1>2, <1>5 DEF JoinOf
  <2>4. \A v \in Var : b.child[v] \subseteq x.child[v]
    BY <1>1, <1>5
  <2>5. GreaterEq(x, Boxed(x, b))
    BY <1>2, <2>1, <2>2, <2>3, <2>4, BoxAbove
  <2>6. QED
    BY <2>5 DEF x
<1>6. CASE ~GreaterEq(a, b)
  <2>1. \A v \in Var : b.child[v] \subseteq x.child[v] /\ x.child[v] # {}
    BY <1>1, <1>3, <1>4, <1>6 DEF Child
  <2>2. ~IsBottom(x)
    BY <2>1 DEF IsBottom
  <2>3. DOMAIN x.elements.fwd \subseteq DOMAIN b.elements.fwd
    BY <1>1, <1>2, <1>3, <1>6 DEF WideningOf
  <2>4. \A v \in DOMAIN x.elements.fwd : b.elements.fwd[v] \subseteq x.elements.fwd[v] \/ "bad" \in x.elements.fwd[v]
    BY <1>1, <1>2, <1>6 DEF WideningOf, Grown
  <2>5. GreaterEq(x, Boxed(x, b))
    BY <1>2, <2>1, <2>2, <2>3, <2>4, BoxAbove
  <2>6. QED
    BY <2>5 DEF x
<1>7. QED
  BY <1>5, <1>6

\* The values an expression may have, as the proofs above name them.
LEMMA ExprValuesAre == ASSUME NEW exp PROVE ExprValues(exp) = ExprOf(exp, [v \in Var |-> {run.val[v]}])
BY DEF ExprValues

LEMMA AliveFits ==
  ASSUME IInv, Sound, Alive
  PROVE  /\ run \in Execution /\ run.val \in [Var -> Values] /\ run.at \in [Ptr -> Values]
         /\ als \in OkState /\ Fitting(als, run.val, run.at) /\ ~IsBottom(als)
<1>1. run \in Execution /\ als \in OkState
  BY InvIs DEF Alive
<1>2. Fitting(als, run.val, run.at)
  BY CoversIs DEF Sound, Alive
<1>3. QED
  BY <1>1, <1>2 DEF Execution, Fitting, IsBottom

\* The execution goes on with a value that fits what was written.
LEMMA ContinueFits ==
  ASSUME IInv, Sound, NEW v \in Var, NEW ids \in (SUBSET AliasId) \ {{}}, NEW offsets \in SUBSET Values,
         NEW values,
         Continue(State(Put(als.elements, v, ids), ChildSet(als.child, v, offsets)), v, values),
         Alive => \A x \in values : offsets # {} /\ Fits(ids, offsets, x, run.at)
  PROVE  Covers(als', run')
<1> DEFINE b == State(Put(als.elements, v, ids), ChildSet(als.child, v, offsets))
<1>1. CASE Alive
  <2>1. PICK x \in values : run' = [run EXCEPT !.val[v] = x] /\ als' = b
    BY <1>1 DEF Continue
  <2>2. offsets \in (SUBSET Values) \ {{}} /\ Fits(ids, offsets, x, run.at)
    BY <1>1
  <2>3. /\ run \in Execution /\ run.val \in [Var -> Values]
        /\ als \in OkState /\ Fitting(als, run.val, run.at)
    BY <1>1, AliveFits
  <2> DEFINE val == run.val
             at == run.at
             val2 == [val EXCEPT ![v] = x]
  <2>4. Fitting(b, val2, at)
    <3>1. val \in [Var -> Values] /\ Fitting(als, val, at) /\ Fits(ids, offsets, x, at)
      BY <2>2, <2>3
    <3> HIDE DEF val, at
    <3>2. QED
      BY <2>2, <2>3, <3>1, WrittenFits
  <2>5. run'.val = val2 /\ run'.at = at
    BY <2>1, <2>3 DEF Execution
  <2> HIDE DEF b, val2, at, val
  <2>6. QED
    BY <2>1, <2>4, <2>5, CoversIs
<1>2. CASE ~Alive
  BY <1>2 DEF Continue, Covers
<1>3. QED
  BY <1>1, <1>2

\* What is assigned.
LEMMA AssignedCovered ==
  ASSUME IInv, Sound, Unscaled(als), NEW lhs \in Var, NEW exp \in Exprs, Assign(lhs, exp)
  PROVE  Covers(als', run')
<1> DEFINE ids == AliasesOf(als, exp)
           offsets == ChildOf(als, exp)
<1>1. als \in OkState
  BY InvIs
<1>2. ids \in (SUBSET AliasId) \ {{}} /\ offsets \in SUBSET Values
  BY <1>1, StateIs, AliasesOfTyped, ChildOfTyped
<1>3. ASSUME Alive, NEW x \in ExprValues(exp) PROVE offsets # {} /\ Fits(ids, offsets, x, run.at)
  <2> DEFINE val == run.val
             at == run.at
  <2>1. val \in [Var -> Values] /\ at \in [Ptr -> Values] /\ Fitting(als, val, at)
    BY <1>3, AliveFits
  <2>2. x \in ExprOf(exp, [v \in Var |-> {val[v]}])
    BY <1>3, ExprValuesAre
  <2> HIDE DEF val
  <2>3. QED
    BY <1>1, <2>1, <2>2, ExprFits
<1>4. Continue(State(Put(als.elements, lhs, ids), ChildSet(als.child, lhs, offsets)), lhs, ExprValues(exp))
  BY DEF Assign
<1> HIDE DEF ids, offsets
<1>5. QED
  BY <1>2, <1>3, <1>4, ContinueFits

LEMMA WeaklyAssignedCovered ==
  ASSUME IInv, Sound, MissingIsTop, Unscaled(als), NEW lhs \in Var, NEW exp \in Exprs, WeakAssign(lhs, exp)
  PROVE  Covers(als', run')
<1> DEFINE D == DOMAIN als.elements.fwd
           known == IF lhs \in D THEN als.elements.fwd[lhs] ELSE {}
           new == AliasesOf(als, exp)
           ids == known \cup new
           old == als.child[lhs]
           offsets == old \cup ChildOf(als, exp)
           values == ExprValues(exp) \cup {run.val[lhs]}
<1>1. als \in OkState /\ als \in StateSet /\ als.elements \in OkMap /\ als.child \in Child
  BY InvIs, StateIs
<1>2. new \in (SUBSET AliasId) \ {{}} /\ ChildOf(als, exp) \in SUBSET Values
  BY <1>1, AliasesOfTyped, ChildOfTyped
<1>3. known \subseteq AliasId /\ old \in SUBSET Values
  BY <1>1, MapIs DEF OkMap, Child
<1>4. ASSUME Alive, NEW x \in values PROVE offsets # {} /\ Fits(ids, offsets, x, run.at)
  <2> DEFINE val == run.val
             at == run.at
  <2>1. val \in [Var -> Values] /\ at \in [Ptr -> Values] /\ Fitting(als, val, at) /\ ~IsBottom(als)
    BY <1>4, AliveFits
  <2>2. old # {} /\ Fits(Aliases(als, lhs), old, val[lhs], at) /\ val[lhs] \in Values
    BY <2>1 DEF Fitting
  <2>3. CASE x \in ExprValues(exp)
    <3>1. x \in ExprOf(exp, [v \in Var |-> {val[v]}])
      BY <2>3, ExprValuesAre
    <3> HIDE DEF val, at
    <3>2. Fits(new, ChildOf(als, exp), x, at)
      BY <1>1, <2>1, <3>1, ExprFits
    <3> HIDE DEF known, new, old
    <3>3. Fits(ids, offsets, x, at)
      BY <3>2, FitsMore
    <3>4. QED
      BY <2>2, <3>3 DEF at
  <2>4. CASE x = val[lhs] /\ lhs \in D
    <3>1. Aliases(als, lhs) = known
      BY <2>4 DEF Aliases
    <3>2. Fits(known, old, x, at)
      BY <2>2, <2>4, <3>1
    <3> HIDE DEF known, new, old, at, val
    <3>3. Fits(ids, offsets, x, at)
      BY <3>2, FitsMore
    <3>4. QED
      BY <2>2, <3>3 DEF at
  <2>5. CASE x = val[lhs] /\ lhs \notin D
    <3>1. old = Values
      BY <2>1, <2>5 DEF MissingIsTop, MissingTop
    <3>2. offsets = Values
      BY <1>2, <3>1
    <3>3. ids \in (SUBSET AliasId) \ {{}}
      BY <1>2, <1>3
    <3> HIDE DEF ids, offsets, at, val
    <3>4. Fits(ids, Values, x, at)
      BY <2>1, <2>2, <2>5, <3>3, FitsAll
    <3>5. QED
      BY <2>2, <3>1, <3>2, <3>4 DEF at
  <2>6. QED
    BY <1>4, <2>3, <2>4, <2>5 DEF val
<1>5. Continue(State(Put(als.elements, lhs, ids), ChildSet(als.child, lhs, offsets)), lhs, values)
  BY DEF WeakAssign
<1>6. ids \in (SUBSET AliasId) \ {{}} /\ offsets \in SUBSET Values
  BY <1>2, <1>3
<1> HIDE DEF ids, offsets, values
<1>7. QED
  BY <1>4, <1>5, <1>6, ContinueFits

\* A pointer that is one of a set fits its aliases and offsets.
LEMMA PointedFits ==
  ASSUME NEW ptrs \in PtrSets, run \in Execution, NEW x \in Pointed(ptrs)
  PROVE  \/ "bad" \in Ids(ptrs)
         \/ /\ OffsetsOf({p \in ptrs : p.id # "bad"}) = OffsetsOf(ptrs)
            /\ OffsetsOf(ptrs) # {}
            /\ Fits(Ids(ptrs), OffsetsOf(ptrs), x, run.at)
<1>1. /\ ptrs # {} /\ run.at \in [Ptr -> Values]
      /\ \A p \in ptrs : p.id \in AliasId /\ p.offset \in (SUBSET Values) \ {{}}
  BY InputsAssumption DEF InputsAssumption, Execution
<1> SUFFICES ASSUME "bad" \notin Ids(ptrs)
             PROVE  /\ OffsetsOf({p \in ptrs : p.id # "bad"}) = OffsetsOf(ptrs)
                    /\ OffsetsOf(ptrs) # {}
                    /\ Fits(Ids(ptrs), OffsetsOf(ptrs), x, run.at)
  OBVIOUS
<1>2. \A p \in ptrs : p.id # "bad" /\ p.id \in Ids(ptrs) /\ p.offset \subseteq OffsetsOf(ptrs)
  BY DEF Ids, OffsetsOf
<1>3. {p \in ptrs : p.id # "bad"} = ptrs
  BY <1>2
<1>4. OffsetsOf(ptrs) # {}
  BY <1>1 DEF OffsetsOf
<1>5. PICK p \in ptrs : x \in {(Base(run.at, p.id) + o) % Modulus : o \in p.offset}
  BY <1>2 DEF Pointed
<1>6. PICK o \in p.offset : x = (Base(run.at, p.id) + o) % Modulus
  BY <1>5
<1> DEFINE B == Base(run.at, p.id)
<1>7. p.id \in AliasId \ {"bad"} /\ o \in Values
  BY <1>1, <1>2, <1>6
<1>8. B \in Int
  BY <1>1, <1>7, BaseIs
<1>9. x = (B + o) % Modulus
  BY <1>6
<1> HIDE DEF B
<1>10. (x - B) % Modulus = o
  BY <1>7, <1>8, <1>9, OffsetOf
<1>11. Fits(Ids(ptrs), OffsetsOf(ptrs), x, run.at)
  <2>1. o \in OffsetsOf(ptrs) /\ p.id \in Ids(ptrs)
    BY <1>2, <1>6
  <2>2. QED
    BY <1>10, <2>1 DEF Fits, B
<1>12. QED
  BY <1>3, <1>4, <1>11

LEMMA PtrsAssignedCovered ==
  ASSUME IInv, Sound, NEW lhs \in Var, NEW ptrs \in PtrSets, AssignPtrs(lhs, ptrs)
  PROVE  Covers(als', run')
<1> DEFINE good == {p \in ptrs : p.id # "bad"}
           offsets == IF good = {} THEN Values ELSE OffsetsOf(good)
           values == IF Alive THEN Pointed(ptrs) ELSE {}
           ids == Ids(ptrs)
<1>1. ids \in (SUBSET AliasId) \ {{}} /\ offsets \in SUBSET Values
  BY PointersOk
<1>2. offsets # {}
  <2>1. CASE good = {}
    BY <2>1, ModulusIs
  <2>2. CASE good # {}
    <3>1. \A p \in ptrs : p.offset # {}
      BY InputsAssumption DEF InputsAssumption
    <3>2. OffsetsOf(good) # {}
      BY <2>2, <3>1 DEF OffsetsOf
    <3>3. QED
      BY <2>2, <3>2
  <2>3. QED
    BY <2>1, <2>2
<1>3. ASSUME Alive, NEW x \in values PROVE offsets # {} /\ Fits(ids, offsets, x, run.at)
  <2>1. x \in Pointed(ptrs) /\ run \in Execution
    BY <1>3, AliveFits
  <2>2. CASE "bad" \in ids
    <3> HIDE DEF ids, offsets
    <3> QED BY <1>2, <2>2 DEF Fits
  <2>3. CASE "bad" \notin ids
    <3>1. /\ OffsetsOf(good) = OffsetsOf(ptrs)
          /\ Fits(ids, OffsetsOf(ptrs), x, run.at)
      BY <2>1, <2>3, PointedFits
    <3>2. good # {}
      <4>1. PICK p \in ptrs : TRUE
        BY <1>1 DEF Ids
      <4>2. p.id # "bad"
        BY <2>3, <4>1 DEF Ids
      <4>3. QED
        BY <4>1, <4>2
    <3>3. QED
      BY <1>2, <3>1, <3>2
  <2>4. QED
    BY <2>2, <2>3
<1>4. Continue(State(Put(als.elements, lhs, ids), ChildSet(als.child, lhs, offsets)), lhs, values)
  BY DEF AssignPtrs
<1> HIDE DEF ids, offsets, values
<1>5. QED
  BY <1>1, <1>3, <1>4, ContinueFits

LEMMA PtrsAssumedCovered ==
  ASSUME IInv, Sound, MissingIsTop, NEW lhs \in Var, NEW ptrs \in PtrSets, AssumePtrs(lhs, ptrs)
  PROVE  Covers(als', run')
<1> DEFINE offsets == als.child[lhs] \cap OffsetsOf(ptrs)
           values == IF Alive THEN Pointed(ptrs) ELSE {}
           ids == Ids(ptrs)
<1>1. ids \in (SUBSET AliasId) \ {{}} /\ \A some \in SUBSET ptrs : OffsetsOf(some) \in SUBSET Values
  BY PointersOk
<1>2. als.child[lhs] = Values
  BY DEF AssumePtrs, MissingIsTop, MissingTop
<1>3. offsets = OffsetsOf(ptrs) /\ offsets \in SUBSET Values
  BY <1>1, <1>2
<1>4. offsets # {}
  <2>1. ptrs # {} /\ \A p \in ptrs : p.offset # {}
    BY InputsAssumption DEF InputsAssumption
  <2>2. OffsetsOf(ptrs) # {}
    BY <2>1 DEF OffsetsOf
  <2>3. QED
    BY <1>3, <2>2
<1>5. ASSUME Alive, NEW x \in values PROVE offsets # {} /\ Fits(ids, offsets, x, run.at)
  <2>1. x \in Pointed(ptrs) /\ run \in Execution
    BY <1>5, AliveFits
  <2>2. CASE "bad" \in ids
    <3> HIDE DEF ids, offsets
    <3> QED BY <1>4, <2>2 DEF Fits
  <2>3. CASE "bad" \notin ids
    <3>1. Fits(ids, OffsetsOf(ptrs), x, run.at)
      BY <2>1, <2>3, PointedFits
    <3>2. QED
      BY <1>3, <1>4, <3>1
  <2>4. QED
    BY <2>2, <2>3
<1>6. Continue(State(Put(als.elements, lhs, ids), ChildSet(als.child, lhs, offsets)), lhs, values)
  BY DEF AssumePtrs
<1> HIDE DEF ids, offsets, values
<1>7. QED
  BY <1>1, <1>3, <1>5, <1>6, ContinueFits

\* A condition that does not hold ends the execution.
LEMMA AssumedCovered ==
  ASSUME IInv, Sound, NEW cmp \in Cmps, Assume(cmp)
  PROVE  Covers(als', run')
<1>1. als' = AssumeState(als, cmp) /\ als \in OkState
  BY InvIs DEF Assume
<1>2. CASE Alive /\ \E x \in ExprValues(cmp) : Holds(x, cmp.op)
  <2> DEFINE val == run.val
             at == run.at
  <2>1. PICK x \in ExprOf(cmp, [v \in Var |-> {val[v]}]) : Holds(x, cmp.op)
    BY <1>2, ExprValuesAre
  <2>2. val \in [Var -> Values] /\ at \in [Ptr -> Values] /\ Fitting(als, val, at) /\ run' = run
    BY <1>2, AliveFits DEF Assume
  <2> HIDE DEF val, at
  <2>3. Fitting(AssumeState(als, cmp), val, at)
    BY <1>1, <2>1, <2>2, AssumedFits
  <2>4. QED
    BY <1>1, <2>2, <2>3, CoversIs DEF val, at
<1>3. CASE ~(Alive /\ \E x \in ExprValues(cmp) : Holds(x, cmp.op))
  BY <1>3 DEF Assume, Covers
<1>4. QED
  BY <1>2, <1>3

LEMMA KilledCovered ==
  ASSUME IInv, Sound, NEW id \in Var \cup Ptr, Kill({id})
  PROVE  Covers(als', run')
<1> DEFINE ids == {id}
<1>1. als' = KillState(als, ids) /\ als \in OkState /\ ids \subseteq Var \cup Ptr
  BY InvIs DEF Kill
<1>2. CASE Alive
  <2>1. PICK r \in Runs : /\ \A v \in Var \ ids : r.val[v] = run.val[v]
                          /\ \A p \in Ptr \ ids : r.at[p] = run.at[p]
                          /\ run' = r
    BY <1>2 DEF Kill
  <2> DEFINE val == run.val
             at == run.at
             val2 == r.val
             at2 == r.at
  <2>2. val \in [Var -> Values] /\ at \in [Ptr -> Values] /\ Fitting(als, val, at)
    BY <1>2, AliveFits
  <2>3. val2 \in [Var -> Values] /\ at2 \in [Ptr -> Values]
    BY DEF Runs
  <2>4. (\A v \in Var \ ids : val2[v] = val[v]) /\ (\A p \in Ptr \ ids : at2[p] = at[p])
    BY <2>1
  <2> HIDE DEF ids, val, at, val2, at2
  <2>5. Fitting(KillState(als, ids), val2, at2)
    BY <1>1, <2>2, <2>3, <2>4, KilledFits
  <2>6. QED
    BY <1>1, <2>1, <2>5, CoversIs DEF val2, at2
<1>3. CASE ~Alive
  BY <1>3 DEF Kill, Covers
<1>4. QED
  BY <1>2, <1>3

LEMMA ProjectedCovered ==
  ASSUME IInv, Sound, NEW ids \in SUBSET Var, Project(ids)
  PROVE  Covers(als', run')
<1> DEFINE gone == Var \ ids
           b == State(ErasedAll(als.elements, gone), Forget(als.child, gone))
<1>1. als' = b /\ run' = run /\ als \in OkState /\ gone \in SUBSET Var
  BY InvIs DEF Project
<1>2. CASE Alive
  <2> DEFINE val == run.val
             at == run.at
  <2>1. val \in [Var -> Values] /\ at \in [Ptr -> Values] /\ Fitting(als, val, at)
    BY <1>2, AliveFits
  <2> HIDE DEF val, at
  <2>2. Fitting(b, val, at)
    <3> HIDE DEF gone
    <3> QED BY <1>1, <2>1, ProjectedFits
  <2> HIDE DEF b
  <2>3. QED
    BY <1>1, <2>2, CoversIs DEF val, at
<1>3. CASE ~Alive
  BY <1>1, <1>3 DEF Alive, Covers
<1>4. QED
  BY <1>2, <1>3

LEMMA EquateKilledCovered ==
  ASSUME IInv, Sound, NEW pairs \in Renames, EquateKill(pairs)
  PROVE  Covers(als', run')
<1>1. CASE Alive
  <2>1. run \in Execution /\ als \in OkState /\ Fitting(als, run.val, run.at) /\ ~IsBottom(als)
    BY <1>1, AliveFits
  <2> DEFINE m == RenamedVars(RenamedAliases(als.elements, pairs), pairs)
             c == ChildEquateKill(als.child, pairs)
             end == Sq!FoldLeft(RenamedRun, run, pairs)
  <2>2. als' = State(m, c) /\ run' = end
    BY <1>1, <2>1, Zenon DEF EquateKill
  <2>3. \A i \in DOMAIN pairs :
           IsNew(als, pairs[i][1]) \/ \E j \in 1 .. i - 1 : pairs[j][2] = pairs[i][1]
    BY DEF EquateKill
  <2>4. Fitting(State(m, c), end.val, end.at)
    BY <2>1, <2>3, RenamedFits
  <2> HIDE DEF m, c, end
  <2>5. QED
    BY <2>2, <2>4, CoversIs
<1>2. CASE ~Alive
  <2>1. run' = Dead
    BY <1>2 DEF EquateKill
  <2>2. QED
    BY <2>1 DEF Covers
<1>3. QED
  BY <1>1, <1>2

\* An execution from elsewhere fits the other state.
LEMMA ElsewhereFits ==
  ASSUME IInv, Alive, Sound, NEW other, NEW r \in Elsewhere(other)
  PROVE  \/ r = Dead
         \/ /\ r.val \in [Var -> Values] /\ r.at \in [Ptr -> Values] /\ Fitting(other, r.val, r.at)
            /\ ~IsBottom(other)
<1>1. run \in Execution /\ run.at \in [Ptr -> Values]
  BY AliveFits
<1>2. ASSUME r # Dead PROVE r.val \in [Var -> Values] /\ r.at \in [Ptr -> Values] /\ Covers(other, r)
  BY <1>1, <1>2 DEF Elsewhere
<1>3. ASSUME r # Dead PROVE Fitting(other, r.val, r.at) /\ ~IsBottom(other)
  <2>1. Fitting(other, r.val, r.at)
    BY <1>2, <1>3, CoversIs
  <2>2. QED
    BY <2>1 DEF Fitting, IsBottom
<1>4. QED
  BY <1>2, <1>3

LEMMA JoinedCovered ==
  ASSUME IInv, Sound, MissingIsTop, NEW other \in Others, Join(other)
  PROVE  Covers(als', run')
<1>1. /\ als \in OkState /\ other \in OkState /\ MissingTop(als) /\ MissingTop(other)
      /\ als' = Joined(als, other) /\ Alive /\ run' \in {run} \cup Elsewhere(other)
  BY InvIs, OtherOk DEF Join, MissingIsTop
<1>2. /\ run.val \in [Var -> Values] /\ run.at \in [Ptr -> Values]
      /\ Fitting(als, run.val, run.at) /\ ~IsBottom(als)
  BY <1>1, AliveFits
<1>3. CASE run' = Dead
  BY <1>3 DEF Covers
<1>4. CASE run' # Dead
  <2> DEFINE val == run'.val
             at == run'.at
  <2>1. val \in [Var -> Values] /\ at \in [Ptr -> Values]
        /\ (Fitting(als, val, at) \/ (Fitting(other, val, at) /\ ~IsBottom(other)))
    BY <1>1, <1>2, <1>4, ElsewhereFits
  <2> HIDE DEF val, at
  <2>2. CASE IsBottom(other)
    <3>1. als' = als
      BY <1>1, <1>2, <2>2 DEF Joined
    <3>2. QED
      BY <2>1, <2>2, <3>1, CoversIs DEF val, at
  <2>3. CASE ~IsBottom(other)
    <3>1. Fitting(Joined(als, other), val, at)
      BY <1>1, <1>2, <2>1, <2>3, JoinedFits
    <3>2. QED
      BY <1>1, <3>1, CoversIs DEF val, at
  <2>4. QED
    BY <2>2, <2>3
<1>5. QED
  BY <1>3, <1>4

LEMMA BoxedCovered ==
  ASSUME IInv, Sound, MissingIsTop, ~Untracked, NEW other \in Others, Box(other)
  PROVE  Covers(als', run')
<1>1. /\ als \in OkState /\ other \in OkState /\ MissingTop(other)
      /\ als' = Boxed(als, other) /\ Alive /\ run' \in Elsewhere(other)
      /\ DOMAIN other.elements.fwd \subseteq DOMAIN als.elements.fwd
  BY InvIs, OtherOk DEF Box
<1>2. ~IsBottom(als)
  BY <1>1, AliveFits
<1>3. CASE run' = Dead
  BY <1>3 DEF Covers
<1>4. CASE run' # Dead
  <2> DEFINE val == run'.val
             at == run'.at
  <2>1. val \in [Var -> Values] /\ at \in [Ptr -> Values] /\ Fitting(other, val, at) /\ ~IsBottom(other)
    BY <1>1, <1>4, ElsewhereFits
  <2> HIDE DEF val, at
  <2>2. Fitting(Boxed(als, other), val, at)
    BY <1>1, <1>2, <2>1, BoxedFits
  <2>3. QED
    BY <1>1, <2>2, CoversIs DEF val, at
<1>5. QED
  BY <1>3, <1>4

LEMMA SoundNext ==
  ASSUME IInv, MissingIsTop, Sound, Unscaled(als), ~Untracked, [Next]_vars
  PROVE  Sound'
<1>1. CASE Next
  <2>1. Covers(als', run')
    BY <1>1, AssignedCovered, WeaklyAssignedCovered, PtrsAssignedCovered, PtrsAssumedCovered, AssumedCovered,
       KilledCovered, ProjectedCovered, EquateKilledCovered, JoinedCovered, BoxedCovered DEF Next
  <2>2. QED
    BY <2>1 DEF Sound, Covers
<1>2. CASE UNCHANGED vars
  BY <1>2 DEF vars, Sound, Covers
<1>3. QED
  BY <1>1, <1>2

LEMMA SoundInit == Init => Sound
<1> SUFFICES ASSUME Init PROVE Sound
  OBVIOUS
<1> DEFINE val == run.val
           at == run.at
<1>1. als = Top /\ val \in [Var -> Values] /\ at \in [Ptr -> Values]
  BY DEF Init, Runs
<1>2. DOMAIN Top.elements.fwd = {} /\ Top.child = [v \in Var |-> Values]
  BY EmptyOk DEF Top, State, TopChild, OkMapOf
<1> HIDE DEF val, at
<1>3. ASSUME NEW v \in Var PROVE Top.child[v] # {} /\ Fits(Aliases(Top, v), Top.child[v], val[v], at)
  <2>1. Aliases(Top, v) = {"null"} /\ Top.child[v] = Values /\ val[v] \in Values /\ Values # {}
    BY <1>1, <1>2, ModulusIs DEF Aliases
  <2>2. {"null"} \in (SUBSET AliasId) \ {{}}
    BY DEF AliasId
  <2>3. QED
    BY <1>1, <2>1, <2>2, FitsAll
<1>4. Fitting(Top, val, at)
  BY <1>3 DEF Fitting
<1>5. QED
  BY <1>1, <1>4, CoversIs DEF Sound, val, at

\* The answers to queries.
LEMMA AnswersAre == ASSUME IInv, Sound PROVE Answers
<1> SUFFICES ASSUME Alive, NEW v \in Var
             PROVE  run.val[v] \in QueryVal(als, v) /\ run.val[v] \in Pointed(QueryAls(als, v))
  BY DEF Answers
<1> DEFINE val == run.val
           at == run.at
           x == val[v]
<1>1. val \in [Var -> Values] /\ at \in [Ptr -> Values] /\ Fitting(als, val, at) /\ als \in OkState
  BY AliveFits
<1>2. x \in QueryVal(als, v)
  <2> HIDE DEF val, at
  <2> QED BY <1>1, QueryFits
<1>3. PICK id \in Aliases(als, v) : id = "bad" \/ (x - Base(at, id)) % Modulus \in als.child[v]
  BY <1>1 DEF Fitting, Fits
<1>4. x \in Values /\ id \in AliasId
  BY <1>1, <1>3, AliasesIs, StateIs
<1> DEFINE ptr == [id |-> id, offset |-> als.child[v]]
<1>5. ptr \in QueryAls(als, v) /\ ptr.id = id /\ ptr.offset = als.child[v]
  BY DEF QueryAls
<1> HIDE DEF ptr
<1> DEFINE stands == IF ptr.id = "bad" THEN Values ELSE {(Base(run.at, ptr.id) + o) % Modulus : o \in ptr.offset}
<1>6. x \in stands
  <2>1. CASE id = "bad"
    BY <1>4, <1>5, <2>1
  <2>2. CASE id # "bad"
    <3> DEFINE B == Base(at, id)
               o == (x - B) % Modulus
    <3>1. B \in Int /\ o \in als.child[v]
      <4>1. id \in AliasId \ {"bad"}
        BY <1>4, <2>2
      <4> HIDE DEF at, x
      <4>2. QED
        BY <1>1, <1>3, <2>2, <4>1, BaseIs
    <3>2. (o + B) % Modulus = x /\ o \in Values
      <4> HIDE DEF B, x
      <4> QED BY <1>4, <3>1, OffsetBack
    <3>3. B + o = o + B
      <4>1. o \in Int
        BY <3>2, ModulusIs
      <4> HIDE DEF B, o
      <4>2. QED
        BY <3>1, <4>1
    <3> HIDE DEF B, o, x
    <3>4. x = (B + o) % Modulus
      BY <3>2, <3>3
    <3>5. QED
      BY <1>5, <2>2, <3>1, <3>4 DEF B, at
  <2>3. QED
    BY <2>1, <2>2
<1>7. x \in Pointed(QueryAls(als, v))
  <2> HIDE DEF x
  <2> QED BY <1>5, <1>6 DEF Pointed
<1>8. QED
  BY <1>2, <1>7

\* The bounds.
LEMMA BoundsAre == ASSUME IInv, MissingIsTop, Sound PROVE EngineBounds
<1> SUFFICES ASSUME Alive, NEW b \in Others, ~IsBottom(b)
             PROVE  /\ GreaterEq(als, b) => \A r \in Elsewhere(b) : Covers(als, r)
                    /\ GreaterEq(Joined(als, b), b) /\ GreaterEq(Joined(als, b), als)
                    /\ GreaterEq(Boxed(als, b), Boxed(Boxed(als, b), b))
  BY DEF EngineBounds
<1>1. als \in OkState /\ b \in OkState /\ MissingTop(als) /\ ~IsBottom(als)
  BY AliveFits, OtherOk DEF MissingIsTop
<1>2. ASSUME GreaterEq(als, b), NEW r \in Elsewhere(b) PROVE Covers(als, r)
  <2> DEFINE val == r.val
             at == r.at
  <2>1. CASE r = Dead
    BY <2>1 DEF Covers
  <2>2. CASE r # Dead
    <3>1. val \in [Var -> Values] /\ at \in [Ptr -> Values] /\ Fitting(b, val, at)
      BY <1>2, <2>2, ElsewhereFits
    <3> HIDE DEF val, at
    <3>2. Fitting(als, val, at)
      BY <1>1, <1>2, <3>1, GreaterFits
    <3>3. QED
      BY <3>2, CoversIs DEF val, at
  <2>3. QED
    BY <2>1, <2>2
<1>3. QED
  BY <1>1, <1>2, JoinedAbove, BoxSettles

-----------------------------------------------------------------------------

\* als_state.h, als_state.cpp: through every assignment, condition, kill, projection,
\* renaming and merge a state stays one: aliases of variables, none without an alias,
\* and sets of values for the offsets.
THEOREM AlsTyped == Spec => []TypeOK
<1>1. IInv /\ [Next]_vars => IInv'
  BY NextOk
<1>2. IInv => TypeOK
  BY DEF IInv
<1>3. QED
  BY InitOk, <1>1, <1>2, PTL DEF Spec

\* inverse_set_map.h: the variables the map back gives for an alias are exactly those
\* that have it, so kill and equate_kill find all of them.
THEOREM WayBackSafe == Spec => []WayBack
<1>1. IInv /\ [Next]_vars => IInv'
  BY NextOk
<1>2. IInv => WayBack
  BY DEF IInv
<1>3. QED
  BY InitOk, <1>1, <1>2, PTL DEF Spec

\* als_state.h:48-50: a variable that is not in the map is top, as long as conditions
\* and boxes find their variables in the map, as those of the memory state do.
THEOREM MissingSafe == ~Untracked => (Spec => []MissingIsTop)
<1> DEFINE Both == IInv /\ MissingIsTop
<1> SUFFICES ASSUME ~Untracked PROVE Spec => []MissingIsTop
  OBVIOUS
<1>1. Init => Both
  BY InitOk
<1>2. Both /\ [Next]_vars => Both'
  BY NextOk
<1>3. Both => MissingIsTop
  OBVIOUS
<1>4. QED
  BY <1>1, <1>2, <1>3, PTL DEF Spec

\* als_state.cpp, num_evaluator.cpp: whatever is assigned, assumed, killed, renamed and
\* merged, the value of a variable is one of its aliases plus an offset of the child,
\* the queries answer with it, and joins and boxes are bounds.  It holds for all
\* variables, pointers, expressions, renamings and other states, as long as conditions
\* and boxes find their variables in the map and no pointer is scaled, which the code
\* leaves open (als_state.cpp:290-292).
THEOREM AlsSoundSafe == ~Untracked => (Spec /\ []Unscaled(als) => []AlsSound)
<1> DEFINE Inv == IInv /\ MissingIsTop /\ Sound
<1> SUFFICES ASSUME ~Untracked PROVE Spec /\ []Unscaled(als) => []AlsSound
  OBVIOUS
<1>1. Init => Inv
  BY InitOk, SoundInit
<1>2. Inv /\ Unscaled(als) /\ [Next]_vars => Inv'
  BY NextOk, SoundNext
<1>3. Inv => AlsSound
  BY AnswersAre, BoundsAre DEF AlsSound, IInv
<1>4. QED
  BY <1>1, <1>2, <1>3, PTL DEF Spec

=============================================================================
