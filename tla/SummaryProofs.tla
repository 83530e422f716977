--------------------------- MODULE SummaryProofs ---------------------------
(***************************************************************************)
(* Renaming in place keeps the order and the shape of a summary and leaves *)
(* none of its variables, for every state of the function, every number of *)
(* variables and however often it is renamed.                              *)
(*                                                                         *)
(* The state of the memory domain covers the memory, for all regions,      *)
(* ranges, sources, targets and conditions and after any number of         *)
(* instructions, if the cases that are known to go wrong are left out.  A  *)
(* cell is let by the fields be what its field says, or what it was at the *)
(* entry where it has none (Lets).  Each lemma about an operator of the    *)
(* model says that the fields it leaves let each cell be what it was       *)
(* before (Weakly), or what was written to it (Writes).                    *)
(***************************************************************************)
EXTENDS Rename, SummaryMemory, SequenceTheorems, FiniteSetTheorems, WellFoundedInduction, TLAPS

-----------------------------------------------------------------------------
(* Renaming *)

Kinds == {"fields", "vsd", "als", "back", "eq", "deref"}

\* The ids of which none is as late as n.
Ids(n) == {Special(0)} \cup ({1, 2} \X (0 .. n - 1))

IdsTyped ==
  /\ next \in 0 .. MaxCounter
  /\ heap \in Seq(Ids(next))
  /\ \A p \in own : p[1][1] \in Kinds /\ p[2] \in DOMAIN heap

IsVariable(p) == Before(p)[1] # 0
Done(p) == IsVariable(p) /\ Before(p)[2] \notin DOMAIN rev

\* rev_map: what is left of it are the places of later variables.
Pending ==
  /\ DOMAIN rev \subseteq Nat
  /\ \A n \in DOMAIN rev : /\ rev[n].numbers = {p \in own : Before(p) = Numeric(n)}
                           /\ rev[n].mids = {p \in own : Before(p) = Pointer(n)}
  /\ \A p, q \in own : Done(p) /\ IsVariable(q) /\ ~Done(q) => Before(p)[2] < Before(q)[2]

\* A place that was not reached holds what it held, the others hold ids later
\* than all there were, in the same order.
Halfway ==
  /\ work \in [own -> DOMAIN heap]
  /\ \A p \in own : ~Done(p) => work[p] = p[2]
  /\ \A p \in own : Done(p) => Id(p)[1] = Before(p)[1]
  /\ \A p, q \in own : Done(p) /\ IsVariable(q) => Before(q)[2] < Id(p)[2]
  /\ \A p, q \in own : Done(p) /\ Done(q) =>
       (Id(p)[2] < Id(q)[2] <=> Before(p)[2] < Before(q)[2])

RenameInv ==
  /\ IdsTyped
  /\ Idle => DOMAIN rev = {}
  /\ ~Idle => Pending /\ Halfway

USE RenameAssumption

-----------------------------------------------------------------------------
(* Ids, and what happens to the heap *)

LEMMA IdParts ==
  ASSUME NEW n \in Nat, NEW id \in Ids(n)
  PROVE  /\ id[1] \in {0, 1, 2} /\ id[2] \in Nat
         /\ id[1] = 0 => id = Special(0)
         /\ id[1] = 1 => id = Numeric(id[2])
         /\ id[1] = 2 => id = Pointer(id[2])
         /\ id[1] # 0 => id[2] < n
BY DEF Ids, Special, Numeric, Pointer

LEMMA IdsGrow ==
  ASSUME NEW n \in Nat, NEW m \in Nat, n <= m
  PROVE  Ids(n) \subseteq Ids(m)
BY DEF Ids

LEMMA HeapGrows ==
  ASSUME NEW n \in Nat, NEW m \in Nat, n <= m,
         NEW h \in Seq(Ids(n)), NEW new \in Seq(Ids(m))
  PROVE  /\ h \o new \in Seq(Ids(m))
         /\ DOMAIN h \subseteq DOMAIN (h \o new)
         /\ \A o \in DOMAIN h : (h \o new)[o] = h[o]
         /\ \A i \in 1 .. Len(new) : Len(h) + i \in DOMAIN (h \o new)
         /\ \A i \in 1 .. Len(new) : (h \o new)[Len(h) + i] = new[i]
<1>1. h \in Seq(Ids(m))
  BY IdsGrow
<1>2. Len(h) \in Nat /\ Len(new) \in Nat /\ DOMAIN h = 1 .. Len(h)
  BY <1>1
<1>3. /\ h \o new \in Seq(Ids(m))
      /\ Len(h \o new) = Len(h) + Len(new)
      /\ \A i \in 1 .. Len(h) + Len(new) :
           (h \o new)[i] = IF i <= Len(h) THEN h[i] ELSE new[i - Len(h)]
  BY <1>1, ConcatProperties
<1>4. DOMAIN (h \o new) = 1 .. Len(h) + Len(new)
  BY <1>3
<1>5. \A i \in 1 .. Len(new) : (h \o new)[Len(h) + i] = new[i]
  <2> TAKE i \in 1 .. Len(new)
  <2>1. Len(h) + i \in 1 .. Len(h) + Len(new) /\ ~(Len(h) + i <= Len(h))
    BY <1>2
  <2>2. (Len(h) + i) - Len(h) = i
    BY <1>2
  <2> QED BY <2>1, <2>2, <1>3
<1> QED BY <1>2, <1>3, <1>4, <1>5

LEMMA LeastCounter ==
  ASSUME NEW S \in SUBSET Nat, S # {}
  PROVE  Min(S) \in S /\ \A n \in S : Min(S) <= n
<1>1. PICK x \in S : \A y \in S : ~(<<y, x>> \in OpToRel(<, Nat))
  BY NatLessThanWellFounded, WFMin, Zenon
<1>2. \A y \in S : ~(y < x)
  <2> SUFFICES ASSUME NEW y \in S, y < x PROVE FALSE
    OBVIOUS
  <2>1. <<y, x>> \in OpToRel(<, Nat)
    BY DEF OpToRel
  <2> QED BY <1>1, <2>1
<1>3. \A y \in S : x <= y
  BY <1>2
<1> QED BY <1>3 DEF Min

-----------------------------------------------------------------------------
(* The state of the function changes; nothing is being renamed. *)

LEMMA InitIInv == ASSUME RenameInit PROVE RenameInv
<1>1. heap \in Seq(Ids(next)) /\ next \in 0 .. MaxCounter
  BY DEF RenameInit, Ids
<1> QED BY <1>1 DEF RenameInit, RenameInv, IdsTyped, Idle

LEMMA RequestIInv ==
  ASSUME RenameInv, NEW deref \in BOOLEAN, NEW isNull \in BOOLEAN, Request(deref, isNull)
  PROVE  RenameInv'
<1> DEFINE new == <<Numeric(next), Pointer(next), Numeric(next + 1)>>
<1>1. /\ next' = next + 2 /\ next + 2 <= MaxCounter /\ heap' = heap \o new
      /\ Idle /\ UNCHANGED <<work, rev>>
  BY DEF Request
<1>2. next \in Nat /\ next' \in Nat /\ next <= next' /\ next' \in 0 .. MaxCounter
  BY <1>1 DEF RenameInv, IdsTyped
<1>3. new \in Seq(Ids(next')) /\ Len(new) = 3
  BY <1>1, <1>2 DEF Ids, Numeric, Pointer
<1>4. heap \in Seq(Ids(next))
  BY DEF RenameInv, IdsTyped
<1> HIDE DEF new
<1>5. /\ heap' \in Seq(Ids(next')) /\ DOMAIN heap \subseteq DOMAIN heap'
      /\ \A i \in 1 .. 3 : Len(heap) + i \in DOMAIN heap'
  BY <1>1, <1>2, <1>3, <1>4, HeapGrows
<1>6. Null \in DOMAIN heap'
  <2>1. 1 \in DOMAIN heap'
    <3>1. Len(heap) \in Nat /\ Len(heap) + 1 \in DOMAIN heap' /\ DOMAIN heap' = 1 .. Len(heap')
          /\ Len(heap') \in Nat
      BY <1>4, <1>5
    <3> QED BY <3>1
  <2> QED BY <2>1 DEF Null
<1>7. ASSUME NEW p \in own' PROVE p[1][1] \in Kinds /\ p[2] \in DOMAIN heap'
  <2>1. CASE p \in own
    BY <2>1, <1>5 DEF RenameInv, IdsTyped
  <2>2. CASE p \notin own
    <3>1. /\ p[2] \in {Len(heap) + 1, Len(heap) + 2, Len(heap) + 3, Null}
          /\ p[1][1] \in Kinds
      BY <2>2 DEF Request, Points, Kinds
    <3> QED BY <3>1, <1>5, <1>6
  <2> QED BY <2>1, <2>2
<1> QED BY <1>1, <1>2, <1>5, <1>7 DEF RenameInv, IdsTyped, Idle

LEMMA AssignIInv ==
  ASSUME RenameInv, NEW lhs \in Held(<<"fields">>), NEW rhs \in Held(<<"fields">>), Equate(lhs, rhs)
  PROVE  RenameInv'
<1>1. Idle /\ UNCHANGED <<heap, work, rev, next>>
  BY DEF Equate
<1>2. \A c : \A o \in Held(c) : o \in DOMAIN heap
  BY DEF Held, RenameInv, IdsTyped
<1>3. ASSUME NEW p \in own' PROVE p[1][1] \in Kinds /\ p[2] \in DOMAIN heap
  <2>1. CASE p \in own
    BY <2>1 DEF RenameInv, IdsTyped
  <2>2. CASE p \in {<<<<"eq">>, lhs>>, <<<<"eq">>, rhs>>, <<<<"eq", rhs>>, lhs>>}
    BY <2>2, <1>2 DEF Kinds
  <2>3. CASE \E o \in Held(<<"als", rhs>>) : p \in Points(lhs, o)
    BY <2>3, <1>2 DEF Points, Kinds
  <2> QED BY <2>1, <2>2, <2>3 DEF Equate
<1> QED BY <1>1, <1>3 DEF RenameInv, IdsTyped, Idle

LEMMA KillIInv == ASSUME RenameInv, NEW v, Kill(v) PROVE RenameInv'
BY DEF Kill, RenameInv, IdsTyped, Idle

-----------------------------------------------------------------------------
(* rename *)

\* Every place is in the id map.
LEMMA AllCollected == ASSUME IdsTyped PROVE IdMap = own
BY DEF IdMap, VsdPlaces, EqPlaces, AlsPlaces, IdsTyped, Kinds

LEMMA PlaceIds ==
  ASSUME IdsTyped, NEW p \in own
  PROVE  /\ Before(p) \in Ids(next) /\ Before(p)[2] \in Nat
         /\ IsVariable(p) => Before(p)[2] < next
BY IdParts DEF IdsTyped, Before, IsVariable

LEMMA CallIInv == ASSUME RenameInv, Call PROVE RenameInv'
<1>1. /\ UNCHANGED <<heap, own, next>> /\ own # {}
      /\ work' = [p \in own |-> p[2]] /\ rev' = RevMap
  BY DEF Call
<1>2. IdsTyped /\ IdsTyped'
  BY <1>1 DEF RenameInv, IdsTyped
<1>3. DOMAIN rev' = Counters({p[2] : p \in own})
  BY <1>1, <1>2, AllCollected DEF RevMap
<1>4. \A p \in own : Before(p)' = Before(p) /\ (IsVariable(p)' <=> IsVariable(p))
  BY <1>1 DEF Before, IsVariable
<1>5. \A p \in own : IsVariable(p) => Before(p)[2] \in DOMAIN rev'
  BY <1>3 DEF Counters, Before, IsVariable
<1>6. \A p \in own : ~Done(p)'
  BY <1>4, <1>5 DEF Done
<1>7. DOMAIN rev' \subseteq Nat
  BY <1>2, <1>3, PlaceIds DEF Counters, Before, IsVariable
<1>8. \A n \in DOMAIN rev' : /\ rev'[n].numbers = {p \in own : Before(p)' = Numeric(n)}
                             /\ rev'[n].mids = {p \in own : Before(p)' = Pointer(n)}
  BY <1>1, <1>2, <1>4, AllCollected DEF RevMap
<1>9. Pending'
  BY <1>1, <1>6, <1>7, <1>8 DEF Pending
<1>10. Halfway'
  BY <1>1, <1>2, <1>6 DEF Halfway, IdsTyped
<1>11. ~Idle'
  BY <1>1 DEF Idle
<1> QED BY <1>2, <1>9, <1>10, <1>11 DEF RenameInv

LEMMA RenameNextIInv == ASSUME RenameInv, RenameNext PROVE RenameInv'
<1> DEFINE n == NextCounter
<1>1. /\ DOMAIN rev # {} /\ next < MaxCounter
      /\ heap' = heap \o Fresh /\ next' = next + 1
      /\ work' = Replaced(rev[n].numbers, rev[n].mids)
      /\ rev' = [m \in DOMAIN rev \ {n} |-> rev[m]]
      /\ own' = own
  BY DEF RenameNext
<1>2. IdsTyped /\ Pending /\ Halfway /\ ~Idle
  BY <1>1 DEF RenameInv
<1>3. n \in DOMAIN rev /\ n \in Nat /\ \A m \in DOMAIN rev : n <= m
  BY <1>1, <1>2, LeastCounter DEF NextCounter, Pending
<1> HIDE DEF n
<1>4. next \in Nat /\ next' \in Nat /\ next' = next + 1 /\ next' \in 0 .. MaxCounter
  BY <1>1, <1>2 DEF IdsTyped
<1>5. Fresh \in Seq(Ids(next')) /\ Len(Fresh) = 2
      /\ Fresh[1] = Numeric(next) /\ Fresh[2] = Pointer(next)
  BY <1>4 DEF Fresh, Ids, Numeric, Pointer
<1>6. /\ heap' \in Seq(Ids(next')) /\ DOMAIN heap \subseteq DOMAIN heap'
      /\ \A o \in DOMAIN heap : heap'[o] = heap[o]
      /\ Len(heap) + 1 \in DOMAIN heap' /\ Len(heap) + 2 \in DOMAIN heap'
      /\ heap'[Len(heap) + 1] = Numeric(next) /\ heap'[Len(heap) + 2] = Pointer(next)
  <2>1. heap \in Seq(Ids(next)) /\ next <= next'
    BY <1>2, <1>4 DEF IdsTyped
  <2>2. next \in Nat /\ next' \in Nat /\ Fresh \in Seq(Ids(next')) /\ heap' = heap \o Fresh
    BY <1>1, <1>4, <1>5
  <2>3. /\ heap' \in Seq(Ids(next')) /\ DOMAIN heap \subseteq DOMAIN heap'
        /\ \A o \in DOMAIN heap : heap'[o] = heap[o]
        /\ \A i \in 1 .. Len(Fresh) : Len(heap) + i \in DOMAIN heap'
        /\ \A i \in 1 .. Len(Fresh) : heap'[Len(heap) + i] = Fresh[i]
    BY <2>1, <2>2, HeapGrows
  <2>4. Len(Fresh) = 2
    BY <1>5
  <2>5. 1 \in 1 .. 2 /\ 2 \in 1 .. 2
    OBVIOUS
  <2> QED BY <1>5, <2>3, <2>4, <2>5
<1>7. IdsTyped'
  BY <1>1, <1>2, <1>4, <1>6 DEF IdsTyped
<1>8. \A p \in own : /\ Before(p)' = Before(p) /\ (IsVariable(p)' <=> IsVariable(p))
                     /\ Before(p) \in Ids(next) /\ Before(p)[2] \in Nat
                     /\ IsVariable(p) => Before(p)[2] < next
  BY <1>1, <1>2, <1>6, PlaceIds DEF Before, IsVariable, IdsTyped
<1>9. DOMAIN rev' = DOMAIN rev \ {n}
  BY <1>1
<1>10. \A p \in own : Done(p)' <=> Done(p) \/ (IsVariable(p) /\ Before(p)[2] = n)
  BY <1>3, <1>8, <1>9 DEF Done
\* Now a place is done, or it is one of those just renamed.
<1>11. ASSUME NEW p \in own, IsVariable(p), Before(p)[2] = n
       PROVE  /\ Id(p)'[1] = Before(p)[1] /\ Id(p)'[2] = next /\ work'[p] \in DOMAIN heap'
  <2>1. Before(p) = Numeric(n) \/ Before(p) = Pointer(n)
    BY <1>4, <1>8, <1>11, IdParts DEF IsVariable
  <2>2. Numeric(n)[1] = 1 /\ Pointer(n)[1] = 2 /\ Numeric(next)[1] = 1 /\ Numeric(next)[2] = next
        /\ Pointer(next)[1] = 2 /\ Pointer(next)[2] = next /\ Numeric(n) # Pointer(n)
    BY DEF Numeric, Pointer
  <2>3. p \in rev[n].numbers <=> Before(p) = Numeric(n)
    BY <1>2, <1>3 DEF Pending
  <2>4. p \in rev[n].mids <=> Before(p) = Pointer(n)
    BY <1>2, <1>3 DEF Pending
  <2>5. CASE Before(p) = Numeric(n)
    <3>1. work'[p] = Len(heap) + 1
      BY <1>1, <2>3, <2>5 DEF Replaced
    <3> QED BY <3>1, <1>6, <2>2, <2>5 DEF Id
  <2>6. CASE Before(p) = Pointer(n)
    <3>1. work'[p] = Len(heap) + 2
      BY <1>1, <2>2, <2>3, <2>4, <2>6 DEF Replaced
    <3> QED BY <3>1, <1>6, <2>2, <2>6 DEF Id
  <2> QED BY <2>1, <2>5, <2>6
<1>12. ASSUME NEW p \in own, ~(IsVariable(p) /\ Before(p)[2] = n)
       PROVE  /\ work'[p] = work[p] /\ Id(p)' = Id(p) /\ Id(p) \in Ids(next)
  <2>1. p \notin rev[n].numbers /\ p \notin rev[n].mids
    BY <1>2, <1>3, <1>12 DEF Pending, Numeric, Pointer, IsVariable
  <2>2. work'[p] = work[p] /\ work[p] \in DOMAIN heap
    BY <1>1, <1>2, <2>1 DEF Replaced, Halfway
  <2> QED BY <2>2, <1>2, <1>6 DEF Id, IdsTyped
<1>13. \A p \in own : Done(p) => Before(p)[2] # n
  BY <1>3 DEF Done
<1>14. \A p \in own : Done(p) => Id(p) \in Ids(next) /\ Id(p)[1] # 0
  BY <1>2, <1>12, <1>13 DEF Halfway, Done, IsVariable
<1>15. \A p \in own : Done(p) => Id(p)[2] \in Nat /\ Id(p)[2] < next
  BY <1>4, <1>14, IdParts
\* What is done is earlier than n, what is not is later.
<1>16. \A p \in own : IsVariable(p) /\ ~Done(p) => n <= Before(p)[2]
  BY <1>3 DEF Done
<1>17. ASSUME NEW p \in own, NEW q \in own, Done(p), IsVariable(q), Before(q)[2] = n
       PROVE  Before(p)[2] < n
  <2>1. ~Done(q)
    BY <1>13, <1>17
  <2> QED BY <1>2, <1>17, <2>1 DEF Pending
<1>18. Pending'
  <2>1. DOMAIN rev' \subseteq Nat
    BY <1>2, <1>9 DEF Pending
  <2>2. \A m \in DOMAIN rev' : /\ rev'[m].numbers = {p \in own' : Before(p)' = Numeric(m)}
                               /\ rev'[m].mids = {p \in own' : Before(p)' = Pointer(m)}
    BY <1>1, <1>2, <1>8 DEF Pending
  <2>3. ASSUME NEW p \in own, NEW q \in own, Done(p)', IsVariable(q), ~Done(q)'
        PROVE  Before(p)[2] < Before(q)[2]
    <3>1. ~Done(q) /\ Before(q)[2] # n /\ n <= Before(q)[2]
      BY <1>10, <1>16, <2>3
    <3>2. CASE Done(p)
      BY <1>2, <3>1, <3>2, <2>3 DEF Pending
    <3>3. CASE Before(p)[2] = n
      BY <3>1, <3>3, <1>3, <1>8
    <3> QED BY <1>10, <2>3, <3>2, <3>3
  <2> QED BY <1>1, <1>8, <2>1, <2>2, <2>3 DEF Pending
<1>19. Halfway'
  <2>1. work' \in [own' -> DOMAIN heap']
    <3>1. work' = [p \in own |-> work'[p]]
      BY <1>1 DEF Replaced
    <3>2. \A p \in own : work'[p] \in DOMAIN heap'
      BY <1>2, <1>6, <1>11, <1>12 DEF Halfway
    <3> QED BY <1>1, <3>1, <3>2
  <2>2. ASSUME NEW p \in own, ~Done(p)' PROVE work'[p] = p[2]
    <3>1. ~Done(p) /\ ~(IsVariable(p) /\ Before(p)[2] = n)
      BY <1>10, <2>2
    <3> QED BY <1>2, <1>12, <3>1 DEF Halfway
  <2>3. ASSUME NEW p \in own, Done(p)' PROVE Id(p)'[1] = Before(p)[1]
    BY <1>2, <1>10, <1>11, <1>12, <1>13, <2>3 DEF Halfway
  <2>4. ASSUME NEW p \in own, NEW q \in own, Done(p)', IsVariable(q)
        PROVE  Before(q)[2] < Id(p)'[2]
    <3>1. CASE Done(p)
      BY <1>2, <1>12, <1>13, <3>1, <2>4 DEF Halfway
    <3>2. CASE IsVariable(p) /\ Before(p)[2] = n
      BY <1>8, <1>11, <3>2, <2>4
    <3> QED BY <1>10, <2>4, <3>1, <3>2
  <2>5. ASSUME NEW p \in own, NEW q \in own, Done(p)', Done(q)'
        PROVE  Id(p)'[2] < Id(q)'[2] <=> Before(p)[2] < Before(q)[2]
    <3>1. CASE Done(p) /\ Done(q)
      BY <1>2, <1>12, <1>13, <3>1 DEF Halfway
    <3>2. CASE Done(p) /\ IsVariable(q) /\ Before(q)[2] = n
      <4>1. Id(p)'[2] < next /\ Id(q)'[2] = next
        BY <1>11, <1>12, <1>13, <1>15, <3>2
      <4>2. Before(p)[2] < Before(q)[2]
        BY <1>17, <3>2
      <4> QED BY <4>1, <4>2
    <3>3. CASE IsVariable(p) /\ Before(p)[2] = n /\ Done(q)
      <4>1. Id(p)'[2] = next /\ Id(q)'[2] < next /\ Id(q)'[2] \in Nat
        BY <1>11, <1>12, <1>13, <1>15, <3>3
      <4>2. Before(q)[2] < Before(p)[2] /\ Before(q)[2] \in Nat /\ Before(p)[2] \in Nat
        BY <1>8, <1>17, <3>3
      <4> QED BY <1>4, <4>1, <4>2
    <3>4. CASE IsVariable(p) /\ Before(p)[2] = n /\ IsVariable(q) /\ Before(q)[2] = n
      BY <1>3, <1>4, <1>11, <3>4
    <3> QED BY <1>10, <2>5, <3>1, <3>2, <3>3, <3>4
  <2> QED BY <1>1, <1>8, <2>1, <2>2, <2>3, <2>4, <2>5 DEF Halfway
<1>20. ~Idle'
  <2>1. own # {}
    BY <1>2 DEF Halfway, Idle
  <2> QED BY <1>1, <2>1 DEF Idle, Replaced
<1> QED BY <1>7, <1>18, <1>19, <1>20 DEF RenameInv

LEMMA ApplyIInv == ASSUME RenameInv, ApplySummary PROVE RenameInv'
<1>1. /\ Renamed /\ work' = <<>> /\ UNCHANGED <<heap, rev, next>>
      /\ own' \in {own, {<<Container(p[1]), work[p]>> : p \in own}}
  BY DEF ApplySummary
<1>2. IdsTyped /\ work \in [own -> DOMAIN heap]
  BY <1>1 DEF RenameInv, Renamed, Halfway
<1>3. ASSUME NEW q \in own' PROVE q[1][1] \in Kinds /\ q[2] \in DOMAIN heap
  <2>1. CASE q \in own
    BY <1>2, <2>1 DEF IdsTyped
  <2>2. CASE \E p \in own : q = <<Container(p[1]), work[p]>>
    <3>1. PICK p \in own : q = <<Container(p[1]), work[p]>>
      BY <2>2
    <3>2. Container(p[1])[1] = p[1][1]
      BY DEF Container
    <3> QED BY <3>1, <3>2, <1>2 DEF IdsTyped
  <2> QED BY <1>1, <2>1, <2>2
<1>4. DOMAIN rev' = {} /\ Idle'
  BY <1>1 DEF Renamed, Idle
<1> QED BY <1>1, <1>2, <1>3, <1>4 DEF RenameInv, IdsTyped

LEMMA NextIInv == RenameInv /\ [RenameStep]_rename_vars => RenameInv'
<1> SUFFICES ASSUME RenameInv, [RenameStep]_rename_vars PROVE RenameInv'
  OBVIOUS
<1>1. CASE UNCHANGED rename_vars
  BY <1>1 DEF rename_vars, RenameInv, IdsTyped, Idle, Pending, Halfway, Done, IsVariable, Before, Id
<1> QED BY <1>1, RequestIInv, AssignIInv, KillIInv, CallIInv, RenameNextIInv, ApplyIInv DEF RenameStep

-----------------------------------------------------------------------------
(* What the invariant says of a summary that is renamed. *)

LEMMA RenamedPlaces ==
  ASSUME RenameInv, Renamed, NEW p \in own
  PROVE  /\ Id(p)[1] = Before(p)[1] /\ (~IsVariable(p) => Id(p) = Before(p) /\ Before(p) = Special(0))
         /\ Done(p) <=> IsVariable(p)
         /\ Before(p)[1] \in {0, 1, 2} /\ Before(p)[2] \in Nat /\ Id(p)[2] \in Nat
<1>1. IdsTyped /\ Halfway /\ DOMAIN rev = {}
  BY DEF RenameInv, Renamed
<1>2. Before(p) \in Ids(next) /\ Id(p) \in Ids(next) /\ next \in Nat
  BY <1>1 DEF IdsTyped, Halfway, Before, Id
<1>3. Done(p) <=> IsVariable(p)
  BY <1>1 DEF Done
<1>4. ~IsVariable(p) => Id(p) = Before(p)
  BY <1>1, <1>3 DEF Halfway, Id, Before
<1> QED BY <1>1, <1>2, <1>3, <1>4, IdParts DEF Halfway, IsVariable

LEMMA OrderKept ==
  ASSUME RenameInv, Renamed, NEW p \in own, NEW q \in own, IsVariable(p), IsVariable(q)
  PROVE  /\ Id(p)[2] < Id(q)[2] <=> Before(p)[2] < Before(q)[2]
         /\ Id(p)[2] = Id(q)[2] <=> Before(p)[2] = Before(q)[2]
<1>1. /\ Id(p)[2] < Id(q)[2] <=> Before(p)[2] < Before(q)[2]
      /\ Id(q)[2] < Id(p)[2] <=> Before(q)[2] < Before(p)[2]
  BY RenamedPlaces DEF RenameInv, Renamed, Halfway
<1>2. /\ Before(p)[2] \in Nat /\ Id(p)[2] \in Nat
      /\ Before(q)[2] \in Nat /\ Id(q)[2] \in Nat
  BY RenamedPlaces
<1> QED BY <1>1, <1>2

LEMMA IInvSameOrder == ASSUME RenameInv PROVE SameOrder
<1> SUFFICES ASSUME Renamed, NEW p \in own, NEW q \in own
             PROVE  Less(Id(p), Id(q)) <=> Less(Before(p), Before(q))
  BY DEF SameOrder
<1>1. CASE IsVariable(p) /\ IsVariable(q)
  BY <1>1, OrderKept, RenamedPlaces DEF Less
<1>2. CASE ~IsVariable(p)
  BY <1>2, RenamedPlaces DEF Less, IsVariable, Special
<1>3. CASE ~IsVariable(q)
  BY <1>3, RenamedPlaces DEF Less, IsVariable, Special
<1> QED BY <1>1, <1>2, <1>3

LEMMA IInvSameShape == ASSUME RenameInv PROVE SameShape
BY OrderKept, RenamedPlaces DEF SameShape, IsVariable

LEMMA IInvApart == ASSUME RenameInv PROVE Apart
<1> SUFFICES ASSUME Renamed, NEW n \in Counters({work[p] : p \in own}),
                    n \in Counters({p[2] : p \in own})
             PROVE  FALSE
  BY DEF Apart
<1>1. PICK p \in own : Id(p)[1] # 0 /\ n = Id(p)[2]
  BY DEF Counters, Id
<1>2. PICK q \in own : Before(q)[1] # 0 /\ n = Before(q)[2]
  BY DEF Counters, Before
<1>3. IsVariable(p) /\ IsVariable(q) /\ Done(p)
  BY <1>1, <1>2, RenamedPlaces DEF IsVariable
<1>4. Before(q)[2] < Id(p)[2]
  BY <1>3 DEF RenameInv, Renamed, Halfway
<1> QED BY <1>1, <1>2, <1>4, RenamedPlaces

\* The objects that places hold are there, ids are of variables that were generated,
\* and what is left to rename are places of the summary.
THEOREM RenameTyped == RenameSpec => []RenameTypeOK
<1>1. RenameInv => RenameTypeOK
  <2> SUFFICES ASSUME RenameInv PROVE RenameTypeOK
    OBVIOUS
  <2>1. \A o \in DOMAIN heap : heap[o] \in {Special(0)} \cup ({1, 2} \X (0 .. next - 1))
    BY DEF RenameInv, IdsTyped, Ids
  <2>2. Idle \/ work \in [own -> DOMAIN heap]
    BY DEF RenameInv, Halfway
  <2>3. \A n \in DOMAIN rev : rev[n].numbers \cup rev[n].mids \subseteq own
    BY DEF RenameInv, Pending
  <2> QED BY <2>1, <2>2, <2>3 DEF RenameTypeOK, RenameInv, IdsTyped
<1>2. RenameInit => RenameInv
  BY InitIInv
<1> QED BY <1>1, <1>2, NextIInv, PTL DEF RenameSpec

\* The keys of every map and the elements of every set of a renamed summary are in
\* the order they were in, so that it can still be searched.
THEOREM OrderSafe == RenameSpec => []SameOrder
<1>1. RenameInv => SameOrder
  BY IInvSameOrder
<1>2. RenameInit => RenameInv
  BY InitIInv
<1> QED BY <1>1, <1>2, NextIInv, PTL DEF RenameSpec

\* Renaming identifies no two variables, takes none apart, and takes regions along
\* with the variables they are named by.
THEOREM ShapeSafe == RenameSpec => []SameShape
<1>1. RenameInv => SameShape
  BY IInvSameShape
<1>2. RenameInit => RenameInv
  BY InitIInv
<1> QED BY <1>1, <1>2, NextIInv, PTL DEF RenameSpec

\* A renamed summary has no variable in common with the state it is applied to.
THEOREM ApartSafe == RenameSpec => []Apart
<1>1. RenameInv => Apart
  BY IInvApart
<1>2. RenameInit => RenameInv
  BY InitIInv
<1> QED BY <1>1, <1>2, NextIInv, PTL DEF RenameSpec

-----------------------------------------------------------------------------
(* Folds *)

\* A set of numbers that has 0 and each successor has every number.
LEMMA EveryNumber ==
  ASSUME NEW S, 0 \in S, \A k \in Nat : k \in S => k + 1 \in S
  PROVE  Nat \subseteq S
<1> DEFINE T == Nat \ S
<1>1. SUFFICES ASSUME T # {} PROVE FALSE
  OBVIOUS
<1>2. PICK m \in T : \A n \in T : ~(<<n, m>> \in OpToRel(<, Nat))
  <2>1. T \subseteq Nat
    OBVIOUS
  <2> HIDE DEF T
  <2>2. QED
    BY <1>1, <2>1, NatLessThanWellFounded, WFMin, Zenon
<1>3. m \in Nat /\ m # 0
  BY <1>2
<1>4. m - 1 \in Nat /\ m - 1 < m /\ (m - 1) + 1 = m
  BY <1>3
<1>5. m - 1 \notin T
  BY <1>2, <1>3, <1>4, Zenon DEF OpToRel
<1>6. m \in S
  BY <1>3, <1>4, <1>5
<1>7. QED
  BY <1>2, <1>6

\* How a set is worked off: an element of each set that is not empty.
Picks(pick, S) == \A s \in (SUBSET S) \ {{}} : pick[s] \in s

\* F is the fold over the subsets of S.
IsFold(F, S, pick, base, Op) ==
  F = [s \in SUBSET S |-> IF s = {} THEN base ELSE Op[<<pick[s], F[s \ {pick[s]}]>>]]

\* What the empty set has and every step keeps, all sets have.
LEMMA FoldStays ==
  ASSUME NEW S, IsFiniteSet(S), NEW pick, Picks(pick, S), NEW G, NEW Fam,
         G[{}] \in Fam[{}],
         \A s \in (SUBSET S) \ {{}} : G[s \ {pick[s]}] \in Fam[s \ {pick[s]}] => G[s] \in Fam[s]
  PROVE  \A s \in SUBSET S : G[s] \in Fam[s]
<1> DEFINE Ns == {n \in Nat : \A s \in SUBSET S : Cardinality(s) = n => G[s] \in Fam[s]}
<1>1. \A s \in SUBSET S : IsFiniteSet(s) /\ Cardinality(s) \in Nat
  BY FS_Subset, FS_CardinalityType
<1>2. 0 \in Ns
  BY <1>1, FS_EmptySet
<1>3. ASSUME NEW k \in Nat, k \in Ns PROVE k + 1 \in Ns
  <2>1. SUFFICES ASSUME NEW s \in SUBSET S, Cardinality(s) = k + 1 PROVE G[s] \in Fam[s]
    OBVIOUS
  <2>2. s # {}
    BY <1>1, <2>1, FS_EmptySet
  <2>3. pick[s] \in s
    BY <2>2 DEF Picks
  <2>4. Cardinality(s \ {pick[s]}) = k /\ s \ {pick[s]} \in SUBSET S
    <3>1. Cardinality(s \ {pick[s]}) = Cardinality(s) - 1
      BY <1>1, <2>3, FS_RemoveElement
    <3>2. QED
      BY <2>1, <3>1
  <2>5. G[s \ {pick[s]}] \in Fam[s \ {pick[s]}]
    BY <1>3, <2>4
  <2>6. QED
    BY <2>2, <2>5
<1>4. Nat \subseteq Ns
  <2> HIDE DEF Ns
  <2> QED BY <1>2, <1>3, EveryNumber
<1>5. QED
  BY <1>1, <1>4

\* The equation of a fold has a solution.
LEMMA FoldExists ==
  ASSUME NEW S, IsFiniteSet(S), NEW pick, Picks(pick, S), NEW base, NEW Op
  PROVE  \E F : IsFold(F, S, pick, base, Op)
<1> DEFINE Body(F, s) == IF s = {} THEN base ELSE Op[<<pick[s], F[s \ {pick[s]}]>>]
           Upto(F, n) == /\ F = [s \in SUBSET S |-> F[s]]
                         /\ \A s \in SUBSET S : Cardinality(s) <= n => F[s] = Body(F, s)
           Ns == {n \in Nat : \E F : Upto(F, n)}
<1>1. \A s \in SUBSET S : IsFiniteSet(s) /\ Cardinality(s) \in Nat /\ Cardinality(s) <= Cardinality(S)
  BY FS_Subset, FS_CardinalityType
<1>2. \A s \in SUBSET S : s # {} => pick[s] \in s /\ Cardinality(s \ {pick[s]}) = Cardinality(s) - 1
  <2>1. ASSUME NEW s \in SUBSET S, s # {}
        PROVE pick[s] \in s /\ Cardinality(s \ {pick[s]}) = Cardinality(s) - 1
    <3>1. pick[s] \in s
      BY <2>1 DEF Picks
    <3>2. IsFiniteSet(s)
      BY <1>1
    <3>3. QED
      BY <3>1, <3>2, FS_RemoveElement
  <2>2. QED
    BY <2>1
<1>3. 0 \in Ns
  <2> DEFINE F == [s \in SUBSET S |-> base]
  <2>1. F = [s \in SUBSET S |-> F[s]]
    OBVIOUS
  <2>2. ASSUME NEW s \in SUBSET S, Cardinality(s) <= 0 PROVE F[s] = Body(F, s)
    <3>1. s = {}
      BY <1>1, <2>2, FS_EmptySet
    <3>2. QED
      BY <3>1
  <2>3. Upto(F, 0)
    <3> HIDE DEF F, Body
    <3> QED BY <2>1, <2>2
  <2> HIDE DEF Upto, F
  <2>4. QED
    BY <2>3
<1>4. ASSUME NEW k \in Nat, k \in Ns PROVE k + 1 \in Ns
  <2>1. PICK F : Upto(F, k)
    BY <1>4
  <2> DEFINE G == [s \in SUBSET S |-> IF Cardinality(s) <= k THEN F[s] ELSE Body(F, s)]
  <2>2. G = [s \in SUBSET S |-> G[s]]
    OBVIOUS
  <2>3. ASSUME NEW s \in SUBSET S, Cardinality(s) <= k + 1 PROVE G[s] = Body(G, s)
    <3>1. G[s] = Body(F, s)
      BY <2>1
    <3>2. CASE s = {}
      BY <3>1, <3>2
    <3>3. CASE s # {}
      <4>1. s \ {pick[s]} \in SUBSET S /\ Cardinality(s \ {pick[s]}) <= k
        BY <1>1, <1>2, <2>3, <3>3
      <4>2. G[s \ {pick[s]}] = F[s \ {pick[s]}]
        BY <4>1
      <4> HIDE DEF G
      <4>3. QED
        BY <3>1, <3>3, <4>2
    <3>4. QED
      BY <3>2, <3>3
  <2>4. Upto(G, k + 1)
    <3> HIDE DEF G, Body
    <3> QED BY <2>2, <2>3
  <2>5. \E E : Upto(E, k + 1)
    <3> HIDE DEF Upto, G
    <3> QED BY <2>4, Zenon
  <2> HIDE DEF Upto
  <2>6. QED
    BY <2>5
<1>5. Cardinality(S) \in Ns
  <2>1. Nat \subseteq Ns
    <3> HIDE DEF Ns
    <3> QED BY <1>3, <1>4, EveryNumber
  <2>2. QED
    BY <1>1, <2>1
<1>6. PICK F : Upto(F, Cardinality(S))
  BY <1>5
<1>7. F = [s \in SUBSET S |-> Body(F, s)]
  <2> HIDE DEF Body
  <2>1. \A s \in SUBSET S : F[s] = Body(F, s)
    BY <1>1, <1>6
  <2>2. QED
    BY <1>6, <2>1
<1>8. QED
  BY <1>7, Zenon DEF IsFold

\* It stays in a set that is closed under the operation.
LEMMA FoldIn ==
  ASSUME NEW S, IsFiniteSet(S), NEW pick, Picks(pick, S), NEW M, NEW base \in M,
         NEW Op, \A x \in S, m \in M : Op[<<x, m>>] \in M
  PROVE  \E F : IsFold(F, S, pick, base, Op) /\ \A s \in SUBSET S : F[s] \in M
<1>1. PICK F : IsFold(F, S, pick, base, Op)
  BY FoldExists
<1> DEFINE Fam == [s \in SUBSET S |-> M]
<1>2. \A s \in SUBSET S : F[s] = IF s = {} THEN base ELSE Op[<<pick[s], F[s \ {pick[s]}]>>]
  BY <1>1 DEF IsFold
<1>3. \A s \in SUBSET S : F[s] \in Fam[s]
  <2>1. F[{}] \in Fam[{}]
    BY <1>2
  <2>2. ASSUME NEW s \in (SUBSET S) \ {{}}, F[s \ {pick[s]}] \in Fam[s \ {pick[s]}] PROVE F[s] \in Fam[s]
    <3>1. pick[s] \in S /\ F[s \ {pick[s]}] \in M
      BY <2>2 DEF Picks
    <3>2. QED
      BY <1>2, <3>1
  <2> HIDE DEF Fam
  <2>3. QED
    BY <2>1, <2>2, FoldStays
<1>4. \A s \in SUBSET S : F[s] \in M
  BY <1>3
<1>5. QED
  BY <1>1, <1>4

\* The fold over S itself.
LEMMA FoldEnds ==
  ASSUME NEW S, IsFiniteSet(S), NEW pick, Picks(pick, S), NEW G, NEW M, G[{}] \in M,
         \A s \in (SUBSET S) \ {{}} : G[s \ {pick[s]}] \in M => G[s] \in M
  PROVE  G[S] \in M
<1> DEFINE Fam == [s \in SUBSET S |-> M]
<1>1. G[{}] \in Fam[{}]
  OBVIOUS
<1>2. ASSUME NEW s \in (SUBSET S) \ {{}}, G[s \ {pick[s]}] \in Fam[s \ {pick[s]}] PROVE G[s] \in Fam[s]
  BY <1>2
<1>3. \A s \in SUBSET S : G[s] \in Fam[s]
  <2> HIDE DEF Fam
  <2> QED BY <1>1, <1>2, FoldStays
<1>4. QED
  BY <1>3

LEMMA OnlyOne ==
  ASSUME NEW S, IsFiniteSet(S), Cardinality(S) = 1, NEW x \in S
  PROVE  S = {x}
<1>1. Cardinality(S \ {x}) = 0 /\ IsFiniteSet(S \ {x})
  BY FS_RemoveElement
<1>2. S \ {x} = {}
  BY <1>1, FS_EmptySet
<1>3. QED
  BY <1>2

LEMMA AnyPicks == ASSUME NEW S PROVE Picks([s \in SUBSET S |-> CHOOSE x \in s : TRUE], S)
<1> DEFINE pick == [s \in SUBSET S |-> CHOOSE x \in s : TRUE]
<1>1. ASSUME NEW s \in (SUBSET S) \ {{}} PROVE pick[s] \in s
  BY <1>1
<1> HIDE DEF pick
<1>2. QED
  BY <1>1 DEF Picks

\* A finite set of integers has a least and a greatest element.
LEMMA Extremes ==
  ASSUME NEW S \in SUBSET Int, IsFiniteSet(S), S # {}
  PROVE  /\ Min(S) \in S /\ \A x \in S : Min(S) <= x
         /\ Max(S) \in S /\ \A x \in S : x <= Max(S)
<1> DEFINE Bounded(s) == \E lo, hi \in s : \A x \in s : lo <= x /\ x <= hi
           G == [s \in SUBSET S |-> s]
           Fam == [s \in SUBSET S |-> {t \in {s} : s = {} \/ Bounded(s)}]
           pick == [s \in SUBSET S |-> CHOOSE x \in s : TRUE]
<1>1. \A s \in SUBSET S : G[s] \in Fam[s]
  <2>1. G[{}] \in Fam[{}]
    OBVIOUS
  <2>2. ASSUME NEW s \in (SUBSET S) \ {{}}, G[s \ {pick[s]}] \in Fam[s \ {pick[s]}] PROVE G[s] \in Fam[s]
    <3> DEFINE x == pick[s]
               t == s \ {x}
    <3>1. x \in s /\ x \in Int
      BY AnyPicks DEF Picks
    <3>2. t = {} \/ Bounded(t)
      <4> HIDE DEF pick, Bounded
      <4> QED BY <2>2
    <3>3. CASE t = {}
      <4>1. \A y \in s : y = x
        BY <3>3
      <4> HIDE DEF x
      <4>2. \A y \in s : x <= y /\ y <= x
        BY <3>1, <4>1
      <4>3. Bounded(s)
        BY <3>1, <4>2
      <4> HIDE DEF Bounded
      <4>4. QED
        BY <4>3
    <3>4. CASE Bounded(t)
      <4>1. PICK lo, hi \in t : \A y \in t : lo <= y /\ y <= hi
        BY <3>4
      <4>2. \A y \in s : y = x \/ y \in t
        OBVIOUS
      <4>3. lo \in s /\ hi \in s /\ lo \in Int /\ hi \in Int /\ s \subseteq Int
        BY <4>1
      <4> HIDE DEF pick, x, t
      <4>4. \E low \in s : \A y \in s : low <= y
        <5>1. CASE x <= lo
          BY <3>1, <4>1, <4>2, <4>3, <5>1
        <5>2. CASE ~(x <= lo)
          BY <3>1, <4>1, <4>2, <4>3, <5>2
        <5>3. QED
          BY <5>1, <5>2
      <4>5. \E high \in s : \A y \in s : y <= high
        <5>1. CASE x >= hi
          BY <3>1, <4>1, <4>2, <4>3, <5>1
        <5>2. CASE ~(x >= hi)
          BY <3>1, <4>1, <4>2, <4>3, <5>2
        <5>3. QED
          BY <5>1, <5>2
      <4>6. Bounded(s)
        BY <4>4, <4>5
      <4> HIDE DEF Bounded
      <4>7. QED
        BY <4>6
    <3>5. QED
      BY <3>2, <3>3, <3>4
  <2> HIDE DEF G, Fam, pick, Bounded
  <2>3. Picks(pick, S)
    BY AnyPicks DEF pick
  <2>4. QED
    BY <2>1, <2>2, <2>3, FoldStays
<1>2. Bounded(S)
  <2> HIDE DEF Bounded
  <2> QED BY <1>1
<1>3. PICK lo, hi \in S : \A x \in S : lo <= x /\ x <= hi
  BY <1>2
<1>4. Min(S) \in S /\ \A x \in S : Min(S) =< x
  <2>1. \E x \in S : \A y \in S : x =< y
    BY <1>3
  <2>2. QED
    BY <2>1, Zenon DEF Min
<1>5. Max(S) \in S /\ \A x \in S : Max(S) >= x
  <2>1. \E x \in S : \A y \in S : x >= y
    BY <1>3
  <2>2. QED
    BY <2>1, Zenon DEF Max
<1>6. QED
  BY <1>4, <1>5

\* Folding upward takes the greatest first from what is left.
LEMMA MaxPicks ==
  ASSUME NEW S \in SUBSET Int, IsFiniteSet(S)
  PROVE  Picks([s \in SUBSET S |-> Max(s)], S)
<1> DEFINE pick == [s \in SUBSET S |-> Max(s)]
<1>1. ASSUME NEW s \in (SUBSET S) \ {{}} PROVE pick[s] \in s
  <2>1. IsFiniteSet(s) /\ s \in SUBSET Int
    BY FS_Subset
  <2>2. QED
    BY <2>1, Extremes
<1>2. Picks(pick, S)
  <2> HIDE DEF pick
  <2> QED BY <1>1 DEF Picks
<1>3. QED
  BY <1>2

\* A field has a size, and a value for each of its cells or none.
Field == {f \in [size : Nat \ {0}, val : Seq(Cell)] : f.val = Top \/ Len(f.val) = f.size}

Rows == UNION {[D -> Field] : D \in SUBSET Int}

\* What check_consistency asks of the fields of a region: they do not overlap.
Separate(out) == \A o, o2 \in DOMAIN out : o2 > o => o2 >= Ends(out, o)
Row == {out \in Rows : IsFiniteSet(DOMAIN out) /\ Separate(out)}

\* The sizes of the fields at the entry are those they have now.
Layout == {io \in [in : UNION {[D -> Int] : D \in SUBSET Int}, out : Row] :
             DOMAIN io.in = DOMAIN io.out /\ \A o \in DOMAIN io.out : io.in[o] = io.out[o].size}

Size == Nat \ {0}

LEMMA FieldIs ==
  ASSUME NEW f \in Field
  PROVE  f = [size |-> f.size, val |-> f.val] /\ f.size \in Size /\ f.val \in Seq(Cell) /\ (f.val = Top \/ Len(f.val) = f.size)
BY DEF Field, Size

LEMMA FieldMade ==
  ASSUME NEW size \in Size, NEW val \in Seq(Cell), val = Top \/ Len(val) = size
  PROVE  [size |-> size, val |-> val] \in Field
BY DEF Field, Size

LEMMA RowIs ==
  ASSUME NEW out \in Row
  PROVE  /\ DOMAIN out \in SUBSET Int /\ IsFiniteSet(DOMAIN out)
         /\ out \in [DOMAIN out -> Field]
         /\ \A o \in DOMAIN out : /\ out[o].size \in Size /\ Ends(out, o) \in Int /\ o < Ends(out, o)
                                  /\ Ends(out, o) = o + out[o].size
         /\ \A o, o2 \in DOMAIN out : o2 > o => o2 >= Ends(out, o)
<1>1. PICK D \in SUBSET Int : out \in [D -> Field]
  BY DEF Row, Rows
<1>2. DOMAIN out = D
  BY <1>1
<1>3. ASSUME NEW o \in D PROVE out[o].size \in Nat \ {0} /\ o \in Int
  <2>1. out[o] \in Field
    BY <1>1
  <2>2. QED
    BY <2>1, FieldIs DEF Size
<1>4. \A o \in D : Ends(out, o) \in Int /\ o < Ends(out, o) /\ Ends(out, o) = o + out[o].size
  BY <1>3 DEF Ends
<1>5. QED
  BY <1>1, <1>2, <1>3, <1>4 DEF Row, Separate, Size

LEMMA RowMade ==
  ASSUME NEW D \in SUBSET Int, IsFiniteSet(D), NEW out \in [D -> Field], Separate(out)
  PROVE  out \in Row
<1>1. out \in Rows
  BY DEF Rows
<1>2. DOMAIN out = D
  OBVIOUS
<1>3. QED
  BY <1>1, <1>2 DEF Row

LEMMA LayoutIs ==
  ASSUME NEW io \in Layout
  PROVE  /\ io.out \in Row /\ DOMAIN io.in = DOMAIN io.out /\ io = [in |-> io.in, out |-> io.out]
         /\ \A o \in DOMAIN io.out : io.in[o] = io.out[o].size
         /\ io.in \in [DOMAIN io.out -> Int]
<1>1. /\ io \in [in : UNION {[D -> Int] : D \in SUBSET Int}, out : Row]
      /\ DOMAIN io.in = DOMAIN io.out /\ \A o \in DOMAIN io.out : io.in[o] = io.out[o].size
  BY DEF Layout
<1>2. io.in \in UNION {[D -> Int] : D \in SUBSET Int} /\ io.out \in Row /\ io = [in |-> io.in, out |-> io.out]
  BY <1>1
<1>3. QED
  BY <1>1, <1>2

LEMMA LayoutMade ==
  ASSUME NEW out \in Row, NEW in \in [DOMAIN out -> Int], \A o \in DOMAIN out : in[o] = out[o].size
  PROVE  [in |-> in, out |-> out] \in Layout
<1>1. DOMAIN out \in SUBSET Int
  BY RowIs
<1>2. in \in UNION {[D -> Int] : D \in SUBSET Int}
  BY <1>1
<1>3. QED
  BY <1>2 DEF Layout

\* What lies over a range: its first and its last cell are cells of these fields or
\* there are none.
LEMMA OverIs ==
  ASSUME NEW out \in Row, NEW off \in Int, NEW size \in Size, NEW over, over = Overlapped(out, off, size)
  PROVE  /\ over \in SUBSET Int /\ IsFiniteSet(over) /\ over \subseteq DOMAIN out
         /\ \A o \in DOMAIN out : o \in over <=> (o < off + size /\ Ends(out, o) > off)
<1>1. DOMAIN out \in SUBSET Int /\ IsFiniteSet(DOMAIN out)
  BY RowIs
<1>2. over \subseteq DOMAIN out /\ \A o \in DOMAIN out : o \in over <=> (o < off + size /\ Ends(out, o) > off)
  BY DEF Overlapped
<1>3. QED
  BY <1>1, <1>2, FS_Subset

\* The cells of fields that are all within an interval are not more than it has.
LEMMA TotalBound ==
  ASSUME NEW out \in Row, NEW over \in SUBSET DOMAIN out, over # {}, NEW lo \in Int, NEW hi \in Int, lo <= hi,
         \A o \in over : lo <= o /\ Ends(out, o) <= hi
  PROVE  Cardinality(UNION {o .. Ends(out, o) - 1 : o \in over}) \in 0 .. hi - lo
<1> DEFINE cells == UNION {o .. Ends(out, o) - 1 : o \in over}
<1>1. over \subseteq Int /\ \A o \in over : Ends(out, o) \in Int
  BY RowIs
<1>2. cells \subseteq lo .. (hi - 1)
  <2>1. SUFFICES ASSUME NEW o \in over, NEW c \in o .. Ends(out, o) - 1 PROVE c \in lo .. (hi - 1)
    OBVIOUS
  <2>2. QED
    BY <1>1
<1>3. IsFiniteSet(lo .. (hi - 1)) /\ Cardinality(lo .. (hi - 1)) = hi - lo
  <2>1. hi - 1 \in Int
    OBVIOUS
  <2>2. IsFiniteSet(lo .. (hi - 1)) /\ Cardinality(lo .. (hi - 1)) = IF lo > hi - 1 THEN 0 ELSE (hi - 1) - lo + 1
    BY <2>1, FS_Interval
  <2>3. QED
    BY <2>2
<1> HIDE DEF cells
<1>4. IsFiniteSet(cells) /\ Cardinality(cells) <= hi - lo
  BY <1>2, <1>3, FS_Subset
<1>5. Cardinality(cells) \in Nat
  BY <1>4, FS_CardinalityType
<1>6. Cardinality(cells) \in 0 .. hi - lo
  BY <1>4, <1>5
<1>7. QED
  BY <1>6 DEF cells

\* Fields that are not in the way of the new field are not in the way of what is left of
\* those that are.
LEMMA ExtentIs ==
  ASSUME NEW out \in Row, NEW off \in Int, NEW size \in Size, NEW over, over = Overlapped(out, off, size),
         NEW ext, ext = Extent(out, off, size, over)
  PROVE  /\ ext.first \in Int /\ ext.end \in Int /\ ext.first <= off /\ off + size <= ext.end
         /\ \A o \in over : ext.first <= o
         /\ \A o \in DOMAIN out \ over : o >= ext.end \/ Ends(out, o) <= ext.first
         /\ over = {} => ext.first = off /\ ext.end = off + size
         /\ ext.first \in over \cup {off}
         /\ \A hi \in Int : off + size <= hi /\ (\A o \in over : Ends(out, o) <= hi) => ext.end <= hi
<1> DEFINE total == Cardinality(UNION {o .. Ends(out, o) - 1 : o \in over})
<1>1. /\ over \in SUBSET Int /\ IsFiniteSet(over) /\ over \subseteq DOMAIN out
      /\ \A o \in DOMAIN out : o \in over <=> (o < off + size /\ Ends(out, o) > off)
  BY OverIs
<1>2. /\ DOMAIN out \in SUBSET Int
      /\ \A o \in DOMAIN out : out[o].size \in Size /\ Ends(out, o) \in Int /\ o < Ends(out, o)
      /\ \A o, o2 \in DOMAIN out : o2 > o => o2 >= Ends(out, o)
  BY RowIs
<1>3. size \in Nat \ {0}
  BY DEF Size
<1>4. CASE over = {}
  <2>1. ext = [first |-> off, end |-> off + size]
    BY <1>4 DEF Extent
  <2>2. \A o \in DOMAIN out : o >= off + size \/ Ends(out, o) <= off
    BY <1>1, <1>2, <1>3, <1>4
  <2>3. QED
    BY <1>3, <1>4, <2>1, <2>2
<1>5. CASE over # {}
  <2>1. ext.first = Min(over \cup {off}) /\ ext.end = Max({Min(over) + total, off + size})
    BY <1>5 DEF Extent
  <2>2. IsFiniteSet(over \cup {off})
    BY <1>1, FS_AddElement
  <2>3. Min(over \cup {off}) \in over \cup {off} /\ \A x \in over \cup {off} : Min(over \cup {off}) <= x
    BY <1>1, <2>2, Extremes
  <2>4. Min(over) \in over /\ \A o \in over : Min(over) <= o
    BY <1>1, <1>5, Extremes
  <2> DEFINE least == Min(over)
  <2>5. \E hi \in Int : \A o \in over : Ends(out, o) <= hi
    <3>1. Max(over) \in over /\ \A o \in over : o <= Max(over)
      BY <1>1, <1>5, Extremes
    <3>2. \A o \in over : Ends(out, o) <= Ends(out, Max(over))
      BY <1>1, <1>2, <3>1
    <3>3. QED
      BY <1>1, <1>2, <3>1, <3>2
  <2>6. PICK hi \in Int : \A o \in over : Ends(out, o) <= hi
    BY <2>5
  <2>7. total \in Nat
    <3>1. least <= hi
      BY <1>1, <1>2, <2>4, <2>6
    <3>2. total \in 0 .. hi - least
      <4> HIDE DEF total
      <4> QED BY <1>1, <1>5, <2>4, <2>6, <3>1, TotalBound DEF total
    <3>3. QED
      BY <1>1, <2>4, <3>2
  <2>8. \A o \in DOMAIN out \ over : o >= off + size => total <= o - least
    <3>1. SUFFICES ASSUME NEW o \in DOMAIN out \ over, o >= off + size PROVE total <= o - least
      OBVIOUS
    <3>2. \A x \in over : Ends(out, x) <= o
      BY <1>1, <1>2, <1>3, <3>1
    <3>3. least <= o
      BY <1>1, <1>2, <2>4, <3>2
    <3>4. total \in 0 .. o - least
      <4> HIDE DEF total
      <4> QED BY <1>1, <1>2, <1>5, <2>4, <3>2, <3>3, TotalBound DEF total
    <3>5. QED
      BY <3>4
  <2> HIDE DEF total
  <2>9. /\ ext.end \in Int /\ off + size <= ext.end
        /\ ext.end = off + size \/ ext.end = Min(over) + total
    <3> DEFINE T == {Min(over) + total, off + size}
    <3>1. T \in SUBSET Int /\ T # {} /\ IsFiniteSet(T)
      <4>1. IsFiniteSet({Min(over) + total}) 
        BY FS_Singleton
      <4>2. IsFiniteSet({Min(over) + total} \cup {off + size})
        BY <4>1, FS_AddElement
      <4>3. T = {Min(over) + total} \cup {off + size}
        OBVIOUS
      <4>4. QED
        BY <1>1, <1>3, <2>4, <2>7, <4>2, <4>3
    <3> HIDE DEF T
    <3>2. Max(T) \in T /\ \A x \in T : x <= Max(T)
      BY <3>1, Extremes
    <3>3. QED
      BY <1>3, <2>1, <3>1, <3>2 DEF T
  <2>10. ASSUME NEW o \in DOMAIN out \ over PROVE o >= ext.end \/ Ends(out, o) <= ext.first
    <3>1. CASE o >= off + size
      BY <1>1, <1>2, <1>3, <2>4, <2>7, <2>8, <2>9, <3>1
    <3>2. CASE ~(o >= off + size)
      <4>1. Ends(out, o) <= off
        BY <1>1, <1>2, <1>3, <3>2
      <4>2. CASE ext.first = off
        BY <4>1, <4>2
      <4>3. CASE ext.first \in over
        <5>1. Ends(out, ext.first) > off
          BY <1>1, <4>3
        <5>2. ~(o > ext.first)
          BY <1>1, <1>2, <4>1, <4>3, <5>1
        <5>3. o # ext.first
          BY <4>3
        <5>4. ext.first > o
          BY <1>1, <1>2, <4>3, <5>2, <5>3
        <5>5. QED
          BY <1>1, <1>2, <4>3, <5>4
      <4>4. QED
        BY <2>1, <2>3, <4>2, <4>3
    <3>3. QED
      BY <3>1, <3>2
  <2>11. ASSUME NEW h \in Int, off + size <= h, \A o \in over : Ends(out, o) <= h PROVE ext.end <= h
    <3>1. least <= h
      BY <1>1, <1>2, <2>4, <2>11
    <3>2. total \in 0 .. h - least
      BY <1>1, <1>5, <2>4, <2>11, <3>1, TotalBound DEF total
    <3>3. QED
      BY <1>1, <2>4, <2>9, <2>11, <3>2
  <2>12. QED
    BY <1>1, <1>5, <2>1, <2>3, <2>9, <2>10, <2>11
<1>6. QED
  BY <1>4, <1>5

\* Fields that make up a range have every cell of it and no other.
LEMMA ExactIs ==
  ASSUME NEW out \in Row, NEW off \in Int, NEW size \in Size, NEW over, over = Overlapped(out, off, size),
         Exact(out, off, size, over)
  PROVE  /\ off \in over /\ over # {}
         /\ \A o \in over : off <= o /\ Ends(out, o) <= off + size
         /\ \A c \in off .. off + size - 1 : \E o \in over : o <= c /\ c < Ends(out, o)
<1>1. /\ over \in SUBSET Int /\ IsFiniteSet(over) /\ over \subseteq DOMAIN out
      /\ \A o \in DOMAIN out : o \in over <=> (o < off + size /\ Ends(out, o) > off)
  BY OverIs
<1>2. /\ DOMAIN out \in SUBSET Int
      /\ \A o \in DOMAIN out : out[o].size \in Size /\ Ends(out, o) \in Int /\ o < Ends(out, o)
      /\ \A o, o2 \in DOMAIN out : o2 > o => o2 >= Ends(out, o)
  BY RowIs
<1>3. size \in Nat \ {0}
  BY DEF Size
<1>4. PICK last \in over : Ends(out, last) = off + size
  BY DEF Exact
<1>5. off \in over /\ \A o, o2 \in over : o2 < o => Ends(out, o2) \in over
  BY <1>4 DEF Exact, Contiguous
<1>6. ASSUME NEW o \in over PROVE off <= o /\ Ends(out, o) <= off + size
  <2>1. ~(o < off)
    BY <1>1, <1>2, <1>5
  <2>2. o <= last
    BY <1>1, <1>2, <1>3, <1>4
  <2>3. QED
    BY <1>1, <1>2, <1>4, <2>1, <2>2
<1>7. ASSUME NEW c \in off .. off + size - 1, \A o \in over : ~(o <= c /\ c < Ends(out, o)) PROVE FALSE
  <2> DEFINE before == {o \in over : o <= c}
             o == Max(before)
  <2>1. before \in SUBSET Int /\ IsFiniteSet(before) /\ before # {}
    BY <1>1, <1>5, FS_Subset
  <2>2. o \in before /\ \A x \in before : x <= o
    <3> HIDE DEF before
    <3> QED BY <2>1, Extremes
  <2> HIDE DEF o
  <2>3. o \in over /\ o <= c /\ Ends(out, o) <= c
    BY <1>1, <1>2, <1>7, <2>2
  <2>4. o < last
    BY <1>1, <1>2, <1>3, <1>4, <1>7, <2>3
  <2>5. Ends(out, o) \in over
    BY <1>4, <1>5, <2>3, <2>4
  <2>6. Ends(out, o) \in before
    BY <2>3, <2>5
  <2>7. Ends(out, o) <= o
    BY <2>2, <2>6
  <2>8. QED
    BY <1>1, <1>2, <2>3, <2>7
<1>8. QED
  BY <1>5, <1>6, <1>7

\* The field at o has cell c.
Holds(out, o, c) == o <= c /\ c < Ends(out, o)

\* Content v is in line with what is known of cell i of a field.
Tells(val, i, v) == val = Top \/ v = Meaning(val[i])

\* What the fields of a region let cell c be: what its field says, and as it was at the
\* entry where there is no field.
Lets(fields, r, c, v) ==
  /\ \A o \in DOMAIN fields[r].out : Holds(fields[r].out, o, c) => Tells(fields[r].out[o].val, c - o + 1, v)
  /\ (\A o \in DOMAIN fields[r].out : ~Holds(fields[r].out, o, c)) => v = Meaning(<<r, c>>)

\* The second fields let the cell be all that the first ones do.
Weaker(f1, f2, r, c) == \A v \in Cell : Lets(f1, r, c, v) => Lets(f2, r, c, v)

Place(r, off, size) == r \in Region /\ off \in Nat /\ size \in Size /\ off + size <= Cells[r]

\* Fields are within the model's cells of their region.
Layouts ==
  {fields \in [Region -> Layout] :
     \A r \in Region : \A o \in DOMAIN fields[r].out : 0 <= o /\ Ends(fields[r].out, o) <= Cells[r]}

\* The field is there.
HasField(fields, r, off, size) == off \in DOMAIN fields[r].out /\ fields[r].out[off].size = size

LEMMA CellsAre == \A r \in Region : Cells[r] \in Nat
BY SummaryMemoryAssumption DEF SummaryMemoryAssumption

LEMMA LayoutsIs ==
  ASSUME NEW fields \in Layouts, NEW r \in Region
  PROVE  /\ fields[r] \in Layout /\ fields[r].out \in Row
         /\ \A o \in DOMAIN fields[r].out : 0 <= o /\ Ends(fields[r].out, o) <= Cells[r]
         /\ DOMAIN fields = Region
<1>1. fields \in [Region -> Layout]
  BY DEF Layouts
<1>2. fields[r] \in Layout
  BY <1>1
<1>3. QED
  BY <1>1, <1>2, LayoutIs DEF Layouts

LEMMA FieldOf ==
  ASSUME NEW fields \in Layouts, NEW r \in Region, NEW o \in DOMAIN fields[r].out
  PROVE  /\ fields[r].out[o] \in Field /\ o \in Int
         /\ fields[r].out[o].size \in Size /\ fields[r].out[o].val \in Seq(Cell)
         /\ fields[r].out[o].val = Top \/ Len(fields[r].out[o].val) = fields[r].out[o].size
         /\ fields[r].out[o] = [size |-> fields[r].out[o].size, val |-> fields[r].out[o].val]
<1>1. fields[r].out \in Row
  BY LayoutsIs
<1>2. fields[r].out[o] \in Field /\ o \in Int
  BY <1>1, RowIs
<1>3. QED
  BY <1>2, FieldIs

\* Setting what is known of a field changes nothing else.
LEMMA SetValIs ==
  ASSUME NEW fields \in Layouts, NEW r \in Region, NEW off \in DOMAIN fields[r].out,
         NEW val \in Seq(Cell), val = Top \/ Len(val) = fields[r].out[off].size,
         NEW f2, f2 = SetVal(fields, r, off, val)
  PROVE  /\ f2 \in Layouts
         /\ \A r2 \in Region :
              /\ DOMAIN f2[r2].out = DOMAIN fields[r2].out
              /\ \A o \in DOMAIN fields[r2].out :
                   /\ f2[r2].out[o].size = fields[r2].out[o].size
                   /\ Ends(f2[r2].out, o) = Ends(fields[r2].out, o)
                   /\ f2[r2].out[o].val = IF r2 = r /\ o = off THEN val ELSE fields[r2].out[o].val
<1> DEFINE io == fields[r]
           f == [size |-> io.out[off].size, val |-> val]
           out == [io.out EXCEPT ![off] = f]
           io2 == [in |-> io.in, out |-> out]
<1>1. /\ io \in Layout /\ io.out \in Row /\ DOMAIN fields = Region
      /\ \A o \in DOMAIN io.out : 0 <= o /\ Ends(io.out, o) <= Cells[r]
  BY LayoutsIs
<1>2. io.out \in [DOMAIN io.out -> Field] /\ DOMAIN io.out \in SUBSET Int /\ IsFiniteSet(DOMAIN io.out)
  BY <1>1, RowIs
<1>3. f \in Field /\ io.out[off] = [size |-> io.out[off].size, val |-> io.out[off].val]
  BY FieldOf, FieldMade
<1>4. io = [in |-> io.in, out |-> io.out] /\ DOMAIN io.in = DOMAIN io.out /\ io.in \in [DOMAIN io.out -> Int]
      /\ \A o \in DOMAIN io.out : io.in[o] = io.out[o].size
  BY <1>1, LayoutIs
<1>5. f2 = [fields EXCEPT ![r] = io2]
  <2>1. [io.out[off] EXCEPT !.val = val] = f
    BY <1>3
  <2>2. [io EXCEPT !.out = out] = io2
    <3> HIDE DEF io, out
    <3>1. io = [in |-> io.in, out |-> io.out]
      BY <1>4
    <3>2. QED
      BY <3>1
  <2>3. [io EXCEPT !.out[off].val = val] = io2
    BY <2>1, <2>2
  <2>4. f2 = [fields EXCEPT ![r] = [io EXCEPT !.out[off].val = val]]
    BY DEF SetVal
  <2>5. QED
    BY <2>3, <2>4
<1>6. /\ DOMAIN out = DOMAIN io.out /\ out \in [DOMAIN io.out -> Field]
      /\ \A o \in DOMAIN io.out : out[o].size = io.out[o].size /\ out[o].val = IF o = off THEN val ELSE io.out[o].val
  BY <1>2, <1>3
<1>7. \A o \in DOMAIN io.out : Ends(out, o) = Ends(io.out, o)
  BY <1>6 DEF Ends
<1> HIDE DEF f, out
<1>8. out \in Row
  <2>1. Separate(out)
    BY <1>1, <1>6, <1>7 DEF Row, Separate
  <2>2. QED
    BY <1>2, <1>6, <2>1, RowMade
<1>9. io2 \in Layout
  BY <1>4, <1>6, <1>8, LayoutMade
<1>10. f2 \in [Region -> Layout] /\ f2[r].out = out /\ \A r2 \in Region \ {r} : f2[r2] = fields[r2]
  <2>1. fields \in [Region -> Layout]
    BY DEF Layouts
  <2>2. io2.out = out
    OBVIOUS
  <2> HIDE DEF io2
  <2>3. QED
    BY <1>5, <1>9, <2>1, <2>2
<1>11. f2 \in Layouts
  BY <1>1, <1>6, <1>7, <1>10 DEF Layouts
<1>12. QED
  BY <1>6, <1>7, <1>10, <1>11

\* What a new value does to the cells: those of its field are as it tells them.
LEMMA SetValFits ==
  ASSUME NEW fields \in Layouts, NEW r \in Region, NEW off \in DOMAIN fields[r].out,
         NEW val \in Seq(Cell), val = Top \/ Len(val) = fields[r].out[off].size,
         NEW f2, f2 = SetVal(fields, r, off, val), NEW r2 \in Region, NEW c \in Int, NEW v \in Cell
  PROVE  /\ Lets(fields, r2, c, v) /\ (r2 # r \/ ~Holds(fields[r].out, off, c) \/ val = Top \/ val = fields[r].out[off].val)
              => Lets(f2, r2, c, v)
         /\ r2 = r /\ Holds(fields[r].out, off, c) /\ Tells(val, c - off + 1, v) => Lets(f2, r2, c, v)
<1>1. /\ DOMAIN f2[r2].out = DOMAIN fields[r2].out
      /\ \A o \in DOMAIN fields[r2].out :
            /\ Ends(f2[r2].out, o) = Ends(fields[r2].out, o)
            /\ f2[r2].out[o].val = IF r2 = r /\ o = off THEN val ELSE fields[r2].out[o].val
  BY SetValIs
<1>2. \A o \in DOMAIN fields[r2].out : Holds(f2[r2].out, o, c) <=> Holds(fields[r2].out, o, c)
  BY <1>1 DEF Holds
<1>3. ASSUME Lets(fields, r2, c, v),
             r2 # r \/ ~Holds(fields[r].out, off, c) \/ val = Top \/ val = fields[r].out[off].val
      PROVE  Lets(f2, r2, c, v)
  <2>1. ASSUME NEW o \in DOMAIN fields[r2].out, Holds(f2[r2].out, o, c) PROVE Tells(f2[r2].out[o].val, c - o + 1, v)
    <3>1. Tells(fields[r2].out[o].val, c - o + 1, v)
      BY <1>2, <1>3, <2>1 DEF Lets
    <3>2. CASE r2 = r /\ o = off
      <4>1. val = Top \/ val = fields[r].out[off].val
        BY <1>2, <1>3, <2>1, <3>2
      <4>2. f2[r2].out[o].val = val
        BY <1>1, <3>2
      <4>3. QED
        BY <3>1, <3>2, <4>1, <4>2 DEF Tells
    <3>3. CASE ~(r2 = r /\ o = off)
      BY <1>1, <3>1, <3>3
    <3>4. QED
      BY <3>2, <3>3
  <2>2. QED
    BY <1>1, <1>2, <1>3, <2>1 DEF Lets
<1>4. ASSUME r2 = r, Holds(fields[r].out, off, c), Tells(val, c - off + 1, v) PROVE Lets(f2, r2, c, v)
  <2>1. ASSUME NEW o \in DOMAIN fields[r2].out, Holds(f2[r2].out, o, c) PROVE o = off
    <3>1. Holds(fields[r].out, o, c)
      BY <1>2, <1>4, <2>1
    <3>2. fields[r].out \in Row
      BY LayoutsIs
    <3>3. /\ DOMAIN fields[r].out \in SUBSET Int
          /\ \A o2 \in DOMAIN fields[r].out : Ends(fields[r].out, o2) \in Int
          /\ \A o1, o2 \in DOMAIN fields[r].out : o2 > o1 => o2 >= Ends(fields[r].out, o1)
      BY <3>2, RowIs
    <3> DEFINE out == fields[r].out
    <3> HIDE DEF out
    <3>4. o \in DOMAIN out /\ off \in DOMAIN out
      BY <1>4, <2>1 DEF out
    <3>5. /\ DOMAIN out \in SUBSET Int
          /\ \A o2 \in DOMAIN out : Ends(out, o2) \in Int
          /\ \A o1, o2 \in DOMAIN out : o2 > o1 => o2 >= Ends(out, o1)
      BY <3>3 DEF out
    <3>6. /\ o \in Int /\ off \in Int /\ Ends(out, o) \in Int /\ Ends(out, off) \in Int
          /\ o > off => o >= Ends(out, off)
          /\ off > o => off >= Ends(out, o)
      BY <3>4, <3>5
    <3>7. o <= c /\ c < Ends(out, o) /\ off <= c /\ c < Ends(out, off)
      BY <1>4, <3>1 DEF Holds, out
    <3>8. QED
      BY <3>6, <3>7
  <2>2. Holds(f2[r2].out, off, c) /\ f2[r2].out[off].val = val
    BY <1>1, <1>2, <1>4
  <2>3. QED
    BY <1>1, <1>4, <2>1, <2>2 DEF Lets
<1>5. QED
  BY <1>3, <1>4

\* The new field and what is left beside it fill the extent.
LEMMA PiecesIs ==
  ASSUME NEW off \in Int, NEW size \in Size, NEW ext, ext.first \in Int, ext.end \in Int,
         ext.first <= off, off + size <= ext.end, NEW pieces, pieces = Pieces(off, size, ext)
  PROVE  /\ DOMAIN pieces \in SUBSET Int /\ IsFiniteSet(DOMAIN pieces)
         /\ off \in DOMAIN pieces /\ pieces[off] = size
         /\ pieces \in [DOMAIN pieces -> Size]
         /\ \A o \in DOMAIN pieces : ext.first <= o /\ o + pieces[o] <= ext.end
         /\ \A o, o2 \in DOMAIN pieces : o2 > o => o2 >= o + pieces[o]
         /\ \A c \in Int : ext.first <= c /\ c < ext.end => \E o \in DOMAIN pieces : o <= c /\ c < o + pieces[o]
         /\ ext.first < off \/ off + size < ext.end => \E o \in DOMAIN pieces : o # off
<1> DEFINE first == ext.first
           end == ext.end
           D == {off} \cup {o \in {first} : o < off} \cup {o \in {off + size} : o < end}
<1>1. size \in Nat \ {0}
  BY DEF Size
<1>2. pieces = [o \in D |-> IF o = off THEN size ELSE IF o < off THEN off - first ELSE end - o]
  BY Zenon DEF Pieces
<1> HIDE DEF first, end
<1>3. first \in Int /\ end \in Int /\ first <= off /\ off + size <= end
  BY DEF first, end
<1>4. \A o : o \in D <=> o = off \/ (o = first /\ first < off) \/ (o = off + size /\ off + size < end)
  OBVIOUS
<1>5. D \in SUBSET Int /\ IsFiniteSet(D)
  <2>1. D \subseteq {off, first, off + size}
    OBVIOUS
  <2>2. IsFiniteSet({off, first, off + size})
    <3>1. IsFiniteSet({off})
      BY FS_Singleton
    <3>2. IsFiniteSet({off} \cup {first})
      BY <3>1, FS_AddElement
    <3>3. IsFiniteSet(({off} \cup {first}) \cup {off + size})
      BY <3>2, FS_AddElement
    <3>4. {off, first, off + size} = ({off} \cup {first}) \cup {off + size}
      OBVIOUS
    <3>5. QED
      BY <3>3, <3>4
  <2>3. IsFiniteSet(D)
    <3> HIDE DEF D
    <3> QED BY <2>1, <2>2, FS_Subset
  <2>4. QED
    BY <1>1, <1>3, <1>4, <2>3
<1> HIDE DEF D
<1>6. DOMAIN pieces = D /\ pieces[off] = size /\ off \in D
  BY <1>2, <1>4
<1>7. /\ first < off => first \in D /\ pieces[first] = off - first
      /\ off + size < end => off + size \in D /\ pieces[off + size] = end - (off + size)
  BY <1>1, <1>2, <1>3, <1>4
<1>8. \A o \in D : pieces[o] \in Size /\ first <= o /\ o + pieces[o] <= end
  BY <1>1, <1>3, <1>4, <1>6, <1>7 DEF Size
<1>9. \A o, o2 \in D : o2 > o => o2 >= o + pieces[o]
  BY <1>1, <1>3, <1>4, <1>6, <1>7
<1>10. ASSUME NEW c \in Int, first <= c, c < end PROVE \E o \in D : o <= c /\ c < o + pieces[o]
  <2>1. CASE c < off
    BY <1>3, <1>7, <1>10, <2>1
  <2>2. CASE off <= c /\ c < off + size
    BY <1>6, <2>2
  <2>3. CASE off + size <= c
    <3>1. off + size < end
      BY <1>1, <1>3, <1>10, <2>3
    <3>2. QED
      BY <1>1, <1>3, <1>7, <1>10, <2>3, <3>1
  <2>4. QED
    BY <1>1, <2>1, <2>2, <2>3
<1>11. ASSUME first < off \/ off + size < end PROVE \E o \in D : o # off
  BY <1>1, <1>3, <1>7, <1>11
<1>12. pieces \in [D -> Size]
  <2>1. pieces = [o \in D |-> pieces[o]]
    BY <1>2
  <2>2. QED
    BY <1>8, <2>1
<1>13. QED
  BY <1>5, <1>6, <1>8, <1>9, <1>10, <1>11, <1>12 DEF first, end

LEMMA ForgottenIs == ASSUME NEW val, NEW gone PROVE Forgotten(val, gone) \in {Top, val} /\ (gone = {} => Forgotten(val, gone) = val)
BY DEF Forgotten

\* Forgetting leaves the fields where they are.
LEMMA ForgetIs ==
  ASSUME NEW fields \in Layouts, NEW gone, NEW f2, f2 = ForgetEntry(fields, gone)
  PROVE  /\ f2 \in Layouts
         /\ \A r \in Region :
              /\ f2[r].in = fields[r].in /\ DOMAIN f2[r].out = DOMAIN fields[r].out
              /\ \A o \in DOMAIN fields[r].out :
                   /\ f2[r].out[o].size = fields[r].out[o].size
                   /\ Ends(f2[r].out, o) = Ends(fields[r].out, o)
                   /\ f2[r].out[o].val \in {Top, fields[r].out[o].val}
                   /\ gone = {} => f2[r].out[o].val = fields[r].out[o].val
<1> DEFINE Row2(out) == [o \in DOMAIN out |-> [size |-> out[o].size, val |-> Forgotten(out[o].val, gone)]]
<1>1. DOMAIN fields = Region /\ fields \in [Region -> Layout]
  BY DEF Layouts
<1>2. f2 = [r \in Region |-> [in |-> fields[r].in, out |-> Row2(fields[r].out)]]
  BY <1>1, Zenon DEF ForgetEntry
<1>3. ASSUME NEW r \in Region
      PROVE  /\ DOMAIN Row2(fields[r].out) = DOMAIN fields[r].out
             /\ Row2(fields[r].out) \in [DOMAIN fields[r].out -> Field]
             /\ \A o \in DOMAIN fields[r].out :
                  /\ Row2(fields[r].out)[o].size = fields[r].out[o].size
                  /\ Ends(Row2(fields[r].out), o) = Ends(fields[r].out, o)
                  /\ Row2(fields[r].out)[o].val \in {Top, fields[r].out[o].val}
                  /\ gone = {} => Row2(fields[r].out)[o].val = fields[r].out[o].val
  <2> DEFINE out == fields[r].out
  <2>1. ASSUME NEW o \in DOMAIN out
        PROVE  /\ [size |-> out[o].size, val |-> Forgotten(out[o].val, gone)] \in Field
               /\ Row2(out)[o].size = out[o].size
               /\ Row2(out)[o].val \in {Top, out[o].val}
               /\ gone = {} => Row2(out)[o].val = out[o].val
    <3> DEFINE val == Forgotten(out[o].val, gone)
    <3>1. Row2(out)[o] = [size |-> out[o].size, val |-> val]
      OBVIOUS
    <3>2. val \in {Top, out[o].val} /\ (gone = {} => val = out[o].val)
      BY ForgottenIs
    <3>3. out[o].size \in Size /\ out[o].val \in Seq(Cell) /\ (out[o].val = Top \/ Len(out[o].val) = out[o].size)
      BY FieldOf
    <3> HIDE DEF val, out
    <3>4. Top \in Seq(Cell)
      BY DEF Top
    <3>5. [size |-> out[o].size, val |-> val] \in Field
      BY <3>2, <3>3, <3>4, FieldMade
    <3>6. QED
      BY <3>1, <3>2, <3>5 DEF val
  <2>2. \A o \in DOMAIN out : Ends(Row2(out), o) = Ends(out, o)
    BY <2>1 DEF Ends
  <2>3. QED
    BY <2>1, <2>2
<1> HIDE DEF Row2
<1>4. ASSUME NEW r \in Region
      PROVE  f2[r] \in Layout /\ f2[r].in = fields[r].in /\ f2[r].out = Row2(fields[r].out)
  <2>1. fields[r] \in Layout /\ fields[r].out \in Row
    BY LayoutsIs
  <2>2. /\ DOMAIN fields[r].out \in SUBSET Int /\ IsFiniteSet(DOMAIN fields[r].out)
        /\ \A o, o2 \in DOMAIN fields[r].out : o2 > o => o2 >= Ends(fields[r].out, o)
    BY <2>1, RowIs
  <2>3. Separate(Row2(fields[r].out))
    BY <1>3, <2>2 DEF Separate
  <2>4. Row2(fields[r].out) \in Row
    BY <1>3, <2>2, <2>3, RowMade
  <2>5. fields[r].in \in [DOMAIN fields[r].out -> Int] /\ \A o \in DOMAIN fields[r].out : fields[r].in[o] = fields[r].out[o].size
    BY <2>1, LayoutIs
  <2>6. [in |-> fields[r].in, out |-> Row2(fields[r].out)] \in Layout
    BY <1>3, <2>4, <2>5, LayoutMade
  <2>7. QED
    BY <1>2, <2>6
<1>5. f2 \in Layouts
  <2>1. f2 \in [Region -> Layout]
    BY <1>2, <1>4
  <2>2. \A r \in Region : \A o \in DOMAIN f2[r].out : 0 <= o /\ Ends(f2[r].out, o) <= Cells[r]
    BY <1>3, <1>4 DEF Layouts
  <2>3. QED
    BY <2>1, <2>2 DEF Layouts
<1>6. QED
  BY <1>3, <1>4, <1>5

(* What retrieve_field makes of a region's fields when it changes them *)

OverAt(fields, r, off, size) == Overlapped(fields[r].out, off, size)
ExtentAt(fields, r, off, size) == Extent(fields[r].out, off, size, OverAt(fields, r, off, size))
PiecesAt(fields, r, off, size) == Pieces(off, size, ExtentAt(fields, r, off, size))
GoneAt(fields, r, off, size) ==
  UNION {CellsOf(r, o, fields[r].out[o].size) : o \in OverAt(fields, r, off, size)}
ExactAt(fields, r, off, size) == Exact(fields[r].out, off, size, OverAt(fields, r, off, size))
FollowAt(fields, r, off, size) == Contiguous(fields[r].out, off, OverAt(fields, r, off, size))
FreeAt(fields, r, off, size) == OverAt(fields, r, off, size) = {}
FillsAt(fields, r, off, size) == FreeAt(fields, r, off, size) \/ ExactAt(fields, r, off, size)
AloneAt(fields, r, off, size) == DOMAIN PiecesAt(fields, r, off, size) = {off}
CombinedAt(fields, r, off, size) ==
  Forgotten(Combined(fields[r].out, off, size, OverAt(fields, r, off, size)), GoneAt(fields, r, off, size))
ValAt(fields, r, off, size) ==
  IF FillsAt(fields, r, off, size) /\ ~FreeAt(fields, r, off, size) THEN CombinedAt(fields, r, off, size)
  ELSE IF ~AloneAt(fields, r, off, size) THEN Top
  ELSE AtEntry(r, off, size)
CutAt(fields, r, off, size) ==
  \E o \in OverAt(fields, r, off, size) : Ends(fields[r].out, o) > ExtentAt(fields, r, off, size).end
CaseAt(fields, r, off, size) ==
  IF CutAt(fields, r, off, size) THEN "suffix"
  ELSE IF ~FillsAt(fields, r, off, size) /\ AloneAt(fields, r, off, size) THEN "gap"
  ELSE "plain"
ForgotAt(fields, r, off, size) == ForgetEntry(fields, GoneAt(fields, r, off, size))
FieldsAt(fields, r, off, size) ==
  [ForgotAt(fields, r, off, size) EXCEPT ![r] =
     Placed(ForgotAt(fields, r, off, size)[r], off, ValAt(fields, r, off, size),
            PiecesAt(fields, r, off, size), OverAt(fields, r, off, size))]
SameAt(fields, r, off, size) == FollowAt(fields, r, off, size) = {off} /\ fields[r].out[off].size = size

Look(fields, r, off, size) == Retrieve(fields, r, off, size, FALSE, FALSE)
Make(fields, r, off, size) == Retrieve(fields, r, off, size, FALSE, TRUE)

LEMMA LookIs ==
  ASSUME NEW fields, NEW r, NEW off, NEW size, NEW res, res = Look(fields, r, off, size)
  PROVE  res = IF SameAt(fields, r, off, size) THEN [ok |-> TRUE, fields |-> fields, changed |-> FALSE, case |-> "plain"]
               ELSE IF FollowAt(fields, r, off, size) # {} \/ ~FillsAt(fields, r, off, size)
               THEN [ok |-> FALSE, fields |-> fields, changed |-> FALSE, case |-> "plain"]
               ELSE [ok |-> TRUE, changed |-> TRUE, case |-> CaseAt(fields, r, off, size),
                     fields |-> FieldsAt(fields, r, off, size)]
BY Zenon DEF Look, Make, Retrieve, OverAt, ExtentAt, PiecesAt, GoneAt, ExactAt, FollowAt, FreeAt, FillsAt, AloneAt, CombinedAt,
   ValAt, CutAt, CaseAt, ForgotAt, FieldsAt, SameAt

LEMMA MakeIs ==
  ASSUME NEW fields, NEW r, NEW off, NEW size, NEW res, res = Make(fields, r, off, size)
  PROVE  res = IF SameAt(fields, r, off, size) THEN [ok |-> TRUE, fields |-> fields, changed |-> FALSE, case |-> "plain"]
               ELSE [ok |-> TRUE, changed |-> TRUE, case |-> CaseAt(fields, r, off, size),
                     fields |-> FieldsAt(fields, r, off, size)]
BY Zenon DEF Look, Make, Retrieve, OverAt, ExtentAt, PiecesAt, GoneAt, ExactAt, FollowAt, FreeAt, FillsAt, AloneAt, CombinedAt,
   ValAt, CutAt, CaseAt, ForgotAt, FieldsAt, SameAt

\* What the places of the fields are to the new one.
LEMMA AtIs ==
  ASSUME NEW fields \in Layouts, NEW r, NEW off, NEW size, Place(r, off, size),
         NEW over, over = OverAt(fields, r, off, size), NEW ext, ext = ExtentAt(fields, r, off, size)
  PROVE  /\ r \in Region /\ off \in Nat /\ off \in Int /\ size \in Size /\ size \in Nat \ {0} /\ off + size <= Cells[r]
         /\ fields[r].out \in Row
         /\ over = Overlapped(fields[r].out, off, size) /\ ext = Extent(fields[r].out, off, size, over)
         /\ over \in SUBSET Int /\ over \subseteq DOMAIN fields[r].out
         /\ \A o \in DOMAIN fields[r].out : o \in over <=> (o < off + size /\ Ends(fields[r].out, o) > off)
         /\ ext.first \in Int /\ ext.end \in Int /\ ext.first <= off /\ off + size <= ext.end
         /\ 0 <= ext.first /\ ext.end <= Cells[r]
         /\ \A o \in over : ext.first <= o
         /\ \A o \in DOMAIN fields[r].out \ over : o >= ext.end \/ Ends(fields[r].out, o) <= ext.first
         /\ over = {} => ext.first = off /\ ext.end = off + size
<1>1. r \in Region /\ off \in Nat /\ off \in Int /\ size \in Size /\ size \in Nat \ {0} /\ off + size <= Cells[r] /\ Cells[r] \in Int
  BY CellsAre DEF Place, Size
<1>2. fields[r].out \in Row /\ \A o \in DOMAIN fields[r].out : 0 <= o /\ Ends(fields[r].out, o) <= Cells[r]
  BY <1>1, LayoutsIs
<1>3. over = Overlapped(fields[r].out, off, size) /\ ext = Extent(fields[r].out, off, size, over)
  BY DEF OverAt, ExtentAt
<1>4. /\ over \in SUBSET Int /\ over \subseteq DOMAIN fields[r].out
      /\ \A o \in DOMAIN fields[r].out : o \in over <=> (o < off + size /\ Ends(fields[r].out, o) > off)
  BY <1>1, <1>2, <1>3, OverIs
<1>5. /\ ext.first \in Int /\ ext.end \in Int /\ ext.first <= off /\ off + size <= ext.end
      /\ \A o \in over : ext.first <= o
      /\ \A o \in DOMAIN fields[r].out \ over : o >= ext.end \/ Ends(fields[r].out, o) <= ext.first
      /\ over = {} => ext.first = off /\ ext.end = off + size
      /\ ext.first \in over \cup {off}
      /\ \A hi \in Int : off + size <= hi /\ (\A o \in over : Ends(fields[r].out, o) <= hi) => ext.end <= hi
  BY <1>1, <1>2, <1>3, ExtentIs
<1>6. 0 <= ext.first /\ ext.end <= Cells[r]
  <2>1. 0 <= ext.first
    BY <1>1, <1>2, <1>4, <1>5
  <2>2. \A o \in over : Ends(fields[r].out, o) <= Cells[r]
    BY <1>2, <1>4
  <2>3. QED
    BY <1>1, <1>5, <2>1, <2>2
<1>7. QED
  BY <1>1, <1>2, <1>3, <1>4, <1>5, <1>6

\* The new field has a value for each of its cells or none.
LEMMA ValIs ==
  ASSUME NEW fields \in Layouts, NEW r, NEW off, NEW size, Place(r, off, size)
  PROVE  /\ ValAt(fields, r, off, size) \in Seq(Cell)
         /\ ValAt(fields, r, off, size) = Top \/ Len(ValAt(fields, r, off, size)) = size
<1> DEFINE over == OverAt(fields, r, off, size)
           out == fields[r].out
           val == ValAt(fields, r, off, size)
           IsVal(w) == w \in Seq(Cell) /\ (w = Top \/ Len(w) = size)
<1>1. /\ r \in Region /\ off \in Nat /\ size \in Nat \ {0} /\ out \in Row
      /\ over = Overlapped(out, off, size) /\ over \subseteq DOMAIN out
  <2> HIDE DEF over
  <2>1. over = OverAt(fields, r, off, size)
    BY DEF over
  <2>2. QED
    BY <2>1, AtIs
<1>2. IsVal(Top)
  BY DEF Top
<1>3. IsVal(AtEntry(r, off, size))
  <2>1. \A i \in 1 .. size : <<r, off + i - 1>> \in Cell
    BY <1>1 DEF Cell
  <2>2. [i \in 1 .. size |-> <<r, off + i - 1>>] \in [1 .. size -> Cell]
    BY <2>1
  <2>3. QED
    BY <1>1, <2>2 DEF AtEntry
<1>4. ASSUME ExactAt(fields, r, off, size) PROVE IsVal(CombinedAt(fields, r, off, size))
  <2> DEFINE w == Combined(out, off, size, over)
  <2>1. off \in over
    <3> HIDE DEF over, out
    <3>1. Exact(out, off, size, over)
      BY <1>4 DEF ExactAt, over, out
    <3>2. off \in Int /\ size \in Size
      BY <1>1 DEF Size
    <3>3. QED
      BY <1>1, <3>1, <3>2, ExactIs
  <2>2. out[off].size \in Nat \ {0} /\ out[off].val \in Seq(Cell) /\ (out[off].val = Top \/ Len(out[off].val) = out[off].size)
    BY <1>1, <2>1, FieldOf DEF Size
  <2>3. IsVal(w)
    <3>1. CASE w = Top
      BY <1>2, <3>1
    <3>2. CASE w # Top
      <4>1. /\ w = [i \in 1 .. size |-> IF i <= out[off].size THEN out[off].val[i] ELSE Digit(0)]
            /\ \A o \in over : out[o].val # Top
        BY <3>2, Zenon DEF Combined
      <4>2. Len(out[off].val) = out[off].size
        BY <2>1, <2>2, <4>1
      <4> HIDE DEF over, out, w
      <4>3. Digit(0) \in Cell
        BY DEF Digit, Cell
      <4>4. \A i \in 1 .. size : (IF i <= out[off].size THEN out[off].val[i] ELSE Digit(0)) \in Cell
        BY <1>1, <2>2, <4>2, <4>3
      <4>5. w \in [1 .. size -> Cell]
        BY <4>1, <4>4
      <4>6. QED
        BY <1>1, <4>5
    <3>3. QED
      BY <3>1, <3>2
  <2>4. CombinedAt(fields, r, off, size) = Forgotten(w, GoneAt(fields, r, off, size))
    BY DEF CombinedAt
  <2>5. Forgotten(w, GoneAt(fields, r, off, size)) \in {Top, w}
    BY ForgottenIs
  <2> HIDE DEF w, IsVal
  <2>6. QED
    BY <1>2, <2>3, <2>4, <2>5
<1>5. IsVal(val)
  <2> HIDE DEF IsVal
  <2>1. CASE FillsAt(fields, r, off, size) /\ ~FreeAt(fields, r, off, size)
    BY <1>4, <2>1 DEF ValAt, FillsAt
  <2>2. CASE ~(FillsAt(fields, r, off, size) /\ ~FreeAt(fields, r, off, size)) /\ ~AloneAt(fields, r, off, size)
    BY <1>2, <2>2 DEF ValAt
  <2>3. CASE ~(FillsAt(fields, r, off, size) /\ ~FreeAt(fields, r, off, size)) /\ AloneAt(fields, r, off, size)
    BY <1>3, <2>3 DEF ValAt
  <2>4. QED
    BY <2>1, <2>2, <2>3
<1>6. QED
  BY <1>5

\* What the fields are like with a new one in the place of those it overlaps: all that
\* is known of the others is what was known of them.
FieldsMade(fields, f2, r, off, size, over, pieces) ==
  /\ f2 \in Layouts /\ HasField(f2, r, off, size)
  /\ \A r2 \in Region \ {r} :
       /\ DOMAIN f2[r2].out = DOMAIN fields[r2].out
       /\ \A o \in DOMAIN fields[r2].out :
            /\ f2[r2].out[o].size = fields[r2].out[o].size
            /\ Ends(f2[r2].out, o) = Ends(fields[r2].out, o)
            /\ f2[r2].out[o].val \in {Top, fields[r2].out[o].val}
            /\ over = {} => f2[r2].out[o].val = fields[r2].out[o].val
  /\ DOMAIN f2[r].out = DOMAIN pieces \cup (DOMAIN fields[r].out \ over)
  /\ \A o \in DOMAIN pieces :
       /\ f2[r].out[o].size = pieces[o] /\ Ends(f2[r].out, o) = o + pieces[o]
       /\ f2[r].out[o].val = IF o = off THEN ValAt(fields, r, off, size) ELSE Top
  /\ \A o \in DOMAIN fields[r].out \ over :
       /\ o \notin DOMAIN pieces
       /\ f2[r].out[o].size = fields[r].out[o].size
       /\ Ends(f2[r].out, o) = Ends(fields[r].out, o)
       /\ f2[r].out[o].val \in {Top, fields[r].out[o].val}
       /\ over = {} => f2[r].out[o].val = fields[r].out[o].val

\* The new fields of the region and those that stay, and what is known of them.
LEMMA FieldsIs ==
  ASSUME NEW fields \in Layouts, NEW r, NEW off, NEW size, Place(r, off, size),
         NEW over, over = OverAt(fields, r, off, size), NEW pieces, pieces = PiecesAt(fields, r, off, size),
         NEW f2, f2 = FieldsAt(fields, r, off, size)
  PROVE  FieldsMade(fields, f2, r, off, size, over, pieces)
<1> DEFINE ext == ExtentAt(fields, r, off, size)
           gone == GoneAt(fields, r, off, size)
           forgot == ForgotAt(fields, r, off, size)
           io == forgot[r]
           val == ValAt(fields, r, off, size)
           D == DOMAIN pieces \cup (DOMAIN io.out \ over)
           in == [o \in DOMAIN pieces \cup (DOMAIN io.in \ over) |-> IF o \in DOMAIN pieces THEN pieces[o] ELSE io.in[o]]
           out == [o \in D |-> IF o \in DOMAIN pieces THEN [size |-> pieces[o], val |-> IF o = off THEN val ELSE Top] ELSE io.out[o]]
<1>1. /\ r \in Region /\ off \in Int /\ size \in Size /\ size \in Nat \ {0}
      /\ over \in SUBSET Int /\ over \subseteq DOMAIN fields[r].out
      /\ ext.first \in Int /\ ext.end \in Int /\ ext.first <= off /\ off + size <= ext.end
      /\ 0 <= ext.first /\ ext.end <= Cells[r]
      /\ \A o \in DOMAIN fields[r].out \ over : o >= ext.end \/ Ends(fields[r].out, o) <= ext.first
      /\ Cells[r] \in Int
  <2> HIDE DEF ext
  <2> QED BY AtIs, CellsAre DEF ext
<1>2. /\ DOMAIN pieces \in SUBSET Int /\ IsFiniteSet(DOMAIN pieces)
      /\ off \in DOMAIN pieces /\ pieces[off] = size
      /\ pieces \in [DOMAIN pieces -> Size]
      /\ \A o \in DOMAIN pieces : ext.first <= o /\ o + pieces[o] <= ext.end
      /\ \A o, o2 \in DOMAIN pieces : o2 > o => o2 >= o + pieces[o]
  <2>1. pieces = Pieces(off, size, ext)
    BY DEF PiecesAt
  <2> HIDE DEF ext
  <2>2. QED
    BY <1>1, <2>1, PiecesIs
<1>3. val \in Seq(Cell) /\ (val = Top \/ Len(val) = size)
  BY ValIs
<1>4. /\ forgot \in Layouts
      /\ \A r2 \in Region :
           /\ forgot[r2].in = fields[r2].in /\ DOMAIN forgot[r2].out = DOMAIN fields[r2].out
           /\ \A o \in DOMAIN fields[r2].out :
                /\ forgot[r2].out[o].size = fields[r2].out[o].size
                /\ Ends(forgot[r2].out, o) = Ends(fields[r2].out, o)
                /\ forgot[r2].out[o].val \in {Top, fields[r2].out[o].val}
                /\ gone = {} => forgot[r2].out[o].val = fields[r2].out[o].val
  <2>1. forgot = ForgetEntry(fields, gone)
    BY DEF ForgotAt
  <2> HIDE DEF forgot, gone
  <2>2. QED
    BY <2>1, ForgetIs
<1>5. over = {} => gone = {}
  BY DEF GoneAt
<1>6. f2 = [forgot EXCEPT ![r] = [in |-> in, out |-> out]]
  BY Zenon DEF FieldsAt, Placed
<1> HIDE DEF ext, gone, forgot, val
<1>7. /\ io \in Layout /\ io.out \in Row /\ DOMAIN io.in = DOMAIN io.out
      /\ io.in \in [DOMAIN io.out -> Int] /\ \A o \in DOMAIN io.out : io.in[o] = io.out[o].size
      /\ DOMAIN io.out = DOMAIN fields[r].out
      /\ \A o \in DOMAIN io.out : 0 <= o /\ Ends(io.out, o) <= Cells[r]
  <2>1. io \in Layout /\ io.out \in Row /\ \A o \in DOMAIN io.out : 0 <= o /\ Ends(io.out, o) <= Cells[r]
    BY <1>1, <1>4, LayoutsIs
  <2> HIDE DEF io
  <2>2. QED
    BY <1>1, <1>4, <2>1, LayoutIs DEF io
<1>8. /\ DOMAIN io.out \in SUBSET Int /\ IsFiniteSet(DOMAIN io.out) /\ io.out \in [DOMAIN io.out -> Field]
      /\ \A o \in DOMAIN io.out : io.out[o].size \in Size /\ Ends(io.out, o) \in Int /\ o < Ends(io.out, o)
      /\ \A o, o2 \in DOMAIN io.out : o2 > o => o2 >= Ends(io.out, o)
  <2> HIDE DEF io
  <2> QED BY <1>7, RowIs
<1>9. \A o \in DOMAIN io.out \ over : Ends(io.out, o) = Ends(fields[r].out, o) /\ (o >= ext.end \/ Ends(io.out, o) <= ext.first)
  BY <1>1, <1>4
<1> HIDE DEF io
<1>10. \A o \in DOMAIN io.out \ over : o \notin DOMAIN pieces
  <2>1. SUFFICES ASSUME NEW o \in DOMAIN io.out \ over, o \in DOMAIN pieces PROVE FALSE
    OBVIOUS
  <2>2. ext.first <= o /\ o + pieces[o] <= ext.end /\ pieces[o] \in Nat \ {0}
    BY <1>2, <2>1 DEF Size
  <2>3. QED
    BY <1>1, <1>2, <1>8, <1>9, <2>1, <2>2
<1>11. /\ DOMAIN out = D /\ DOMAIN in = D
       /\ \A o \in DOMAIN pieces : out[o] = [size |-> pieces[o], val |-> IF o = off THEN val ELSE Top] /\ in[o] = pieces[o]
       /\ \A o \in DOMAIN io.out \ over : out[o] = io.out[o] /\ in[o] = io.in[o]
  BY <1>7, <1>10
<1>12. D \in SUBSET Int /\ IsFiniteSet(D)
  <2>1. IsFiniteSet(DOMAIN io.out \ over)
    BY <1>8, FS_Subset
  <2>2. IsFiniteSet(D)
    BY <1>2, <2>1, FS_Union
  <2>3. QED
    BY <1>2, <1>8, <2>2
<1>13. \A o \in D : o \in DOMAIN pieces \/ o \in DOMAIN io.out \ over
  OBVIOUS
<1> HIDE DEF out, in, D
<1>50. \A o \in DOMAIN pieces : out[o].size = pieces[o] /\ out[o].val = IF o = off THEN val ELSE Top
  <2>1. SUFFICES ASSUME NEW o \in DOMAIN pieces
                 PROVE out[o].size = pieces[o] /\ out[o].val = IF o = off THEN val ELSE Top
    OBVIOUS
  <2> DEFINE w == IF o = off THEN val ELSE Top
  <2>2. out[o] = [size |-> pieces[o], val |-> w]
    BY <1>11
  <2> HIDE DEF w
  <2>3. out[o].size = pieces[o] /\ out[o].val = w
    BY <2>2
  <2>4. QED
    BY <2>3 DEF w
<1>14. \A o \in D : out[o] \in Field /\ in[o] = out[o].size /\ in[o] \in Int
  <2>1. ASSUME NEW o \in DOMAIN pieces PROVE out[o] \in Field /\ in[o] = out[o].size /\ in[o] \in Int
    <3> DEFINE w == IF o = off THEN val ELSE Top
    <3>1. out[o] = [size |-> pieces[o], val |-> w]
      BY <1>11
    <3>2. pieces[o] \in Size /\ pieces[o] \in Int
      BY <1>2 DEF Size
    <3>3. w \in Seq(Cell) /\ (w = Top \/ Len(w) = pieces[o])
      <4>1. Top \in Seq(Cell)
        BY DEF Top
      <4>2. CASE o = off
        BY <1>2, <1>3, <4>2
      <4>3. CASE o # off
        BY <4>1, <4>3
      <4>4. QED
        BY <4>2, <4>3
    <3> HIDE DEF w
    <3>4. out[o] \in Field
      BY <3>1, <3>2, <3>3, FieldMade
    <3>5. QED
      BY <1>11, <1>50, <3>2, <3>4
  <2>2. ASSUME NEW o \in DOMAIN io.out \ over PROVE out[o] \in Field /\ in[o] = out[o].size /\ in[o] \in Int
    BY <1>7, <1>8, <1>11
  <2>3. QED
    BY <1>13, <2>1, <2>2
<1>15. /\ \A o \in DOMAIN pieces : Ends(out, o) = o + pieces[o]
       /\ \A o \in DOMAIN io.out \ over : Ends(out, o) = Ends(io.out, o)
  BY <1>11, <1>50 DEF Ends
<1>16. out \in [D -> Field] /\ in \in [D -> Int]
  <2>1. out = [o \in D |-> out[o]] /\ in = [o \in D |-> in[o]]
    BY <1>11 DEF out, in
  <2>2. QED
    BY <1>14, <2>1
<1>17. Separate(out)
  <2>1. SUFFICES ASSUME NEW o \in D, NEW o2 \in D, o2 > o PROVE o2 >= Ends(out, o)
    BY <1>11 DEF Separate
  <2>2. CASE o \in DOMAIN pieces /\ o2 \in DOMAIN pieces
    BY <1>2, <1>15, <2>1, <2>2
  <2>3. CASE o \in DOMAIN io.out \ over /\ o2 \in DOMAIN io.out \ over
    BY <1>8, <1>15, <2>1, <2>3
  <2>4. CASE o \in DOMAIN pieces /\ o2 \in DOMAIN io.out \ over
    <3>1. ext.first <= o /\ o + pieces[o] <= ext.end /\ pieces[o] \in Nat \ {0} /\ o \in Int
      BY <1>2, <2>4 DEF Size
    <3>2. o2 \in Int /\ Ends(io.out, o2) \in Int /\ o2 < Ends(io.out, o2)
      BY <1>8, <2>4
    <3>3. o2 >= ext.end
      BY <1>1, <1>9, <2>1, <2>4, <3>1, <3>2
    <3>4. QED
      BY <1>1, <1>15, <2>4, <3>1, <3>2, <3>3
  <2>5. CASE o \in DOMAIN io.out \ over /\ o2 \in DOMAIN pieces
    <3>1. ext.first <= o2 /\ o2 + pieces[o2] <= ext.end /\ pieces[o2] \in Nat \ {0} /\ o2 \in Int
      BY <1>2, <2>5 DEF Size
    <3>2. o \in Int /\ Ends(io.out, o) \in Int
      BY <1>8, <2>5
    <3>3. Ends(io.out, o) <= ext.first
      BY <1>1, <1>9, <2>1, <2>5, <3>1, <3>2
    <3>4. QED
      BY <1>1, <1>15, <2>5, <3>1, <3>2, <3>3
  <2>6. QED
    BY <1>13, <2>1, <2>2, <2>3, <2>4, <2>5
<1>18. [in |-> in, out |-> out] \in Layout
  <2>1. out \in Row
    BY <1>12, <1>16, <1>17, RowMade
  <2>2. QED
    BY <1>11, <1>14, <1>16, <2>1, LayoutMade
<1>19. f2 \in [Region -> Layout] /\ f2[r].out = out /\ \A r2 \in Region \ {r} : f2[r2] = forgot[r2]
  <2>1. forgot \in [Region -> Layout]
    BY <1>4 DEF Layouts
  <2> DEFINE new == [in |-> in, out |-> out]
  <2>2. new.out = out
    OBVIOUS
  <2> HIDE DEF new
  <2>3. QED
    BY <1>1, <1>6, <1>18, <2>1, <2>2 DEF new
<1>20. f2 \in Layouts
  <2>1. \A o \in D : 0 <= o /\ Ends(out, o) <= Cells[r]
    <3>1. ASSUME NEW o \in DOMAIN pieces PROVE 0 <= o /\ Ends(out, o) <= Cells[r]
      <4>1. ext.first <= o /\ o + pieces[o] <= ext.end /\ pieces[o] \in Nat \ {0} /\ o \in Int
        BY <1>2 DEF Size
      <4>2. QED
        BY <1>1, <1>15, <4>1
    <3>2. ASSUME NEW o \in DOMAIN io.out \ over PROVE 0 <= o /\ Ends(out, o) <= Cells[r]
      BY <1>7, <1>15
    <3>3. QED
      BY <1>13, <3>1, <3>2
  <2>2. \A r2 \in Region \ {r} : \A o \in DOMAIN f2[r2].out : 0 <= o /\ Ends(f2[r2].out, o) <= Cells[r2]
    BY <1>4, <1>19 DEF Layouts
  <2>3. QED
    BY <1>11, <1>19, <2>1, <2>2 DEF Layouts
<1>21. DOMAIN f2[r].out = DOMAIN pieces \cup (DOMAIN fields[r].out \ over)
  BY <1>7, <1>11, <1>19 DEF D
<1>22. \A r2 \in Region \ {r} :
              /\ DOMAIN f2[r2].out = DOMAIN fields[r2].out
              /\ \A o \in DOMAIN fields[r2].out :
                   /\ f2[r2].out[o].size = fields[r2].out[o].size
                   /\ Ends(f2[r2].out, o) = Ends(fields[r2].out, o)
                   /\ f2[r2].out[o].val \in {Top, fields[r2].out[o].val}
                   /\ over = {} => f2[r2].out[o].val = fields[r2].out[o].val
  BY <1>4, <1>5, <1>19
<1>23. \A o \in DOMAIN pieces :
              /\ f2[r].out[o].size = pieces[o] /\ Ends(f2[r].out, o) = o + pieces[o]
              /\ f2[r].out[o].val = IF o = off THEN ValAt(fields, r, off, size) ELSE Top
  BY <1>15, <1>19, <1>50 DEF val
<1>24. \A o \in DOMAIN fields[r].out \ over :
              /\ o \notin DOMAIN pieces
              /\ f2[r].out[o].size = fields[r].out[o].size
              /\ Ends(f2[r].out, o) = Ends(fields[r].out, o)
              /\ f2[r].out[o].val \in {Top, fields[r].out[o].val}
              /\ over = {} => f2[r].out[o].val = fields[r].out[o].val
  <2> TAKE o \in DOMAIN fields[r].out \ over
  <2>1. o \in DOMAIN io.out \ over /\ o \notin DOMAIN pieces
    BY <1>7, <1>10
  <2>2. f2[r].out[o].size = io.out[o].size /\ f2[r].out[o].val = io.out[o].val /\ Ends(f2[r].out, o) = Ends(io.out, o)
    BY <1>11, <1>15, <1>19, <2>1
  <2>3. /\ io.out[o].size = fields[r].out[o].size /\ Ends(io.out, o) = Ends(fields[r].out, o)
        /\ io.out[o].val \in {Top, fields[r].out[o].val}
        /\ gone = {} => io.out[o].val = fields[r].out[o].val
    <3>1. r \in Region /\ o \in DOMAIN fields[r].out
      BY <1>1
    <3>2. /\ forgot[r].out[o].size = fields[r].out[o].size
          /\ Ends(forgot[r].out, o) = Ends(fields[r].out, o)
          /\ forgot[r].out[o].val \in {Top, fields[r].out[o].val}
          /\ gone = {} => forgot[r].out[o].val = fields[r].out[o].val
      <4>1. \A o2 \in DOMAIN fields[r].out :
                 /\ forgot[r].out[o2].size = fields[r].out[o2].size
                 /\ Ends(forgot[r].out, o2) = Ends(fields[r].out, o2)
                 /\ forgot[r].out[o2].val \in {Top, fields[r].out[o2].val}
                 /\ gone = {} => forgot[r].out[o2].val = fields[r].out[o2].val
        BY <1>4, <3>1
      <4>2. QED
        BY <3>1, <4>1
    <3>3. QED
      BY <3>2 DEF io
  <2> HIDE DEF io
  <2>4. QED
    BY <1>5, <2>1, <2>2, <2>3
<1>25. HasField(f2, r, off, size)
  BY <1>2, <1>11, <1>13, <1>19, <1>21, <1>23 DEF HasField
<1>26. QED
  BY <1>20, <1>21, <1>22, <1>23, <1>24, <1>25, Zenon DEF FieldsMade

\* Outside of the new field nothing is said that was not known before, unless what is
\* left behind it is cut short.
LEMMA FieldsFitOut ==
  ASSUME NEW fields \in Layouts, NEW r, NEW off, NEW size, Place(r, off, size), ~CutAt(fields, r, off, size),
         NEW f2, f2 = FieldsAt(fields, r, off, size), NEW r2 \in Region, NEW c \in Int, NEW v \in Cell,
         Lets(fields, r2, c, v), r2 # r \/ c < off \/ off + size <= c
  PROVE  Lets(f2, r2, c, v)
<1> DEFINE over == OverAt(fields, r, off, size)
           ext == ExtentAt(fields, r, off, size)
           pieces == PiecesAt(fields, r, off, size)
<1>1. /\ f2 \in Layouts
      /\ \A r3 \in Region \ {r} :
           /\ DOMAIN f2[r3].out = DOMAIN fields[r3].out
           /\ \A o \in DOMAIN fields[r3].out :
                /\ Ends(f2[r3].out, o) = Ends(fields[r3].out, o)
                /\ f2[r3].out[o].val \in {Top, fields[r3].out[o].val}
      /\ DOMAIN f2[r].out = DOMAIN pieces \cup (DOMAIN fields[r].out \ over)
      /\ \A o \in DOMAIN pieces :
           /\ f2[r].out[o].size = pieces[o] /\ Ends(f2[r].out, o) = o + pieces[o]
           /\ f2[r].out[o].val = IF o = off THEN ValAt(fields, r, off, size) ELSE Top
      /\ \A o \in DOMAIN fields[r].out \ over :
           /\ Ends(f2[r].out, o) = Ends(fields[r].out, o)
           /\ f2[r].out[o].val \in {Top, fields[r].out[o].val}
  <2>1. over = OverAt(fields, r, off, size) /\ pieces = PiecesAt(fields, r, off, size)
    OBVIOUS
  <2> HIDE DEF over, pieces
  <2>2. FieldsMade(fields, f2, r, off, size, over, pieces)
    BY <2>1, FieldsIs
  <2>3. QED
    BY <2>2 DEF FieldsMade
<1>2. CASE r2 # r
  <2>1. \A o \in DOMAIN fields[r2].out : Holds(f2[r2].out, o, c) <=> Holds(fields[r2].out, o, c)
    BY <1>1, <1>2 DEF Holds
  <2>2. ASSUME NEW o \in DOMAIN f2[r2].out, Holds(f2[r2].out, o, c) PROVE Tells(f2[r2].out[o].val, c - o + 1, v)
    <3>1. o \in DOMAIN fields[r2].out /\ Holds(fields[r2].out, o, c)
      BY <1>1, <1>2, <2>1, <2>2
    <3>2. Tells(fields[r2].out[o].val, c - o + 1, v)
      BY <3>1 DEF Lets
    <3>3. f2[r2].out[o].val = Top \/ f2[r2].out[o].val = fields[r2].out[o].val
      BY <1>1, <1>2, <3>1
    <3>4. QED
      BY <3>2, <3>3 DEF Tells
  <2>3. DOMAIN f2[r2].out = DOMAIN fields[r2].out
    BY <1>1, <1>2
  <2>4. QED
    BY <2>1, <2>2, <2>3 DEF Lets
<1>3. CASE r2 = r
  <2>1. /\ r \in Region /\ off \in Int /\ size \in Nat \ {0}
        /\ over \subseteq DOMAIN fields[r].out
        /\ ext.first \in Int /\ ext.end \in Int
        /\ \A o \in over : ext.first <= o
        /\ ext.first <= off /\ off + size <= ext.end
    <3> HIDE DEF over, ext
    <3> QED BY AtIs DEF over, ext
  <2>2. /\ DOMAIN pieces \in SUBSET Int /\ off \in DOMAIN pieces /\ pieces[off] = size
        /\ \A d \in Int : ext.first <= d /\ d < ext.end => \E o \in DOMAIN pieces : o <= d /\ d < o + pieces[o]
    <3>1. pieces = Pieces(off, size, ext)
      BY DEF PiecesAt
    <3>2. size \in Size
      BY <2>1 DEF Size
    <3> HIDE DEF ext, pieces
    <3> QED BY <2>1, <3>1, <3>2, PiecesIs
  <2>3. c < off \/ off + size <= c
    BY <1>3
  <2>4. \A o \in DOMAIN fields[r].out : Ends(fields[r].out, o) \in Int /\ o \in Int
    <3>1. fields[r].out \in Row
      BY <2>1, LayoutsIs
    <3>2. QED
      BY <3>1, RowIs
  <2>5. \A o \in over : Ends(fields[r].out, o) <= ext.end
    BY <2>1, <2>4 DEF CutAt
  <2> HIDE DEF over, ext, pieces
  <2>6. ASSUME NEW o \in DOMAIN f2[r].out, Holds(f2[r].out, o, c) PROVE Tells(f2[r].out[o].val, c - o + 1, v)
    <3>1. CASE o \in DOMAIN pieces
      <4>1. o # off
        BY <1>1, <2>1, <2>2, <2>3, <2>6, <3>1 DEF Holds
      <4>2. f2[r].out[o].val = Top
        BY <1>1, <3>1, <4>1
      <4>3. QED
        BY <4>2 DEF Tells
    <3>2. CASE o \in DOMAIN fields[r].out \ over
      <4>1. Holds(fields[r].out, o, c)
        BY <1>1, <2>6, <3>2 DEF Holds
      <4>2. Tells(fields[r].out[o].val, c - o + 1, v)
        BY <1>3, <3>2, <4>1 DEF Lets
      <4>3. f2[r].out[o].val = Top \/ f2[r].out[o].val = fields[r].out[o].val
        BY <1>1, <3>2
      <4>4. QED
        BY <4>2, <4>3 DEF Tells
    <3>3. QED
      BY <1>1, <2>6, <3>1, <3>2
  <2>7. ASSUME \A o \in DOMAIN f2[r].out : ~Holds(f2[r].out, o, c) PROVE v = Meaning(<<r, c>>)
    <3>1. ASSUME NEW o \in DOMAIN fields[r].out, Holds(fields[r].out, o, c) PROVE FALSE
      <4>1. CASE o \in over
        <5>1. ext.first <= c /\ c < ext.end
          BY <2>1, <2>4, <2>5, <3>1, <4>1 DEF Holds
        <5>2. PICK p \in DOMAIN pieces : p <= c /\ c < p + pieces[p]
          BY <2>2, <5>1
        <5>3. Holds(f2[r].out, p, c) /\ p \in DOMAIN f2[r].out
          BY <1>1, <5>2 DEF Holds
        <5>4. QED
          BY <2>7, <5>3
      <4>2. CASE o \notin over
        <5>1. o \in DOMAIN f2[r].out /\ Holds(f2[r].out, o, c)
          BY <1>1, <3>1, <4>2 DEF Holds
        <5>2. QED
          BY <2>7, <5>1
      <4>3. QED
        BY <4>1, <4>2
    <3>2. QED
      BY <1>3, <3>1 DEF Lets
  <2>8. QED
    BY <1>3, <2>6, <2>7 DEF Lets
<1>4. QED
  BY <1>2, <1>3

\* Inside of it, too, when it fills a free place or the place of the fields that make it up,
\* or cuts into others.
LEMMA FieldsFitIn ==
  ASSUME NEW fields \in Layouts, NEW r, NEW off, NEW size, Place(r, off, size),
         FillsAt(fields, r, off, size) \/ ~AloneAt(fields, r, off, size),
         NEW f2, f2 = FieldsAt(fields, r, off, size), NEW c \in Int, NEW v \in Cell,
         Lets(fields, r, c, v), off <= c, c < off + size
  PROVE  Lets(f2, r, c, v)
<1> DEFINE over == OverAt(fields, r, off, size)
           out == fields[r].out
           pieces == PiecesAt(fields, r, off, size)
           val == ValAt(fields, r, off, size)
<1>1. /\ HasField(f2, r, off, size)
      /\ DOMAIN f2[r].out = DOMAIN pieces \cup (DOMAIN out \ over)
      /\ \A o \in DOMAIN pieces : f2[r].out[o].val = IF o = off THEN val ELSE Top
      /\ \A o \in DOMAIN out \ over :
           /\ Ends(f2[r].out, o) = Ends(out, o)
           /\ f2[r].out[o].val \in {Top, out[o].val}
  <2>1. over = OverAt(fields, r, off, size) /\ pieces = PiecesAt(fields, r, off, size)
    OBVIOUS
  <2> HIDE DEF over, pieces
  <2>2. FieldsMade(fields, f2, r, off, size, over, pieces)
    BY <2>1, FieldsIs
  <2>3. QED
    BY <2>2 DEF FieldsMade
<1>2. /\ r \in Region /\ off \in Int /\ size \in Nat \ {0} /\ size \in Size /\ out \in Row
      /\ over = Overlapped(out, off, size) /\ over \subseteq DOMAIN out
      /\ \A o \in DOMAIN out : o \in over <=> (o < off + size /\ Ends(out, o) > off)
  <2> HIDE DEF over
  <2> QED BY AtIs DEF over
<1>3. /\ DOMAIN out \in SUBSET Int
      /\ \A o \in DOMAIN out : out[o].size \in Size /\ Ends(out, o) \in Int /\ Ends(out, o) = o + out[o].size
      /\ \A o, o2 \in DOMAIN out : o2 > o => o2 >= Ends(out, o)
  <2> HIDE DEF out
  <2> QED BY <1>2, RowIs
<1>4. Tells(val, c - off + 1, v)
  <2>1. CASE FreeAt(fields, r, off, size)
    <3>1. \A o \in DOMAIN out : ~Holds(out, o, c)
      BY <1>2, <1>3, <2>1 DEF FreeAt, Holds
    <3>2. v = Meaning(<<r, c>>)
      BY <3>1 DEF Lets
    <3>3. val = Top \/ val = AtEntry(r, off, size)
      BY <2>1 DEF ValAt
    <3>4. AtEntry(r, off, size)[c - off + 1] = <<r, c>>
      <4>1. c - off + 1 \in 1 .. size /\ off + (c - off + 1) - 1 = c
        BY <1>2
      <4>2. QED
        BY <4>1 DEF AtEntry
    <3> HIDE DEF val
    <3>5. QED
      BY <3>2, <3>3, <3>4 DEF Tells
  <2>2. CASE ~FreeAt(fields, r, off, size) /\ ExactAt(fields, r, off, size)
    <3> DEFINE w == Combined(out, off, size, over)
    <3>1. val = CombinedAt(fields, r, off, size)
      BY <2>2 DEF ValAt, FillsAt
    <3>2. val = Top \/ val = w
      <4>1. CombinedAt(fields, r, off, size) = Forgotten(w, GoneAt(fields, r, off, size))
        BY DEF CombinedAt
      <4>2. Forgotten(w, GoneAt(fields, r, off, size)) \in {Top, w}
        BY ForgottenIs
      <4> HIDE DEF val, w
      <4>3. QED
        BY <3>1, <4>1, <4>2
    <3>3. CASE w = Top
      <4> HIDE DEF w, val
      <4> QED BY <3>2, <3>3 DEF Tells
    <3>4. CASE w # Top
      <4>1. /\ \A o \in over : /\ out[o].val # Top
                               /\ o # off => \A i \in DOMAIN out[o].val : out[o].val[i] = Digit(0)
            /\ w = [i \in 1 .. size |-> IF i <= out[off].size THEN out[off].val[i] ELSE Digit(0)]
        BY <3>4, Zenon DEF Combined
      <4>2. /\ off \in over /\ \A o \in over : off <= o
            /\ \A d \in off .. off + size - 1 : \E o \in over : o <= d /\ d < Ends(out, o)
        <5>1. Exact(out, off, size, over)
          BY <2>2 DEF ExactAt
        <5> HIDE DEF out, over
        <5>2. QED
          BY <1>2, <5>1, ExactIs
      <4>3. c \in off .. off + size - 1
        BY <1>2
      <4>4. PICK o \in over : o <= c /\ c < Ends(out, o)
        BY <4>2, <4>3
      <4>5. o \in DOMAIN out /\ Holds(out, o, c)
        BY <1>2, <4>4 DEF Holds
      <4>6. Tells(out[o].val, c - o + 1, v)
        BY <4>5 DEF Lets
      <4>7. v = Meaning(out[o].val[c - o + 1])
        BY <4>1, <4>6 DEF Tells
      <4>8. Len(out[o].val) = out[o].size /\ out[o].val \in Seq(Cell) /\ out[o].size \in Nat \ {0} /\ out[off].size \in Nat \ {0}
        <5>1. out[o].val # Top
          BY <4>1
        <5>2. /\ out[o].size \in Size /\ out[o].val \in Seq(Cell) /\ (out[o].val = Top \/ Len(out[o].val) = out[o].size)
          BY <1>2, <4>5, FieldOf
        <5>3. out[off].size \in Size
          BY <1>2, <1>3, <4>2
        <5>4. QED
          BY <5>1, <5>2, <5>3 DEF Size
      <4>9. c - off + 1 \in 1 .. size
        BY <1>2
      <4>10. w[c - off + 1] = out[o].val[c - o + 1]
        <5>1. CASE o = off
          <6>1. c - off + 1 <= out[off].size
            <7> DEFINE size2 == out[off].size
            <7>1. size2 \in Nat /\ c < off + size2 /\ c \in Int /\ off \in Int
              BY <1>2, <1>3, <4>4, <4>5, <4>8, <5>1
            <7> HIDE DEF size2, out, over, val, w
            <7>2. c - off + 1 <= size2
              BY <7>1
            <7>3. QED
              BY <7>2 DEF size2
          <6>2. QED
            BY <4>1, <4>9, <5>1, <6>1
        <5>2. CASE o # off
          <6>1. off \in DOMAIN out /\ o > off
            BY <1>2, <1>3, <4>2, <4>5, <5>2
          <6>2. o >= off + out[off].size
            BY <1>3, <4>5, <6>1
          <6>3. ~(c - off + 1 <= out[off].size)
            <7>1. o \in Int /\ out[off].size \in Nat /\ o <= c
              BY <1>3, <4>4, <4>5, <4>8
            <7> HIDE DEF out
            <7>2. QED
              BY <1>2, <6>2, <7>1
          <6>4. c - o + 1 \in DOMAIN out[o].val
            <7> DEFINE size2 == out[o].size
            <7>1. o \in Int /\ size2 \in Nat /\ o <= c /\ c < o + size2 /\ c \in Int
              BY <1>2, <1>3, <4>4, <4>5, <4>8
            <7> HIDE DEF size2, out, over, val, w
            <7>2. c - o + 1 \in 1 .. size2
              BY <7>1
            <7>3. QED
              BY <4>8, <7>2 DEF size2
          <6>5. out[o].val[c - o + 1] = Digit(0)
            BY <4>1, <5>2, <6>4
          <6>6. QED
            BY <4>1, <4>9, <6>3, <6>5
        <5>3. QED
          BY <5>1, <5>2
      <4> HIDE DEF w, val, out, over
      <4>11. QED
        BY <3>2, <4>7, <4>10 DEF Tells
    <3>5. QED
      BY <3>3, <3>4
  <2>3. CASE ~FreeAt(fields, r, off, size) /\ ~ExactAt(fields, r, off, size)
    <3>1. ~FillsAt(fields, r, off, size) /\ ~AloneAt(fields, r, off, size)
      BY <2>3 DEF FillsAt
    <3>2. val = Top
      BY <3>1 DEF ValAt
    <3>3. QED
      BY <3>2 DEF Tells
  <2>4. QED
    BY <2>1, <2>2, <2>3
<1> HIDE DEF over, pieces, val
<1>5. ASSUME NEW o \in DOMAIN f2[r].out, Holds(f2[r].out, o, c) PROVE Tells(f2[r].out[o].val, c - o + 1, v)
  <2>1. CASE o \in DOMAIN pieces
    <3>1. f2[r].out[o].val = IF o = off THEN val ELSE Top
      BY <1>1, <2>1
    <3>2. QED
      BY <1>4, <3>1 DEF Tells
  <2>2. CASE o \in DOMAIN out \ over
    <3>1. Holds(out, o, c)
      BY <1>1, <1>5, <2>2 DEF Holds
    <3>2. Tells(out[o].val, c - o + 1, v)
      BY <2>2, <3>1 DEF Lets
    <3>3. f2[r].out[o].val = Top \/ f2[r].out[o].val = out[o].val
      BY <1>1, <2>2
    <3>4. QED
      BY <3>2, <3>3 DEF Tells
  <2>3. QED
    BY <1>1, <1>5, <2>1, <2>2
<1>6. Holds(f2[r].out, off, c) /\ off \in DOMAIN f2[r].out
  <2>1. f2[r].out[off].size = size /\ off \in DOMAIN f2[r].out
    BY <1>1 DEF HasField
  <2>2. Ends(f2[r].out, off) = off + size
    BY <2>1 DEF Ends
  <2>3. QED
    BY <2>1, <2>2 DEF Holds
<1>7. QED
  BY <1>5, <1>6 DEF Lets

Weakly(f1, f2) == \A r \in Region, c \in Int : Weaker(f1, f2, r, c)

\* The fields are still there, with what is known of them.
Richer(f1, f2) ==
  /\ f2 \in Layouts /\ Weakly(f1, f2)
  /\ \A r \in Region : \A o \in DOMAIN f1[r].out :
       /\ o \in DOMAIN f2[r].out /\ f2[r].out[o].size = f1[r].out[o].size
       /\ f2[r].out[o].val = f1[r].out[o].val

\* What is left of the fields by a new one: those apart from it.
Kept(f1, f2, r, off, size) ==
  \A r2 \in Region : \A o \in DOMAIN f1[r2].out :
    r2 # r \/ Ends(f1[r2].out, o) <= off \/ off + size <= o
      => HasField(f2, r2, o, f1[r2].out[o].size)

\* Nothing but the range is said anew.
OutsideWeaker(f1, f2, r, off, size) ==
  \A r2 \in Region, c \in Int : r2 # r \/ c < off \/ off + size <= c => Weaker(f1, f2, r2, c)

CaseNames == {"suffix", "gap", "plain"}

LEMMA PlaceIs ==
  ASSUME NEW r, NEW off, NEW size, Place(r, off, size)
  PROVE  r \in Region /\ off \in Nat /\ off \in Int /\ size \in Size /\ size \in Nat \ {0} /\ off + size <= Cells[r]
BY DEF Place, Size

LEMMA RicherSelf == ASSUME NEW fields \in Layouts PROVE Richer(fields, fields)
BY DEF Richer, Weakly, Weaker

LEMMA WeaklyThen ==
  ASSUME NEW f1, NEW f2, NEW f3, Weakly(f1, f2), Weakly(f2, f3)
  PROVE  Weakly(f1, f3)
BY DEF Weakly, Weaker

LEMMA RicherThen ==
  ASSUME NEW f1, NEW f2, NEW f3, Richer(f1, f2), Richer(f2, f3)
  PROVE  Richer(f1, f3)
<1>1. Weakly(f1, f3)
  BY WeaklyThen DEF Richer
<1>2. QED
  BY <1>1 DEF Richer

LEMMA RicherHas ==
  ASSUME NEW f1, NEW f2, Richer(f1, f2), NEW r \in Region, NEW off, NEW size, HasField(f1, r, off, size)
  PROVE  HasField(f2, r, off, size)
BY DEF Richer, HasField

\* Fields that are new or have changed place, and what they do to the cells.
LEMMA FieldsWeaker ==
  ASSUME NEW fields \in Layouts, NEW r, NEW off, NEW size, Place(r, off, size), ~CutAt(fields, r, off, size),
         NEW f2, f2 = FieldsAt(fields, r, off, size)
  PROVE  /\ OutsideWeaker(fields, f2, r, off, size)
         /\ FillsAt(fields, r, off, size) \/ ~AloneAt(fields, r, off, size) => Weakly(fields, f2)
<1>1. off \in Int /\ size \in Nat /\ r \in Region
  BY PlaceIs
<1>2. ASSUME NEW r2 \in Region, NEW c \in Int, r2 # r \/ c < off \/ off + size <= c PROVE Weaker(fields, f2, r2, c)
  <2>1. SUFFICES ASSUME NEW v \in Cell, Lets(fields, r2, c, v) PROVE Lets(f2, r2, c, v)
    BY DEF Weaker
  <2>2. QED
    BY <1>2, <2>1, FieldsFitOut
<1>3. ASSUME FillsAt(fields, r, off, size) \/ ~AloneAt(fields, r, off, size), NEW r2 \in Region, NEW c \in Int
      PROVE  Weaker(fields, f2, r2, c)
  <2>1. CASE r2 # r \/ c < off \/ off + size <= c
    BY <1>2, <2>1
  <2>2. CASE r2 = r /\ off <= c /\ c < off + size
    <3>1. SUFFICES ASSUME NEW v \in Cell, Lets(fields, r, c, v) PROVE Lets(f2, r, c, v)
      BY <2>2 DEF Weaker
    <3>2. QED
      BY <1>3, <2>2, <3>1, FieldsFitIn
  <2>3. QED
    BY <1>1, <2>1, <2>2
<1>4. QED
  BY <1>2, <1>3 DEF OutsideWeaker, Weakly

\* A range never written or read becomes a field.
LEMMA FreeIs ==
  ASSUME NEW fields \in Layouts, NEW r, NEW off, NEW size, Place(r, off, size), FreeAt(fields, r, off, size),
         NEW f2, f2 = FieldsAt(fields, r, off, size)
  PROVE  /\ Richer(fields, f2) /\ HasField(f2, r, off, size)
         /\ \A c \in Int, v \in Cell : off <= c /\ c < off + size /\ Lets(fields, r, c, v) => v = Meaning(<<r, c>>)
<1> DEFINE over == OverAt(fields, r, off, size)
           pieces == PiecesAt(fields, r, off, size)
<1>1. over = {}
  BY DEF FreeAt
<1>2. /\ f2 \in Layouts /\ HasField(f2, r, off, size)
      /\ \A r2 \in Region \ {r} :
           /\ DOMAIN f2[r2].out = DOMAIN fields[r2].out
           /\ \A o \in DOMAIN fields[r2].out :
                /\ f2[r2].out[o].size = fields[r2].out[o].size
                /\ over = {} => f2[r2].out[o].val = fields[r2].out[o].val
      /\ DOMAIN f2[r].out = DOMAIN pieces \cup (DOMAIN fields[r].out \ over)
      /\ \A o \in DOMAIN fields[r].out \ over :
           /\ f2[r].out[o].size = fields[r].out[o].size
           /\ over = {} => f2[r].out[o].val = fields[r].out[o].val
  <2>1. over = OverAt(fields, r, off, size) /\ pieces = PiecesAt(fields, r, off, size)
    OBVIOUS
  <2> HIDE DEF over, pieces
  <2>2. FieldsMade(fields, f2, r, off, size, over, pieces)
    BY <2>1, FieldsIs
  <2>3. QED
    BY <2>2 DEF FieldsMade
<1>3. ~CutAt(fields, r, off, size) /\ FillsAt(fields, r, off, size)
  BY <1>1 DEF CutAt, FillsAt, FreeAt
<1>4. Weakly(fields, f2)
  BY <1>3, FieldsWeaker
<1>5. r \in Region /\ off \in Int /\ size \in Nat \ {0} /\ fields[r].out \in Row
      /\ \A o \in DOMAIN fields[r].out : o \in over <=> (o < off + size /\ Ends(fields[r].out, o) > off)
  <2> HIDE DEF over
  <2> QED BY AtIs DEF over
<1>6. \A o \in DOMAIN fields[r].out : Ends(fields[r].out, o) \in Int /\ o \in Int
  BY <1>5, RowIs
<1>7. ASSUME NEW c \in Int, NEW v \in Cell, off <= c, c < off + size, Lets(fields, r, c, v) PROVE v = Meaning(<<r, c>>)
  <2>1. \A o \in DOMAIN fields[r].out : ~Holds(fields[r].out, o, c)
    BY <1>1, <1>5, <1>6, <1>7 DEF Holds
  <2>2. QED
    BY <1>7, <2>1 DEF Lets
<1> HIDE DEF over, pieces
<1>8. Richer(fields, f2)
  <2>1. ASSUME NEW r2 \in Region, NEW o \in DOMAIN fields[r2].out
        PROVE  /\ o \in DOMAIN f2[r2].out /\ f2[r2].out[o].size = fields[r2].out[o].size
               /\ f2[r2].out[o].val = fields[r2].out[o].val
    BY <1>1, <1>2
  <2>2. QED
    BY <1>2, <1>4, <2>1 DEF Richer
<1>9. QED
  BY <1>2, <1>7, <1>8

\* Looking for a field, which keeps what is there.
LEMMA LookOk ==
  ASSUME NEW fields \in Layouts, NEW r, NEW off, NEW size, Place(r, off, size),
         NEW res, res = Look(fields, r, off, size)
  PROVE  /\ Richer(fields, res.fields)
         /\ res.ok => HasField(res.fields, r, off, size)
         /\ res.changed => /\ HasField(res.fields, r, off, size)
                           /\ \A c \in Int, v \in Cell : off <= c /\ c < off + size /\ Lets(fields, r, c, v) => v = Meaning(<<r, c>>)
<1>1. CASE SameAt(fields, r, off, size)
  <2>1. res = [ok |-> TRUE, fields |-> fields, changed |-> FALSE, case |-> "plain"]
    BY <1>1, LookIs
  <2>2. HasField(fields, r, off, size)
    <3>1. off \in OverAt(fields, r, off, size)
      BY <1>1 DEF SameAt, FollowAt, Contiguous
    <3>2. off \in DOMAIN fields[r].out
      BY <3>1, AtIs
    <3>3. QED
      BY <1>1, <3>2 DEF SameAt, HasField
  <2>3. res.fields = fields /\ res.changed = FALSE
    BY <2>1
  <2>4. QED
    BY <2>2, <2>3, RicherSelf
<1>2. CASE ~SameAt(fields, r, off, size) /\ (FollowAt(fields, r, off, size) # {} \/ ~FillsAt(fields, r, off, size))
  <2>1. res = [ok |-> FALSE, fields |-> fields, changed |-> FALSE, case |-> "plain"]
    BY <1>2, LookIs
  <2>2. res.fields = fields /\ res.changed = FALSE /\ res.ok = FALSE
    BY <2>1
  <2>3. QED
    BY <2>2, RicherSelf
<1>3. CASE ~SameAt(fields, r, off, size) /\ FollowAt(fields, r, off, size) = {} /\ FillsAt(fields, r, off, size)
  <2>1. res = [ok |-> TRUE, changed |-> TRUE, case |-> CaseAt(fields, r, off, size),
               fields |-> FieldsAt(fields, r, off, size)]
    BY <1>3, LookIs
  <2>2. FreeAt(fields, r, off, size)
    <3>1. ASSUME ExactAt(fields, r, off, size) PROVE FALSE
      <4>1. OverAt(fields, r, off, size) = FollowAt(fields, r, off, size)
        BY <3>1 DEF ExactAt, FollowAt, Exact
      <4>2. OverAt(fields, r, off, size) # {}
        BY <3>1 DEF ExactAt, Exact
      <4>3. QED
        BY <1>3, <4>1, <4>2
    <3>2. QED
      BY <1>3, <3>1 DEF FillsAt
  <2>3. res.fields = FieldsAt(fields, r, off, size)
    BY <2>1
  <2>4. QED
    BY <2>2, <2>3, FreeIs
<1>4. QED
  BY <1>1, <1>2, <1>3

\* Making a field, whatever is in its place.
LEMMA MakeOk ==
  ASSUME NEW fields \in Layouts, NEW r, NEW off, NEW size, Place(r, off, size),
         NEW res, res = Make(fields, r, off, size)
  PROVE  /\ res.fields \in Layouts /\ HasField(res.fields, r, off, size) /\ res.case \in CaseNames
         /\ Kept(fields, res.fields, r, off, size)
         /\ res.case # "suffix" => OutsideWeaker(fields, res.fields, r, off, size)
         /\ res.case # "suffix" /\ res.case # "gap" => Weakly(fields, res.fields)
<1>1. CASE SameAt(fields, r, off, size)
  <2>1. res = [ok |-> TRUE, fields |-> fields, changed |-> FALSE, case |-> "plain"]
    BY <1>1, MakeIs
  <2>2. HasField(fields, r, off, size)
    <3>1. off \in OverAt(fields, r, off, size)
      BY <1>1 DEF SameAt, FollowAt, Contiguous
    <3>2. off \in DOMAIN fields[r].out
      BY <3>1, AtIs
    <3>3. QED
      BY <1>1, <3>2 DEF SameAt, HasField
  <2>3. res.fields = fields /\ res.case \in CaseNames
    BY <2>1 DEF CaseNames
  <2>4. Kept(fields, fields, r, off, size) /\ OutsideWeaker(fields, fields, r, off, size) /\ Weakly(fields, fields)
    BY DEF Kept, HasField, OutsideWeaker, Weakly, Weaker
  <2>5. QED
    BY <2>2, <2>3, <2>4
<1>2. CASE ~SameAt(fields, r, off, size)
  <2> DEFINE f2 == FieldsAt(fields, r, off, size)
             over == OverAt(fields, r, off, size)
             pieces == PiecesAt(fields, r, off, size)
  <2>1. res = [ok |-> TRUE, changed |-> TRUE, case |-> CaseAt(fields, r, off, size), fields |-> f2]
    BY <1>2, MakeIs
  <2>2. res.fields = f2 /\ res.case = CaseAt(fields, r, off, size)
    <3> HIDE DEF f2
    <3> QED BY <2>1
  <2>3. /\ f2 \in Layouts /\ HasField(f2, r, off, size)
        /\ \A r2 \in Region \ {r} :
             /\ DOMAIN f2[r2].out = DOMAIN fields[r2].out
             /\ \A o \in DOMAIN fields[r2].out : f2[r2].out[o].size = fields[r2].out[o].size
        /\ DOMAIN f2[r].out = DOMAIN pieces \cup (DOMAIN fields[r].out \ over)
        /\ \A o \in DOMAIN fields[r].out \ over : f2[r].out[o].size = fields[r].out[o].size
    <3>1. /\ over = OverAt(fields, r, off, size) /\ pieces = PiecesAt(fields, r, off, size)
          /\ f2 = FieldsAt(fields, r, off, size)
      OBVIOUS
    <3> HIDE DEF over, pieces, f2
    <3>2. FieldsMade(fields, f2, r, off, size, over, pieces)
      BY <3>1, FieldsIs
    <3>3. QED
      BY <3>2 DEF FieldsMade
  <2>4. /\ r \in Region /\ off \in Int /\ size \in Nat \ {0} /\ fields[r].out \in Row
        /\ \A o \in DOMAIN fields[r].out : o \in over <=> (o < off + size /\ Ends(fields[r].out, o) > off)
    <3> HIDE DEF over
    <3> QED BY AtIs DEF over
  <2>5. \A o \in DOMAIN fields[r].out : Ends(fields[r].out, o) \in Int /\ o \in Int
    BY <2>4, RowIs
  <2> HIDE DEF f2, over, pieces
  <2>6. Kept(fields, f2, r, off, size)
    <3>1. ASSUME NEW r2 \in Region, NEW o \in DOMAIN fields[r2].out,
                 r2 # r \/ Ends(fields[r2].out, o) <= off \/ off + size <= o
          PROVE  HasField(f2, r2, o, fields[r2].out[o].size)
      <4>1. CASE r2 # r
        BY <2>3, <3>1, <4>1 DEF HasField
      <4>2. CASE r2 = r
        <5>1. o \in DOMAIN fields[r].out \ over
          BY <2>4, <2>5, <3>1, <4>2
        <5>2. QED
          BY <2>3, <4>2, <5>1 DEF HasField
      <4>3. QED
        BY <4>1, <4>2
    <3>2. QED
      BY <3>1 DEF Kept
  <2>7. ASSUME res.case # "suffix" PROVE OutsideWeaker(fields, f2, r, off, size)
    <3>1. ~CutAt(fields, r, off, size)
      BY <2>2, <2>7 DEF CaseAt
    <3>2. QED
      BY <3>1, FieldsWeaker DEF f2
  <2>8. ASSUME res.case # "suffix", res.case # "gap" PROVE Weakly(fields, f2)
    <3>1. ~CutAt(fields, r, off, size) /\ (FillsAt(fields, r, off, size) \/ ~AloneAt(fields, r, off, size))
      BY <2>2, <2>8 DEF CaseAt
    <3>2. QED
      BY <3>1, FieldsWeaker DEF f2
  <2>9. res.case \in CaseNames
    BY <2>2 DEF CaseAt, CaseNames
  <2>10. QED
    BY <2>2, <2>3, <2>6, <2>7, <2>8, <2>9
<1>3. QED
  BY <1>1, <1>2

IsVal(val, size) == val \in Seq(Cell) /\ (val = Top \/ Len(val) = size)

\* The value is in line with what the fields let the cells of the range be.
TellsRange(fields, r, off, size, val) ==
  \A c \in Int, v \in Cell : off <= c /\ c < off + size /\ Lets(fields, r, c, v) => Tells(val, c - off + 1, v)

LEMMA FieldTells ==
  ASSUME NEW fields \in Layouts, NEW r \in Region, NEW off, NEW size, HasField(fields, r, off, size),
         NEW val, val = ValueOf(fields, r, off)
  PROVE  /\ IsVal(val, size) /\ TellsRange(fields, r, off, size, val)
         /\ off \in Int /\ size \in Size /\ 0 <= off /\ off + size <= Cells[r]
<1>1. off \in DOMAIN fields[r].out /\ fields[r].out[off].size = size
  BY DEF HasField
<1>2. /\ off \in Int /\ size \in Size /\ fields[r].out[off].val \in Seq(Cell)
      /\ fields[r].out[off].val = Top \/ Len(fields[r].out[off].val) = size
  BY <1>1, FieldOf
<1>3. val = fields[r].out[off].val
  BY DEF ValueOf
<1>4. Ends(fields[r].out, off) = off + size
  BY <1>1 DEF Ends
<1>5. TellsRange(fields, r, off, size, val)
  <2>1. SUFFICES ASSUME NEW c \in Int, NEW v \in Cell, off <= c, c < off + size, Lets(fields, r, c, v)
                 PROVE  Tells(val, c - off + 1, v)
    BY DEF TellsRange
  <2>2. Holds(fields[r].out, off, c)
    BY <1>4, <2>1 DEF Holds
  <2>3. QED
    BY <1>1, <1>3, <2>1, <2>2 DEF Lets
<1>6. 0 <= off /\ Ends(fields[r].out, off) <= Cells[r]
  BY <1>1, LayoutsIs
<1>7. QED
  BY <1>2, <1>3, <1>4, <1>5, <1>6 DEF IsVal

\* Fields that make up a range put together.
LEMMA AssembledIs ==
  ASSUME NEW fields \in Layouts, NEW r, NEW off, NEW size, Place(r, off, size),
         NEW over, over = Overlapped(fields[r].out, off, size), Exact(fields[r].out, off, size, over),
         NEW val, val = Assembled(fields[r].out, off, size, over)
  PROVE  IsVal(val, size) /\ TellsRange(fields, r, off, size, val)
<1> DEFINE out == fields[r].out
           field(c) == CHOOSE o \in over : o <= c /\ c < Ends(out, o)
<1>1. r \in Region /\ off \in Int /\ size \in Size /\ size \in Nat \ {0} /\ out \in Row
  BY PlaceIs, LayoutsIs
<1>2. over \subseteq DOMAIN out
  BY <1>1, OverIs
<1>3. \A c \in off .. off + size - 1 : \E o \in over : o <= c /\ c < Ends(out, o)
  <2> HIDE DEF out
  <2>1. Exact(out, off, size, over) /\ over = Overlapped(out, off, size)
    BY DEF out
  <2>2. QED
    BY <1>1, <2>1, ExactIs
<1>4. \A c \in off .. off + size - 1 : field(c) \in over /\ field(c) <= c /\ c < Ends(out, field(c))
  BY <1>3
<1>5. CASE val = Top
  <2>1. Top \in Seq(Cell)
    BY DEF Top
  <2>2. QED
    BY <1>5, <2>1 DEF IsVal, TellsRange, Tells
<1>6. CASE val # Top
  <2>1. /\ \A o \in over : out[o].val # Top
        /\ val = [i \in 1 .. size |-> out[field(off + i - 1)].val[off + i - field(off + i - 1)]]
    BY <1>6, Zenon DEF Assembled
  <2> HIDE DEF out, field
  <2>2. \A o \in over : /\ o \in Int /\ Ends(out, o) = o + out[o].size /\ out[o].size \in Nat \ {0}
                        /\ out[o].val \in Seq(Cell) /\ Len(out[o].val) = out[o].size
    <3>1. SUFFICES ASSUME NEW o \in over
                   PROVE  /\ o \in Int /\ Ends(out, o) = o + out[o].size /\ out[o].size \in Nat \ {0}
                          /\ out[o].val \in Seq(Cell) /\ Len(out[o].val) = out[o].size
      OBVIOUS
    <3>2. out[o].val # Top
      BY <2>1
    <3>3. /\ o \in Int /\ out[o].size \in Size /\ out[o].val \in Seq(Cell)
          /\ out[o].val = Top \/ Len(out[o].val) = out[o].size
      BY <1>1, <1>2, FieldOf DEF out
    <3>4. QED
      BY <3>2, <3>3 DEF Ends, Size
  <2>3. ASSUME NEW i \in 1 .. size
        PROVE  /\ field(off + i - 1) \in over /\ field(off + i - 1) <= off + i - 1
               /\ off + i - 1 < Ends(out, field(off + i - 1))
               /\ val[i] = out[field(off + i - 1)].val[off + i - field(off + i - 1)] /\ val[i] \in Cell
    <3> DEFINE f == field(off + i - 1)
    <3>1. off + i - 1 \in off .. off + size - 1
      BY <1>1
    <3>2. f \in over /\ f <= off + i - 1 /\ off + i - 1 < Ends(out, f)
      BY <1>4, <3>1
    <3>3. val[i] = out[f].val[off + i - f]
      BY <2>1
    <3> HIDE DEF f
    <3>4. off + i - f \in 1 .. out[f].size
      BY <1>1, <2>2, <3>2
    <3>5. out[f].val[off + i - f] \in Cell
      <4> DEFINE content == out[f].val
                 k == off + i - f
      <4>1. content \in Seq(Cell) /\ Len(content) = out[f].size
        BY <2>2, <3>2
      <4>2. k \in 1 .. Len(content)
        BY <3>4, <4>1
      <4> HIDE DEF content, k
      <4>3. content[k] \in Cell
        BY <4>1, <4>2
      <4>4. QED
        BY <4>3 DEF content, k
    <3>6. QED
      BY <3>2, <3>3, <3>5 DEF f
  <2>4. val \in [1 .. size -> Cell]
    <3>1. val = [i \in 1 .. size |-> val[i]]
      BY <2>1
    <3>2. QED
      BY <2>3, <3>1
  <2>5. IsVal(val, size)
    BY <1>1, <2>4 DEF IsVal
  <2>6. TellsRange(fields, r, off, size, val)
    <3>1. SUFFICES ASSUME NEW c \in Int, NEW v \in Cell, off <= c, c < off + size, Lets(fields, r, c, v)
                   PROVE  Tells(val, c - off + 1, v)
      BY DEF TellsRange
    <3> DEFINE i == c - off + 1
    <3>2. i \in 1 .. size /\ off + i - 1 = c /\ \A f \in Int : off + i - f = c - f + 1
      BY <1>1, <3>1
    <3> HIDE DEF i
    <3> DEFINE f == field(off + i - 1)
    <3>3. f \in over /\ f <= c /\ c < Ends(out, f) /\ val[i] = out[f].val[off + i - f]
      BY <2>3, <3>2
    <3> HIDE DEF f
    <3>4. Holds(out, f, c) /\ f \in DOMAIN out /\ f \in Int
      BY <1>2, <2>2, <3>3 DEF Holds
    <3>5. Tells(out[f].val, c - f + 1, v)
      BY <3>1, <3>4 DEF Lets, out
    <3>6. v = Meaning(out[f].val[c - f + 1])
      BY <2>1, <3>3, <3>5 DEF Tells
    <3>7. val[i] = out[f].val[c - f + 1]
      BY <3>2, <3>3, <3>4
    <3>8. Tells(val, i, v)
      BY <3>6, <3>7 DEF Tells
    <3>9. QED
      BY <3>8 DEF i
  <2>7. QED
    BY <2>5, <2>6
<1>7. QED
  BY <1>5, <1>6

\* Reading keeps what is known, and what is read is so.
LEMMA ReadOk ==
  ASSUME NEW fields \in Layouts, NEW r, NEW off, NEW size, Place(r, off, size),
         NEW res, res = Read(fields, r, off, size)
  PROVE  Richer(fields, res.fields) /\ IsVal(res.val, size) /\ TellsRange(fields, r, off, size, res.val)
<1> DEFINE over == Overlapped(fields[r].out, off, size)
           look == Look(fields, r, off, size)
<1>1. res = IF Exact(fields[r].out, off, size, over)
            THEN [fields |-> fields, val |-> Assembled(fields[r].out, off, size, over)]
            ELSE [fields |-> look.fields, val |-> IF look.ok THEN ValueOf(look.fields, r, off) ELSE Top]
  BY Zenon DEF Read, Look
<1>2. CASE Exact(fields[r].out, off, size, over)
  <2> DEFINE val == Assembled(fields[r].out, off, size, over)
  <2>1. IsVal(val, size) /\ TellsRange(fields, r, off, size, val)
    <3> HIDE DEF val, over
    <3> QED BY <1>2, AssembledIs DEF val, over
  <2>2. res = [fields |-> fields, val |-> val]
    BY <1>1, <1>2
  <2> HIDE DEF val
  <2>3. res.fields = fields /\ res.val = val
    BY <2>2
  <2>4. QED
    BY <2>1, <2>3, RicherSelf
<1>3. CASE ~Exact(fields[r].out, off, size, over)
  <2> DEFINE val == IF look.ok THEN ValueOf(look.fields, r, off) ELSE Top
  <2>1. res = [fields |-> look.fields, val |-> val]
    BY <1>1, <1>3
  <2> HIDE DEF look
  <2>2. Richer(fields, look.fields) /\ (look.ok => HasField(look.fields, r, off, size))
    BY LookOk DEF look
  <2>3. res.fields = look.fields /\ res.val = val
    <3> HIDE DEF val
    <3> QED BY <2>1
  <2>4. CASE look.ok
    <3>1. r \in Region /\ look.fields \in Layouts /\ HasField(look.fields, r, off, size)
      BY <2>2, <2>4, PlaceIs DEF Richer
    <3>2. val = ValueOf(look.fields, r, off)
      BY <2>4
    <3> HIDE DEF val
    <3>3. IsVal(val, size) /\ TellsRange(look.fields, r, off, size, val)
      BY <3>1, <3>2, FieldTells
    <3>4. TellsRange(fields, r, off, size, val)
      BY <2>2, <3>1, <3>3 DEF TellsRange, Richer, Weakly, Weaker
    <3>5. QED
      BY <2>2, <2>3, <3>3, <3>4
  <2>5. CASE ~look.ok
    <3>1. val = Top
      BY <2>5
    <3>2. IsVal(Top, size) /\ TellsRange(fields, r, off, size, Top)
      BY DEF IsVal, TellsRange, Tells, Top
    <3> HIDE DEF val
    <3>3. QED
      BY <2>2, <2>3, <3>1, <3>2
  <2>6. QED
    BY <2>4, <2>5
<1>4. QED
  BY <1>2, <1>3

(* The fields and the memory *)

Space == UNION {CellsOf(r, 0, Cells[r]) : r \in Region}
Memories == [Space -> Cell]

Contents(size) == [1 .. size -> Cell]

LEMMA InSpace ==
  /\ \A r \in Region, c \in Int : <<r, c>> \in Space <=> (0 <= c /\ c < Cells[r])
  /\ \A cell \in Space : \E r \in Region, c \in Int : cell = <<r, c>>
<1>1. \A r \in Region : Cells[r] \in Nat
  BY CellsAre
<1>2. ASSUME NEW r \in Region, NEW c \in Int PROVE <<r, c>> \in Space <=> (0 <= c /\ c < Cells[r])
  BY <1>1 DEF Space, CellsOf
<1>3. ASSUME NEW cell \in Space PROVE \E r \in Region, c \in Int : cell = <<r, c>>
  BY <1>1 DEF Space, CellsOf
<1>4. QED
  BY <1>2, <1>3

FitsAt(fields, m, r, c) == <<r, c>> \in Space => Lets(fields, r, c, m[<<r, c>>])
MemFits(fields, m) == \A r \in Region, c \in Int : FitsAt(fields, m, r, c)
OutsideFits(fields, m, r, off, size) ==
  \A r2 \in Region, c \in Int : r2 # r \/ c < off \/ off + size <= c => FitsAt(fields, m, r2, c)
InsideFits(fields, m, r, off, size) ==
  \A c \in Int : off <= c /\ c < off + size => FitsAt(fields, m, r, c)

\* The value is in line with this content.
Told(val, content, size) == \A i \in 1 .. size : Tells(val, i, content[i])

LEMMA StillFits ==
  ASSUME NEW f1, NEW f2, Weakly(f1, f2), NEW m \in Memories, MemFits(f1, m)
  PROVE  MemFits(f2, m)
<1>1. SUFFICES ASSUME NEW r \in Region, NEW c \in Int, <<r, c>> \in Space PROVE Lets(f2, r, c, m[<<r, c>>])
  BY DEF MemFits, FitsAt
<1>2. m[<<r, c>>] \in Cell /\ Lets(f1, r, c, m[<<r, c>>])
  BY <1>1 DEF Memories, MemFits, FitsAt
<1>3. QED
  BY <1>2 DEF Weakly, Weaker

LEMMA StillFitsOutside ==
  ASSUME NEW f1, NEW f2, NEW r, NEW off, NEW size, OutsideWeaker(f1, f2, r, off, size), NEW m \in Memories, MemFits(f1, m)
  PROVE  OutsideFits(f2, m, r, off, size)
<1>1. SUFFICES ASSUME NEW r2 \in Region, NEW c \in Int, <<r2, c>> \in Space, r2 # r \/ c < off \/ off + size <= c
               PROVE  Lets(f2, r2, c, m[<<r2, c>>])
  BY DEF OutsideFits, FitsAt
<1>2. m[<<r2, c>>] \in Cell /\ Lets(f1, r2, c, m[<<r2, c>>])
  BY <1>1 DEF Memories, MemFits, FitsAt
<1>3. QED
  BY <1>1, <1>2 DEF OutsideWeaker, Weaker

LEMMA AllFitOutside ==
  ASSUME NEW fields, NEW m, MemFits(fields, m), NEW r, NEW off, NEW size
  PROVE  OutsideFits(fields, m, r, off, size)
BY DEF MemFits, OutsideFits

\* The content of a range is a content, and what is told of its cells is told of it.
LEMMA ContentIs ==
  ASSUME NEW m \in Memories, NEW r, NEW off, NEW size, Place(r, off, size),
         NEW content, content = Content(m, r, off, size)
  PROVE  /\ content \in Contents(size)
         /\ \A i \in 1 .. size : content[i] = m[<<r, off + i - 1>>] /\ <<r, off + i - 1>> \in Space
<1>1. r \in Region /\ off \in Nat /\ size \in Nat \ {0} /\ off + size <= Cells[r] /\ Cells[r] \in Nat
  BY PlaceIs, CellsAre
<1>2. ASSUME NEW i \in 1 .. size
      PROVE  content[i] = m[<<r, off + i - 1>>] /\ <<r, off + i - 1>> \in Space /\ m[<<r, off + i - 1>>] \in Cell
  <2>1. off + i - 1 \in Int /\ 0 <= off + i - 1 /\ off + i - 1 < Cells[r]
    BY <1>1
  <2>2. <<r, off + i - 1>> \in Space
    BY <1>1, <2>1, InSpace
  <2>3. QED
    BY <2>2 DEF Memories, Content
<1>3. content = [i \in 1 .. size |-> m[<<r, off + i - 1>>]]
  BY DEF Content
<1>4. QED
  BY <1>2, <1>3 DEF Contents

LEMMA ContentTold ==
  ASSUME NEW m \in Memories, NEW r, NEW off, NEW size, Place(r, off, size), NEW fields, NEW val,
         TellsRange(fields, r, off, size, val), InsideFits(fields, m, r, off, size)
  PROVE  Told(val, Content(m, r, off, size), size)
<1> DEFINE content == Content(m, r, off, size)
<1>1. content \in Contents(size)
      /\ \A i \in 1 .. size : content[i] = m[<<r, off + i - 1>>] /\ <<r, off + i - 1>> \in Space
  <2> HIDE DEF content
  <2> QED BY ContentIs DEF content
<1> HIDE DEF content
<1>2. off \in Int /\ size \in Nat
  BY PlaceIs
<1>3. ASSUME NEW i \in 1 .. size PROVE Tells(val, i, content[i])
  <2> DEFINE c == off + i - 1
  <2>1. c \in Int /\ off <= c /\ c < off + size /\ c - off + 1 = i
    BY <1>2
  <2>2. content[i] = m[<<r, c>>] /\ <<r, c>> \in Space /\ content[i] \in Cell
    BY <1>1 DEF Contents
  <2> HIDE DEF c
  <2>3. Lets(fields, r, c, content[i])
    BY <2>1, <2>2 DEF InsideFits, FitsAt
  <2>4. Tells(val, c - off + 1, content[i])
    BY <2>1, <2>2, <2>3 DEF TellsRange
  <2>5. QED
    BY <2>1, <2>4
<1>4. QED
  BY <1>3 DEF Told, content

\* What a memory is after a write.
LEMMA WrittenIs ==
  ASSUME NEW m \in Memories, NEW r, NEW off, NEW size, Place(r, off, size), NEW content \in Contents(size),
         NEW m2, m2 = Written(m, r, off, content)
  PROVE  /\ m2 \in Memories
         /\ \A r2 \in Region, c \in Int : <<r2, c>> \in Space =>
              /\ r2 # r \/ c < off \/ off + size <= c => m2[<<r2, c>>] = m[<<r2, c>>]
              /\ r2 = r /\ off <= c /\ c < off + size => c - off + 1 \in 1 .. size /\ m2[<<r2, c>>] = content[c - off + 1]
<1>1. r \in Region /\ off \in Nat /\ size \in Nat \ {0}
  BY PlaceIs
<1>2. Len(content) = size
  BY <1>1 DEF Contents
<1>3. DOMAIN m = Space
  BY DEF Memories
<1>4. m2 = [cell \in Space |-> IF cell \in CellsOf(r, off, size) THEN content[cell[2] - off + 1] ELSE m[cell]]
  BY <1>2, <1>3 DEF Written
<1>5. \A r2 \in Region, c \in Int : <<r2, c>> \in CellsOf(r, off, size) <=> (r2 = r /\ off <= c /\ c < off + size)
  BY <1>1 DEF CellsOf
<1>6. ASSUME NEW r2 \in Region, NEW c \in Int, <<r2, c>> \in Space
      PROVE  /\ r2 # r \/ c < off \/ off + size <= c => m2[<<r2, c>>] = m[<<r2, c>>]
             /\ r2 = r /\ off <= c /\ c < off + size => c - off + 1 \in 1 .. size /\ m2[<<r2, c>>] = content[c - off + 1]
             /\ m2[<<r2, c>>] \in Cell
  <2>1. m[<<r2, c>>] \in Cell
    BY <1>6 DEF Memories
  <2>2. CASE r2 # r \/ c < off \/ off + size <= c
    <3>1. <<r2, c>> \notin CellsOf(r, off, size)
      BY <1>1, <1>5, <2>2
    <3>2. m2[<<r2, c>>] = m[<<r2, c>>]
      BY <1>4, <1>6, <3>1
    <3>3. QED
      BY <1>1, <2>1, <2>2, <3>2
  <2>3. CASE r2 = r /\ off <= c /\ c < off + size
    <3>1. <<r2, c>> \in CellsOf(r, off, size)
      BY <1>5, <2>3
    <3>2. m2[<<r2, c>>] = content[c - off + 1]
      BY <1>4, <1>6, <3>1
    <3>3. c - off + 1 \in 1 .. size
      BY <1>1, <2>3
    <3>4. content[c - off + 1] \in Cell
      BY <3>3 DEF Contents
    <3>5. QED
      BY <1>1, <2>3, <3>2, <3>3, <3>4
  <2>4. QED
    BY <1>1, <2>2, <2>3
<1>7. m2 \in Memories
  <2>1. ASSUME NEW cell \in Space PROVE m2[cell] \in Cell
    <3>1. PICK r2 \in Region, c \in Int : cell = <<r2, c>>
      BY InSpace
    <3>2. QED
      BY <1>6, <3>1
  <2>2. m2 = [cell \in Space |-> m2[cell]]
    BY <1>4
  <2>3. QED
    BY <2>1, <2>2 DEF Memories
<1>8. QED
  BY <1>6, <1>7

\* A write whose field gets a value the content is in line with.
LEMMA WriteFits ==
  ASSUME NEW fields \in Layouts, NEW r, NEW off, NEW size, Place(r, off, size), HasField(fields, r, off, size),
         NEW val, IsVal(val, size), NEW m \in Memories, OutsideFits(fields, m, r, off, size),
         NEW content \in Contents(size), Told(val, content, size)
  PROVE  MemFits(SetVal(fields, r, off, val), Written(m, r, off, content))
<1> DEFINE f2 == SetVal(fields, r, off, val)
           m2 == Written(m, r, off, content)
<1>1. r \in Region /\ off \in Int /\ size \in Nat \ {0} /\ off \in DOMAIN fields[r].out /\ fields[r].out[off].size = size
  BY PlaceIs DEF HasField
<1>2. \A c \in Int : Holds(fields[r].out, off, c) <=> (off <= c /\ c < off + size)
  BY <1>1 DEF Holds, Ends
<1>3. m2 \in Memories /\ \A r2 \in Region, c \in Int : <<r2, c>> \in Space =>
              /\ r2 # r \/ c < off \/ off + size <= c => m2[<<r2, c>>] = m[<<r2, c>>]
              /\ r2 = r /\ off <= c /\ c < off + size => c - off + 1 \in 1 .. size /\ m2[<<r2, c>>] = content[c - off + 1]
  <2>1. m2 = Written(m, r, off, content)
    OBVIOUS
  <2> HIDE DEF m2
  <2>2. QED
    BY <2>1, WrittenIs
<1>4. val \in Seq(Cell) /\ (val = Top \/ Len(val) = fields[r].out[off].size)
  BY <1>1 DEF IsVal
<1> HIDE DEF f2, m2
<1>5. ASSUME NEW r2 \in Region, NEW c \in Int, <<r2, c>> \in Space PROVE Lets(f2, r2, c, m2[<<r2, c>>])
  <2>1. m2[<<r2, c>>] \in Cell
    BY <1>3, <1>5 DEF Memories
  <2>2. CASE r2 # r \/ c < off \/ off + size <= c
    <3>1. m2[<<r2, c>>] = m[<<r2, c>>]
      BY <1>3, <1>5, <2>2
    <3>2. Lets(fields, r2, c, m2[<<r2, c>>])
      BY <1>5, <2>2, <3>1 DEF OutsideFits, FitsAt
    <3>3. r2 # r \/ ~Holds(fields[r].out, off, c)
      BY <1>1, <1>2, <2>2
    <3>4. QED
      BY <1>1, <1>4, <2>1, <3>2, <3>3, SetValFits DEF f2
  <2>3. CASE r2 = r /\ off <= c /\ c < off + size
    <3>1. c - off + 1 \in 1 .. size /\ m2[<<r2, c>>] = content[c - off + 1]
      BY <1>3, <1>5, <2>3
    <3>2. Tells(val, c - off + 1, m2[<<r2, c>>])
      BY <3>1 DEF Told
    <3>3. Holds(fields[r].out, off, c)
      BY <1>2, <2>3
    <3>4. QED
      BY <1>1, <1>4, <2>1, <2>3, <3>2, <3>3, SetValFits DEF f2
  <2>4. QED
    BY <1>1, <2>2, <2>3
<1>6. QED
  BY <1>5 DEF MemFits, FitsAt, f2, m2

\* Knowing less of a field.
LEMMA SetLess ==
  ASSUME NEW fields \in Layouts, NEW r \in Region, NEW off, NEW size, HasField(fields, r, off, size),
         NEW val, val = Top \/ val = ValueOf(fields, r, off), NEW f2, f2 = SetVal(fields, r, off, val)
  PROVE  f2 \in Layouts /\ Weakly(fields, f2) /\ \A r2 \in Region : \A o, s : HasField(fields, r2, o, s) => HasField(f2, r2, o, s)
<1>1. off \in DOMAIN fields[r].out /\ fields[r].out[off].size = size
  BY DEF HasField
<1>2. val = Top \/ val = fields[r].out[off].val
  BY DEF ValueOf
<1>3. val \in Seq(Cell) /\ (val = Top \/ Len(val) = fields[r].out[off].size)
  <2>1. Top \in Seq(Cell)
    BY DEF Top
  <2>2. fields[r].out[off].val \in Seq(Cell) /\ (fields[r].out[off].val = Top \/ Len(fields[r].out[off].val) = fields[r].out[off].size)
    BY <1>1, FieldOf
  <2>3. QED
    BY <1>2, <2>1, <2>2
<1>4. Weakly(fields, f2)
  <2>1. SUFFICES ASSUME NEW r2 \in Region, NEW c \in Int, NEW v \in Cell, Lets(fields, r2, c, v) PROVE Lets(f2, r2, c, v)
    BY DEF Weakly, Weaker
  <2>2. QED
    BY <1>1, <1>2, <1>3, <2>1, SetValFits
<1>5. f2 \in Layouts /\ \A r2 \in Region :
              /\ DOMAIN f2[r2].out = DOMAIN fields[r2].out
              /\ \A o \in DOMAIN fields[r2].out : f2[r2].out[o].size = fields[r2].out[o].size
  BY <1>1, <1>3, SetValIs
<1>6. QED
  BY <1>4, <1>5 DEF HasField

\* Setting any value leaves the fields where they are.
LEMMA SetStays ==
  ASSUME NEW fields \in Layouts, NEW r \in Region, NEW off, NEW size, HasField(fields, r, off, size),
         NEW val, IsVal(val, size), NEW f2, f2 = SetVal(fields, r, off, val)
  PROVE  f2 \in Layouts /\ \A r2 \in Region : \A o, s : HasField(fields, r2, o, s) => HasField(f2, r2, o, s)
<1>1. off \in DOMAIN fields[r].out /\ val \in Seq(Cell) /\ (val = Top \/ Len(val) = fields[r].out[off].size)
  BY DEF HasField, IsVal
<1>2. f2 \in Layouts /\ \A r2 \in Region :
              /\ DOMAIN f2[r2].out = DOMAIN fields[r2].out
              /\ \A o \in DOMAIN fields[r2].out : f2[r2].out[o].size = fields[r2].out[o].size
  BY <1>1, SetValIs
<1>3. QED
  BY <1>2 DEF HasField

(* Sources *)

LEMMA NumeralIs ==
  ASSUME NEW digits \in Numeral
  PROVE  /\ Len(digits) \in Size /\ IsVal(digits, Len(digits)) /\ digits # Top
         /\ digits \in Contents(Len(digits)) /\ Told(digits, digits, Len(digits))
         /\ DOMAIN digits = 1 .. Len(digits) /\ \A i \in 1 .. Len(digits) : digits[i][1] = Numbers /\ Meaning(digits[i]) = digits[i]
<1>1. digits \in Seq({Numbers} \X Nat) /\ digits # <<>>
  BY DEF Numeral
<1>2. Len(digits) \in Nat \ {0} /\ \A i \in 1 .. Len(digits) : digits[i] \in {Numbers} \X Nat
  BY <1>1
<1>3. DOMAIN digits = 1 .. Len(digits)
  BY <1>1
<1>4. \A i \in 1 .. Len(digits) : digits[i][1] = Numbers /\ digits[i] \in Cell
  BY <1>2 DEF Cell
<1>5. Numbers \notin Static
  BY SummaryMemoryAssumption DEF SummaryMemoryAssumption, Region
<1>6. \A i \in 1 .. Len(digits) : Meaning(digits[i]) = digits[i]
  BY <1>4, <1>5 DEF Meaning
<1>7. digits \in [1 .. Len(digits) -> Cell]
  <2>1. digits = [i \in 1 .. Len(digits) |-> digits[i]]
    BY <1>1
  <2>2. QED
    BY <1>4, <2>1
<1>8. digits \in Seq(Cell)
  BY <1>2, <1>7
<1>9. Told(digits, digits, Len(digits))
  BY <1>6 DEF Told, Tells
<1>10. QED
  BY <1>1, <1>2, <1>3, <1>4, <1>6, <1>7, <1>8, <1>9 DEF Size, IsVal, Top, Contents

LEMMA RangeIs ==
  ASSUME NEW range \in Ranges
  PROVE  Place(range[1], range[2], range[3]) /\ range[1] \in Registers
<1>1. range \in Region \X Nat \X (Nat \ {0}) /\ range[1] \in Registers /\ range[2] + range[3] <= Cells[range[1]]
  BY SummaryMemoryAssumption DEF SummaryMemoryAssumption, Access
<1>2. QED
  BY <1>1 DEF Place, Size

LEMMA SourceIs ==
  ASSUME NEW src \in Sources
  PROVE  /\ SizeOf(src) \in Size
         /\ \/ src.kind = "digits" /\ src.digits \in Numeral /\ SizeOf(src) = Len(src.digits)
            \/ src.kind # "digits" /\ src.kind = "range" /\ src.range \in Ranges /\ SizeOf(src) = src.range[3]
<1>1. \/ src \in [kind : {"digits"}, digits : Numeral]
      \/ src \in [kind : {"range"}, range : Ranges]
  BY SummaryMemoryAssumption DEF SummaryMemoryAssumption
<1>2. CASE src \in [kind : {"digits"}, digits : Numeral]
  <2>1. src.kind = "digits" /\ src.digits \in Numeral
    BY <1>2
  <2>2. QED
    BY <2>1, NumeralIs DEF SizeOf
<1>3. CASE src \in [kind : {"range"}, range : Ranges]
  <2>1. src.kind = "range" /\ src.range \in Ranges
    BY <1>3
  <2>2. src.range[3] \in Size
    BY <2>1, RangeIs, PlaceIs
  <2>3. QED
    BY <2>1, <2>2 DEF SizeOf
<1>4. QED
  BY <1>1, <1>2, <1>3

\* The cells that are read are as the fields let them be.
SourceFits(fields, m, src) ==
  src.kind = "range" => InsideFits(fields, m, src.range[1], src.range[2], src.range[3])

LEMMA SourceContentIs ==
  ASSUME NEW src \in Sources, NEW m \in Memories
  PROVE  SourceContent(m, src) \in Contents(SizeOf(src))
<1>1. CASE src.kind = "digits" /\ src.digits \in Numeral /\ SizeOf(src) = Len(src.digits)
  BY <1>1, NumeralIs DEF SourceContent
<1>2. CASE src.kind # "digits" /\ src.kind = "range" /\ src.range \in Ranges /\ SizeOf(src) = src.range[3]
  <2>1. Place(src.range[1], src.range[2], src.range[3])
    BY <1>2, RangeIs
  <2>2. Content(m, src.range[1], src.range[2], src.range[3]) \in Contents(src.range[3])
    BY <2>1, ContentIs
  <2>3. QED
    BY <1>2, <2>2 DEF SourceContent
<1>3. QED
  BY <1>1, <1>2, SourceIs

LEMMA ReadSourceOk ==
  ASSUME NEW fields \in Layouts, NEW src \in Sources, NEW res, res = ReadSource(fields, src)
  PROVE  /\ Richer(fields, res.fields) /\ IsVal(res.val, SizeOf(src))
         /\ \A m \in Memories : SourceFits(fields, m, src) => Told(res.val, SourceContent(m, src), SizeOf(src))
<1>1. CASE src.kind = "digits" /\ src.digits \in Numeral /\ SizeOf(src) = Len(src.digits)
  <2>1. res = [fields |-> fields, val |-> src.digits]
    BY <1>1 DEF ReadSource
  <2>2. res.fields = fields /\ res.val = src.digits
    BY <2>1
  <2>3. \A m \in Memories : SourceContent(m, src) = src.digits
    BY <1>1 DEF SourceContent
  <2>4. QED
    BY <1>1, <2>2, <2>3, NumeralIs, RicherSelf
<1>2. CASE src.kind # "digits" /\ src.kind = "range" /\ src.range \in Ranges /\ SizeOf(src) = src.range[3]
  <2> DEFINE r == src.range[1]
             off == src.range[2]
             size == src.range[3]
  <2>1. res = Read(fields, r, off, size)
    BY <1>2 DEF ReadSource
  <2>2. Place(r, off, size)
    BY <1>2, RangeIs
  <2>3. Richer(fields, res.fields) /\ IsVal(res.val, size) /\ TellsRange(fields, r, off, size, res.val)
    <3> HIDE DEF r, off, size
    <3> QED BY <2>1, <2>2, ReadOk
  <2>4. ASSUME NEW m \in Memories, SourceFits(fields, m, src) PROVE Told(res.val, SourceContent(m, src), size)
    <3>1. InsideFits(fields, m, r, off, size) /\ SourceContent(m, src) = Content(m, r, off, size)
      BY <1>2, <2>4 DEF SourceFits, SourceContent
    <3> HIDE DEF r, off, size
    <3>2. QED
      BY <2>2, <2>3, <2>4, <3>1, ContentTold
  <2>5. QED
    BY <1>2, <2>3, <2>4
<1>3. QED
  BY <1>1, <1>2, SourceIs

LEMMA AllFitSource ==
  ASSUME NEW fields, NEW m, MemFits(fields, m), NEW src \in Sources
  PROVE  SourceFits(fields, m, src)
<1>1. CASE src.kind = "range" /\ src.range \in Ranges
  BY <1>1, RangeIs, PlaceIs DEF SourceFits, InsideFits, MemFits
<1>2. CASE src.kind = "digits"
  BY <1>2 DEF SourceFits
<1>3. QED
  BY <1>1, <1>2, SourceIs

LEMMA EitherPair ==
  ASSUME NEW a, NEW b
  PROVE  Either({a, b}) = Top \/ (Either({a, b}) = a /\ a = b)
<1>1. CASE a = b
  <2>1. {a, b} = {a} /\ Cardinality({a}) = 1
    BY <1>1, FS_Singleton
  <2>2. Either({a, b}) = CHOOSE val \in {a} : TRUE
    BY <2>1 DEF Either
  <2>3. QED
    BY <1>1, <2>2
<1>2. CASE a # b
  <2>1. Cardinality({a, b}) # 1
    <3>1. IsFiniteSet({a}) /\ Cardinality({a}) = 1
      BY FS_Singleton
    <3>2. IsFiniteSet({a} \cup {b}) /\ Cardinality({a} \cup {b}) = Cardinality({a}) + 1
      BY <1>2, <3>1, FS_AddElement
    <3>3. {a, b} = {a} \cup {b}
      OBVIOUS
    <3>4. QED
      BY <3>1, <3>2, <3>3
  <2>2. QED
    BY <2>1 DEF Either
<1>3. QED
  BY <1>1, <1>2

(* The steps of an update *)

Accs == [fields : Layouts, cases : SUBSET CaseNames]

\* Cells of which nothing is known.
Vague(fields, r, off, size) == \A c \in Int, v \in Cell : off <= c /\ c < off + size => Lets(fields, r, c, v)

\* The second fields cover every memory that the first ones do after the source is written.
Writes(f1, f2, r, off, src) ==
  \A m \in Memories : MemFits(f1, m) => MemFits(f2, Written(m, r, off, SourceContent(m, src)))

LEMMA AccIs == ASSUME NEW acc \in Accs PROVE acc.fields \in Layouts /\ acc.cases \subseteq CaseNames
BY DEF Accs

LEMMA VagueStays ==
  ASSUME NEW f1, NEW f2, Weakly(f1, f2), NEW r \in Region, NEW off, NEW size, Vague(f1, r, off, size)
  PROVE  Vague(f2, r, off, size)
BY DEF Vague, Weakly, Weaker

LEMMA WrittenSource ==
  ASSUME NEW m \in Memories, NEW src \in Sources, NEW r, NEW off, Place(r, off, SizeOf(src))
  PROVE  Written(m, r, off, SourceContent(m, src)) \in Memories
<1>1. SourceContent(m, src) \in Contents(SizeOf(src))
  BY SourceContentIs
<1>2. QED
  BY <1>1, WrittenIs

LEMMA WritesThen ==
  ASSUME NEW f1, NEW f2, NEW f3, NEW r, NEW off, NEW src \in Sources, Place(r, off, SizeOf(src))
  PROVE  /\ Weakly(f1, f2) /\ Writes(f2, f3, r, off, src) => Writes(f1, f3, r, off, src)
         /\ Writes(f1, f2, r, off, src) /\ Weakly(f2, f3) => Writes(f1, f3, r, off, src)
<1>1. ASSUME Weakly(f1, f2), Writes(f2, f3, r, off, src) PROVE Writes(f1, f3, r, off, src)
  BY <1>1, StillFits DEF Writes
<1>2. ASSUME Writes(f1, f2, r, off, src), Weakly(f2, f3) PROVE Writes(f1, f3, r, off, src)
  BY <1>2, StillFits, WrittenSource DEF Writes
<1>3. QED
  BY <1>1, <1>2

\* Where nothing is known, anything may be written.
LEMMA VagueWrites ==
  ASSUME NEW fields, NEW src \in Sources, NEW size, size = SizeOf(src), NEW r, NEW off, Place(r, off, size),
         Vague(fields, r, off, size)
  PROVE  Writes(fields, fields, r, off, src)
<1>1. SUFFICES ASSUME NEW m \in Memories, MemFits(fields, m)
               PROVE  MemFits(fields, Written(m, r, off, SourceContent(m, src)))
  BY DEF Writes
<1> DEFINE content == SourceContent(m, src)
           m2 == Written(m, r, off, content)
<1>2. content \in Contents(size)
  BY SourceContentIs
<1>3. m2 = Written(m, r, off, content)
  OBVIOUS
<1> HIDE DEF m2, content
<1>4. m2 \in Memories /\ \A r2 \in Region, c \in Int : <<r2, c>> \in Space =>
              (r2 # r \/ c < off \/ off + size <= c => m2[<<r2, c>>] = m[<<r2, c>>])
  BY <1>2, <1>3, WrittenIs
<1>5. r \in Region /\ off \in Int /\ size \in Nat
  BY PlaceIs
<1>6. ASSUME NEW r2 \in Region, NEW c \in Int, <<r2, c>> \in Space PROVE Lets(fields, r2, c, m2[<<r2, c>>])
  <2>1. CASE r2 # r \/ c < off \/ off + size <= c
    BY <1>1, <1>4, <1>6, <2>1 DEF MemFits, FitsAt
  <2>2. CASE r2 = r /\ off <= c /\ c < off + size
    <3>1. m2[<<r2, c>>] \in Cell
      BY <1>4, <1>6 DEF Memories
    <3>2. QED
      BY <2>2, <3>1 DEF Vague
  <2>3. QED
    BY <1>5, <2>1, <2>2
<1>7. MemFits(fields, m2)
  BY <1>6 DEF MemFits, FitsAt
<1>8. QED
  BY <1>3, <1>7 DEF content

LEMMA LocatedOk ==
  ASSUME NEW acc \in Accs, NEW r, NEW o, NEW size, Place(r, o, size),
         NEW e, e = Located(acc, r, o, size)
  PROVE  /\ e \in Accs /\ acc.cases \subseteq e.cases
         /\ HasField(e.fields, r, o, size) /\ Kept(acc.fields, e.fields, r, o, size)
         /\ "suffix" \notin e.cases => OutsideWeaker(acc.fields, e.fields, r, o, size)
         /\ "suffix" \notin e.cases /\ "gap" \notin e.cases => Weakly(acc.fields, e.fields)
<1> DEFINE res == Make(acc.fields, r, o, size)
<1>1. e = [fields |-> res.fields, cases |-> acc.cases \cup {res.case}]
  BY DEF Located, Make
<1>2. acc.fields \in Layouts /\ acc.cases \subseteq CaseNames
  BY AccIs
<1>3. res = Make(acc.fields, r, o, size)
  OBVIOUS
<1> HIDE DEF res
<1>4. /\ res.fields \in Layouts /\ HasField(res.fields, r, o, size) /\ res.case \in CaseNames
      /\ Kept(acc.fields, res.fields, r, o, size)
      /\ res.case # "suffix" => OutsideWeaker(acc.fields, res.fields, r, o, size)
      /\ res.case # "suffix" /\ res.case # "gap" => Weakly(acc.fields, res.fields)
  BY <1>2, <1>3, MakeOk
<1>5. e.fields = res.fields /\ e.cases = acc.cases \cup {res.case}
  BY <1>1
<1>6. e \in Accs
  BY <1>1, <1>2, <1>4 DEF Accs
<1>7. QED
  BY <1>4, <1>5, <1>6

LEMMA TopifiedOk ==
  ASSUME NEW acc \in Accs, NEW r, NEW o, NEW size, Place(r, o, size),
         NEW e, e = Topified(acc, r, o, size)
  PROVE  /\ e \in Accs /\ acc.cases \subseteq e.cases
         /\ "suffix" \notin e.cases => Weakly(acc.fields, e.fields) /\ Vague(e.fields, r, o, size)
<1> DEFINE res == Make(acc.fields, r, o, size)
           f2 == SetVal(res.fields, r, o, Top)
<1>1. e = [fields |-> f2, cases |-> acc.cases \cup ({res.case} \ {"gap"})]
  BY DEF Topified, Make
<1>2. acc.fields \in Layouts /\ acc.cases \subseteq CaseNames
  BY AccIs
<1>3. res = Make(acc.fields, r, o, size)
  OBVIOUS
<1>4. f2 = SetVal(res.fields, r, o, Top)
  OBVIOUS
<1> HIDE DEF res, f2
<1>5. /\ res.fields \in Layouts /\ HasField(res.fields, r, o, size) /\ res.case \in CaseNames
      /\ res.case # "suffix" => OutsideWeaker(acc.fields, res.fields, r, o, size)
  BY <1>2, <1>3, MakeOk
<1>6. r \in Region /\ o \in Int /\ size \in Nat
  BY PlaceIs
<1>7. f2 \in Layouts
  BY <1>4, <1>5, <1>6, SetLess
<1>8. e.fields = f2 /\ e.cases = acc.cases \cup ({res.case} \ {"gap"}) /\ e \in Accs
  <2>1. acc.cases \cup ({res.case} \ {"gap"}) \subseteq CaseNames
    BY <1>2, <1>5
  <2>2. QED
    BY <1>1, <1>7, <2>1 DEF Accs
<1>9. o \in DOMAIN res.fields[r].out /\ \A c \in Int : Holds(res.fields[r].out, o, c) <=> (o <= c /\ c < o + size)
  BY <1>5 DEF HasField, Holds, Ends
<1>10. Top \in Seq(Cell) /\ \A i, v : Tells(Top, i, v)
  BY DEF Top, Tells
<1>11. Vague(f2, r, o, size)
  <2>1. SUFFICES ASSUME NEW c \in Int, NEW v \in Cell, o <= c, c < o + size PROVE Lets(f2, r, c, v)
    BY DEF Vague
  <2>2. Holds(res.fields[r].out, o, c)
    BY <1>9, <2>1
  <2>3. QED
    BY <1>4, <1>5, <1>6, <1>9, <1>10, <2>2, SetValFits
<1>12. ASSUME "suffix" \notin e.cases PROVE Weakly(acc.fields, f2)
  <2>1. OutsideWeaker(acc.fields, res.fields, r, o, size)
    BY <1>5, <1>8, <1>12
  <2>2. ASSUME NEW r2 \in Region, NEW c \in Int, NEW v \in Cell, Lets(acc.fields, r2, c, v) PROVE Lets(f2, r2, c, v)
    <3>1. CASE r2 = r /\ o <= c /\ c < o + size
      BY <1>11, <3>1 DEF Vague
    <3>2. CASE r2 # r \/ c < o \/ o + size <= c
      <4>1. Lets(res.fields, r2, c, v)
        BY <2>1, <2>2, <3>2 DEF OutsideWeaker, Weaker
      <4>2. QED
        BY <1>4, <1>5, <1>6, <1>9, <1>10, <4>1, SetValFits
    <3>3. QED
      BY <1>6, <3>1, <3>2
  <2>3. QED
    BY <2>2 DEF Weakly, Weaker
<1>13. QED
  BY <1>8, <1>11, <1>12

\* One of several accesses of an update.
Renewed(fields, r, o, src, target) ==
  LET val == ReadSource(fields, src).val
  IN  SetVal(fields, r, o, IF IsStrong(target) THEN val ELSE Either({val, ValueOf(fields, r, o)}))

LEMMA RenewedOk ==
  ASSUME NEW fields \in Layouts, NEW src \in Sources, NEW size, size = SizeOf(src), NEW r, NEW o, Place(r, o, size),
         HasField(fields, r, o, size), NEW target, NEW f2, f2 = Renewed(fields, r, o, src, target)
  PROVE  /\ f2 \in Layouts /\ \A r2 \in Region : \A p, s : HasField(fields, r2, p, s) => HasField(f2, r2, p, s)
         /\ ~IsStrong(target) => Weakly(fields, f2) /\ Writes(fields, f2, r, o, src)
         /\ IsStrong(target) => \A m \in Memories :
              SourceFits(fields, m, src) /\ OutsideFits(fields, m, r, o, size)
                => MemFits(f2, Written(m, r, o, SourceContent(m, src)))
<1> DEFINE rhs == ReadSource(fields, src)
           val == rhs.val
           old == ValueOf(fields, r, o)
           either == Either({val, old})
<1>1. f2 = IF IsStrong(target) THEN SetVal(fields, r, o, val) ELSE SetVal(fields, r, o, either)
  BY DEF Renewed
<1>2. IsVal(val, size) /\ \A m \in Memories : SourceFits(fields, m, src) => Told(val, SourceContent(m, src), size)
  <2>1. rhs = ReadSource(fields, src)
    OBVIOUS
  <2> HIDE DEF rhs
  <2>2. QED
    BY <2>1, ReadSourceOk
<1>3. either = Top \/ (either = val /\ val = old)
  <2> HIDE DEF val, old
  <2> QED BY EitherPair
<1>4. r \in Region
  BY PlaceIs
<1>5. IsVal(Top, size) /\ \A content : Told(Top, content, size)
  BY DEF IsVal, Told, Tells, Top
<1> HIDE DEF val, either
<1>6. CASE IsStrong(target)
  <2>1. f2 = SetVal(fields, r, o, val)
    BY <1>1, <1>6
  <2>2. f2 \in Layouts /\ \A r2 \in Region : \A p, s : HasField(fields, r2, p, s) => HasField(f2, r2, p, s)
    BY <1>2, <1>4, <2>1, SetStays
  <2>3. ASSUME NEW m \in Memories, SourceFits(fields, m, src), OutsideFits(fields, m, r, o, size)
        PROVE MemFits(f2, Written(m, r, o, SourceContent(m, src)))
    <3>1. SourceContent(m, src) \in Contents(size) /\ Told(val, SourceContent(m, src), size)
      BY <1>2, <2>3, SourceContentIs
    <3>2. QED
      BY <1>2, <2>1, <2>3, <3>1, WriteFits
  <2>4. QED
    BY <1>6, <2>2, <2>3
<1>7. CASE ~IsStrong(target)
  <2>1. f2 = SetVal(fields, r, o, either)
    BY <1>1, <1>7
  <2>2. /\ f2 \in Layouts /\ \A r2 \in Region : \A p, s : HasField(fields, r2, p, s) => HasField(f2, r2, p, s)
        /\ Weakly(fields, f2)
    <3>1. either = Top \/ either = ValueOf(fields, r, o)
      BY <1>3
    <3>2. QED
      BY <1>4, <2>1, <3>1, SetLess
  <2>3. ASSUME NEW m \in Memories, MemFits(fields, m)
        PROVE MemFits(f2, Written(m, r, o, SourceContent(m, src)))
    <3>1. SourceFits(fields, m, src) /\ OutsideFits(fields, m, r, o, size)
      BY <2>3, AllFitSource, AllFitOutside
    <3>2. SourceContent(m, src) \in Contents(size) /\ Told(val, SourceContent(m, src), size)
      BY <1>2, <3>1, SourceContentIs
    <3>3. IsVal(either, size) /\ Told(either, SourceContent(m, src), size)
      BY <1>2, <1>3, <1>5, <3>2
    <3>4. QED
      BY <2>1, <3>1, <3>2, <3>3, WriteFits
  <2>4. QED
    BY <1>7, <2>2, <2>3 DEF Writes
<1>8. QED
  BY <1>6, <1>7

(* The folds of an update *)

TopifiedAll(acc, r, size, S) ==
  LET topify(a, o) == Topified(a, r, o, size)
  IN  Ascending(topify, acc, S)

LocatedAll(acc, r, size, S) ==
  LET locate(a, o) == Located(a, r, o, size)
  IN  Ascending(locate, acc, S)

\* Accesses that overlap each other leave fields nothing is known of.
LEMMA TopifiedAllOk ==
  ASSUME NEW acc \in Accs, NEW r, NEW size, NEW S \in SUBSET Int, IsFiniteSet(S), \A o \in S : Place(r, o, size),
         NEW res, res = TopifiedAll(acc, r, size, S)
  PROVE  /\ res \in Accs /\ acc.cases \subseteq res.cases
         /\ "suffix" \notin res.cases =>
              Weakly(acc.fields, res.fields) /\ \A o \in S : Vague(res.fields, r, o, size)
<1> DEFINE M == Accs
           step(e, x) == Topified(e, r, x, size)
           pick == [s \in SUBSET S |-> Max(s)]
           Op == [z \in S \X M |-> step(z[2], z[1])]
           Body(F, s) == IF s = {} THEN acc ELSE step(F[s \ {Max(s)}], Max(s))
           iter == CHOOSE F : F = [s \in SUBSET S |-> Body(F, s)]
<1>1. Picks(pick, S)
  BY MaxPicks
<1>2. ASSUME NEW x \in S, NEW e \in M PROVE step(e, x) \in M
  BY <1>2, TopifiedOk
<1>3. \A x \in S, e \in M : Op[<<x, e>>] = step(e, x)
  <2> HIDE DEF step, M
  <2> QED OBVIOUS
<1>4. PICK F : IsFold(F, S, pick, acc, Op) /\ \A s \in SUBSET S : F[s] \in M
  <2>1. \A x \in S, e \in M : Op[<<x, e>>] \in M
    BY <1>2, <1>3
  <2>2. acc \in M
    OBVIOUS
  <2> HIDE DEF pick, Op, M
  <2>3. QED
    BY <1>1, <2>1, <2>2, FoldIn
<1>5. F = [s \in SUBSET S |-> Body(F, s)]
  <2>1. F = [s \in SUBSET S |-> IF s = {} THEN acc ELSE Op[<<pick[s], F[s \ {pick[s]}]>>]]
    BY <1>4 DEF IsFold
  <2>2. ASSUME NEW s \in SUBSET S, s # {} PROVE Op[<<pick[s], F[s \ {pick[s]}]>>] = Body(F, s)
    <3>1. pick[s] = Max(s) /\ pick[s] \in S
      BY <1>1, <2>2 DEF Picks
    <3>2. F[s \ {pick[s]}] \in M
      BY <1>4
    <3> HIDE DEF Op, pick, step, M
    <3>3. QED
      BY <1>3, <2>2, <3>1, <3>2
  <2> HIDE DEF Op, pick, step, M
  <2>3. QED
    BY <2>1, <2>2
<1>6. iter = [s \in SUBSET S |-> Body(iter, s)]
  <2> HIDE DEF Body
  <2> QED BY <1>5, Zenon
<1>7. res = iter[S]
  BY Zenon DEF TopifiedAll, Ascending, MapThenFoldSet
<1>8. iter[{}] = acc
  <2> HIDE DEF iter, step
  <2> QED BY <1>6
<1>9. ASSUME NEW s \in (SUBSET S) \ {{}} PROVE iter[s] = step(iter[s \ {pick[s]}], pick[s])
  <2>1. iter[s] = Body(iter, s)
    <3> HIDE DEF iter, Body
    <3> QED BY <1>6
  <2>2. pick[s] = Max(s)
    OBVIOUS
  <2> HIDE DEF iter, step, pick
  <2>3. QED
    BY <2>1, <2>2
<1> DEFINE Good(e, s) == /\ e \in Accs /\ acc.cases \subseteq e.cases
                         /\ "suffix" \notin e.cases => Weakly(acc.fields, e.fields) /\ \A o \in s : Vague(e.fields, r, o, size)
           Fam == [s \in SUBSET S |-> {e \in Accs : Good(e, s)}]
<1>10. \A s \in SUBSET S : iter[s] \in Fam[s]
  <2>1. iter[{}] \in Fam[{}]
    <3>1. Good(acc, {})
      BY DEF Weakly, Weaker
    <3> HIDE DEF Good, iter
    <3>2. QED
      BY <1>8, <3>1
  <2>2. ASSUME NEW s \in (SUBSET S) \ {{}}, iter[s \ {pick[s]}] \in Fam[s \ {pick[s]}]
        PROVE iter[s] \in Fam[s]
    <3> DEFINE x == pick[s]
               e == iter[s \ {x}]
               e2 == iter[s]
    <3>1. x \in s /\ Place(r, x, size) /\ r \in Region
      <4> HIDE DEF pick
      <4> QED BY <1>1, PlaceIs DEF Picks
    <3>2. e2 = Topified(e, r, x, size)
      BY <1>9
    <3>3. Good(e, s \ {x})
      <4> HIDE DEF Good, iter, pick
      <4> QED BY <2>2
    <3> HIDE DEF x, e, e2, iter
    <3>4. e \in Accs
      BY <3>3
    <3>5. /\ e2 \in Accs /\ e.cases \subseteq e2.cases
          /\ "suffix" \notin e2.cases => Weakly(e.fields, e2.fields) /\ Vague(e2.fields, r, x, size)
      BY <3>1, <3>2, <3>4, TopifiedOk
    <3>6. ASSUME "suffix" \notin e2.cases PROVE Weakly(acc.fields, e2.fields) /\ \A o \in s : Vague(e2.fields, r, o, size)
      <4>1. /\ Weakly(acc.fields, e.fields) /\ \A o \in s \ {x} : Vague(e.fields, r, o, size)
            /\ Weakly(e.fields, e2.fields) /\ Vague(e2.fields, r, x, size)
        BY <3>3, <3>5, <3>6
      <4>2. Weakly(acc.fields, e2.fields)
        BY <4>1, WeaklyThen
      <4>3. \A o \in s \ {x} : Vague(e2.fields, r, o, size)
        BY <3>1, <4>1, VagueStays
      <4>4. QED
        BY <4>1, <4>2, <4>3
    <3>7. Good(e2, s)
      BY <3>3, <3>5, <3>6
    <3> HIDE DEF Good
    <3>8. QED
      BY <3>5, <3>7 DEF e2
  <2> HIDE DEF Fam, pick, iter
  <2>3. QED
    BY <1>1, <2>1, <2>2, FoldStays
<1>11. Good(iter[S], S)
  <2> HIDE DEF Good, iter
  <2> QED BY <1>10
<1>12. QED
  <2> HIDE DEF iter
  <2> QED BY <1>7, <1>11

\* The others become fields, one beside the other.
LEMMA LocatedAllOk ==
  ASSUME NEW acc \in Accs, NEW r, NEW size, NEW S \in SUBSET Int, IsFiniteSet(S), \A o \in S : Place(r, o, size),
         \A o, o2 \in S : o2 > o => o2 >= o + size,
         NEW res, res = LocatedAll(acc, r, size, S)
  PROVE  /\ res \in Accs /\ acc.cases \subseteq res.cases
         /\ \A o \in S : HasField(res.fields, r, o, size)
         /\ "suffix" \notin res.cases /\ "gap" \notin res.cases => Weakly(acc.fields, res.fields)
         /\ \A o : S = {o} => res = Located(acc, r, o, size)
<1> DEFINE M == Accs
           step(e, x) == Located(e, r, x, size)
           pick == [s \in SUBSET S |-> Max(s)]
           Op == [z \in S \X M |-> step(z[2], z[1])]
           Body(F, s) == IF s = {} THEN acc ELSE step(F[s \ {Max(s)}], Max(s))
           iter == CHOOSE F : F = [s \in SUBSET S |-> Body(F, s)]
<1>1. Picks(pick, S)
  BY MaxPicks
<1>2. ASSUME NEW x \in S, NEW e \in M PROVE step(e, x) \in M
  BY <1>2, LocatedOk
<1>3. \A x \in S, e \in M : Op[<<x, e>>] = step(e, x)
  <2> HIDE DEF step, M
  <2> QED OBVIOUS
<1>4. PICK F : IsFold(F, S, pick, acc, Op) /\ \A s \in SUBSET S : F[s] \in M
  <2>1. \A x \in S, e \in M : Op[<<x, e>>] \in M
    BY <1>2, <1>3
  <2>2. acc \in M
    OBVIOUS
  <2> HIDE DEF pick, Op, M
  <2>3. QED
    BY <1>1, <2>1, <2>2, FoldIn
<1>5. F = [s \in SUBSET S |-> Body(F, s)]
  <2>1. F = [s \in SUBSET S |-> IF s = {} THEN acc ELSE Op[<<pick[s], F[s \ {pick[s]}]>>]]
    BY <1>4 DEF IsFold
  <2>2. ASSUME NEW s \in SUBSET S, s # {} PROVE Op[<<pick[s], F[s \ {pick[s]}]>>] = Body(F, s)
    <3>1. pick[s] = Max(s) /\ pick[s] \in S
      BY <1>1, <2>2 DEF Picks
    <3>2. F[s \ {pick[s]}] \in M
      BY <1>4
    <3> HIDE DEF Op, pick, step, M
    <3>3. QED
      BY <1>3, <2>2, <3>1, <3>2
  <2> HIDE DEF Op, pick, step, M
  <2>3. QED
    BY <2>1, <2>2
<1>6. iter = [s \in SUBSET S |-> Body(iter, s)]
  <2> HIDE DEF Body
  <2> QED BY <1>5, Zenon
<1>7. res = iter[S]
  BY Zenon DEF LocatedAll, Ascending, MapThenFoldSet
<1>8. iter[{}] = acc
  <2> HIDE DEF iter, step
  <2> QED BY <1>6
<1>9. ASSUME NEW s \in (SUBSET S) \ {{}} PROVE iter[s] = step(iter[s \ {pick[s]}], pick[s])
  <2>1. iter[s] = Body(iter, s)
    <3> HIDE DEF iter, Body
    <3> QED BY <1>6
  <2>2. pick[s] = Max(s)
    OBVIOUS
  <2> HIDE DEF iter, step, pick
  <2>3. QED
    BY <2>1, <2>2
<1> DEFINE Good(e, s) == /\ e \in Accs /\ acc.cases \subseteq e.cases
                         /\ \A o \in s : HasField(e.fields, r, o, size)
                         /\ "suffix" \notin e.cases /\ "gap" \notin e.cases => Weakly(acc.fields, e.fields)
           Fam == [s \in SUBSET S |-> {e \in Accs : Good(e, s)}]
<1>10. \A s \in SUBSET S : iter[s] \in Fam[s]
  <2>1. iter[{}] \in Fam[{}]
    <3>1. Good(acc, {})
      BY DEF Weakly, Weaker
    <3> HIDE DEF Good, iter
    <3>2. QED
      BY <1>8, <3>1
  <2>2. ASSUME NEW s \in (SUBSET S) \ {{}}, iter[s \ {pick[s]}] \in Fam[s \ {pick[s]}]
        PROVE iter[s] \in Fam[s]
    <3> DEFINE x == pick[s]
               e == iter[s \ {x}]
               e2 == iter[s]
    <3>1. x \in s /\ Place(r, x, size) /\ r \in Region
      <4> HIDE DEF pick
      <4> QED BY <1>1, PlaceIs DEF Picks
    <3>2. e2 = Located(e, r, x, size)
      BY <1>9
    <3>3. Good(e, s \ {x})
      <4> HIDE DEF Good, iter, pick
      <4> QED BY <2>2
    <3>4. \A o \in s \ {x} : o + size <= x
      <4>1. IsFiniteSet(s) /\ s \in SUBSET Int
        BY FS_Subset
      <4>2. \A o \in s : o <= Max(s)
        BY <4>1, Extremes
      <4>3. x = Max(s) /\ x \in s /\ size \in Nat
        BY <3>1, PlaceIs
      <4> HIDE DEF x
      <4>4. QED
        BY <4>1, <4>2, <4>3
    <3> HIDE DEF x, e, e2, iter
    <3>5. e \in Accs /\ e.fields \in Layouts
      BY <3>3, AccIs
    <3>6. /\ e2 \in Accs /\ e.cases \subseteq e2.cases
          /\ HasField(e2.fields, r, x, size) /\ Kept(e.fields, e2.fields, r, x, size)
          /\ "suffix" \notin e2.cases /\ "gap" \notin e2.cases => Weakly(e.fields, e2.fields)
      BY <3>1, <3>2, <3>5, LocatedOk
    <3>7. \A o \in s : HasField(e2.fields, r, o, size)
      <4>1. SUFFICES ASSUME NEW o \in s \ {x} PROVE HasField(e2.fields, r, o, size)
        BY <3>6
      <4>2. HasField(e.fields, r, o, size)
        BY <3>3
      <4>3. o \in DOMAIN e.fields[r].out /\ e.fields[r].out[o].size = size /\ Ends(e.fields[r].out, o) <= x
        BY <3>4, <4>2 DEF HasField, Ends
      <4>4. QED
        BY <3>1, <3>6, <4>3 DEF Kept
    <3>8. ASSUME "suffix" \notin e2.cases, "gap" \notin e2.cases PROVE Weakly(acc.fields, e2.fields)
      <4>1. Weakly(acc.fields, e.fields) /\ Weakly(e.fields, e2.fields)
        BY <3>3, <3>6, <3>8
      <4>2. QED
        BY <4>1, WeaklyThen
    <3>9. Good(e2, s)
      BY <3>3, <3>6, <3>7, <3>8
    <3> HIDE DEF Good
    <3>10. QED
      BY <3>6, <3>9 DEF e2
  <2> HIDE DEF Fam, pick, iter
  <2>3. QED
    BY <1>1, <2>1, <2>2, FoldStays
<1>11. Good(iter[S], S)
  <2> HIDE DEF Good, iter
  <2> QED BY <1>10
<1>12. ASSUME NEW o, S = {o} PROVE iter[S] = Located(acc, r, o, size)
  <2>1. pick[S] = o /\ S \ {pick[S]} = {} /\ S \in (SUBSET S) \ {{}}
    <3> HIDE DEF pick
    <3>1. pick[S] \in S
      BY <1>1, <1>12 DEF Picks
    <3>2. QED
      BY <1>12, <3>1
  <2>2. iter[S] = step(iter[S \ {pick[S]}], pick[S])
    <3> HIDE DEF iter, step, pick
    <3> QED BY <1>9, <2>1
  <2> HIDE DEF iter, pick
  <2>3. QED
    BY <1>8, <2>1, <2>2
<1>13. QED
  <2> HIDE DEF iter
  <2> QED BY <1>7, <1>11, <1>12

RenewedAll(fields, r, src, target, S) ==
  LET update(f, o) == Renewed(f, r, o, src, target)
  IN  Ascending(update, fields, S)

\* Each of them may be the one that is written; if it is the only one, it is.
LEMMA RenewedAllOk ==
  ASSUME NEW fields \in Layouts, NEW src \in Sources, NEW size, size = SizeOf(src), NEW r,
         NEW S \in SUBSET Int, IsFiniteSet(S), \A o \in S : Place(r, o, size) /\ HasField(fields, r, o, size),
         NEW target, NEW res, res = RenewedAll(fields, r, src, target, S)
  PROVE  /\ res \in Layouts
         /\ ~IsStrong(target) => Weakly(fields, res) /\ \A o \in S : Writes(fields, res, r, o, src)
         /\ \A o : S = {o} => res = Renewed(fields, r, o, src, target)
<1> DEFINE M == {f \in Layouts : \A o \in S : HasField(f, r, o, size)}
           step(e, x) == Renewed(e, r, x, src, target)
           pick == [s \in SUBSET S |-> Max(s)]
           Op == [z \in S \X M |-> step(z[2], z[1])]
           Body(F, s) == IF s = {} THEN fields ELSE step(F[s \ {Max(s)}], Max(s))
           iter == CHOOSE F : F = [s \in SUBSET S |-> Body(F, s)]
<1>1. Picks(pick, S)
  BY MaxPicks
<1>2. ASSUME NEW x \in S, NEW e \in M PROVE step(e, x) \in M
  <2>1. x \in Int /\ Place(r, x, size) /\ r \in Region
    BY PlaceIs
  <2>2. e \in Layouts /\ \A o \in S : HasField(e, r, o, size)
    BY <1>2
  <2>3. step(e, x) \in Layouts /\ \A r2 \in Region : \A p, s : HasField(e, r2, p, s) => HasField(step(e, x), r2, p, s)
    BY <2>1, <2>2, RenewedOk
  <2> HIDE DEF step
  <2>4. QED
    BY <2>1, <2>2, <2>3
<1>3. \A x \in S, e \in M : Op[<<x, e>>] = step(e, x)
  <2> HIDE DEF step, M
  <2> QED OBVIOUS
<1>4. PICK F : IsFold(F, S, pick, fields, Op) /\ \A s \in SUBSET S : F[s] \in M
  <2>1. \A x \in S, e \in M : Op[<<x, e>>] \in M
    BY <1>2, <1>3
  <2>2. fields \in M
    OBVIOUS
  <2> HIDE DEF pick, Op, M
  <2>3. QED
    BY <1>1, <2>1, <2>2, FoldIn
<1>5. F = [s \in SUBSET S |-> Body(F, s)]
  <2>1. F = [s \in SUBSET S |-> IF s = {} THEN fields ELSE Op[<<pick[s], F[s \ {pick[s]}]>>]]
    BY <1>4 DEF IsFold
  <2>2. ASSUME NEW s \in SUBSET S, s # {} PROVE Op[<<pick[s], F[s \ {pick[s]}]>>] = Body(F, s)
    <3>1. pick[s] = Max(s) /\ pick[s] \in S
      BY <1>1, <2>2 DEF Picks
    <3>2. F[s \ {pick[s]}] \in M
      BY <1>4
    <3> HIDE DEF Op, pick, step, M
    <3>3. QED
      BY <1>3, <2>2, <3>1, <3>2
  <2> HIDE DEF Op, pick, step, M
  <2>3. QED
    BY <2>1, <2>2
<1>6. iter = [s \in SUBSET S |-> Body(iter, s)]
  <2> HIDE DEF Body
  <2> QED BY <1>5, Zenon
<1>7. res = iter[S]
  BY Zenon DEF RenewedAll, Ascending, MapThenFoldSet
<1>8. iter[{}] = fields
  <2> HIDE DEF iter, step
  <2> QED BY <1>6
<1>9. ASSUME NEW s \in (SUBSET S) \ {{}} PROVE iter[s] = step(iter[s \ {pick[s]}], pick[s])
  <2>1. iter[s] = Body(iter, s)
    <3> HIDE DEF iter, Body
    <3> QED BY <1>6
  <2>2. pick[s] = Max(s)
    OBVIOUS
  <2> HIDE DEF iter, step, pick
  <2>3. QED
    BY <2>1, <2>2
<1> DEFINE Good(e, s) == /\ e \in M
                         /\ ~IsStrong(target) => Weakly(fields, e) /\ \A o \in s : Writes(fields, e, r, o, src)
           Fam == [s \in SUBSET S |-> {e \in M : Good(e, s)}]
<1>10. \A s \in SUBSET S : iter[s] \in Fam[s]
  <2>1. iter[{}] \in Fam[{}]
    <3>1. fields \in M
      OBVIOUS
    <3> HIDE DEF M
    <3>2. Good(fields, {})
      BY <3>1 DEF Weakly, Weaker
    <3> HIDE DEF Good, iter
    <3>3. QED
      BY <1>8, <3>1, <3>2
  <2>2. ASSUME NEW s \in (SUBSET S) \ {{}}, iter[s \ {pick[s]}] \in Fam[s \ {pick[s]}]
        PROVE iter[s] \in Fam[s]
    <3> DEFINE x == pick[s]
               e == iter[s \ {x}]
               e2 == iter[s]
    <3>1. x \in s /\ x \in S /\ Place(r, x, size) /\ r \in Region /\ \A o \in s : Place(r, o, size)
      <4> HIDE DEF pick
      <4> QED BY <1>1, PlaceIs DEF Picks
    <3>2. e2 = Renewed(e, r, x, src, target)
      BY <1>9
    <3>3. Good(e, s \ {x})
      <4> HIDE DEF Good, iter, pick
      <4> QED BY <2>2
    <3>4. e2 \in M
      <4>1. e2 = step(e, x)
        BY <3>2
      <4> HIDE DEF e2, e, x, step
      <4>2. QED
        BY <1>2, <3>1, <3>3, <4>1
    <3> HIDE DEF x, e, e2, iter
    <3>5. e \in Layouts /\ HasField(e, r, x, size)
      BY <3>1, <3>3
    <3>6. ASSUME ~IsStrong(target) PROVE Weakly(fields, e2) /\ \A o \in s : Writes(fields, e2, r, o, src)
      <4>1. Weakly(fields, e) /\ \A o \in s \ {x} : Writes(fields, e, r, o, src)
        BY <3>3, <3>6
      <4>2. Weakly(e, e2) /\ Writes(e, e2, r, x, src)
        BY <3>1, <3>2, <3>5, <3>6, RenewedOk
      <4>3. Weakly(fields, e2)
        BY <4>1, <4>2, WeaklyThen
      <4>4. Writes(fields, e2, r, x, src)
        BY <3>1, <4>1, <4>2, WritesThen
      <4>5. \A o \in s \ {x} : Writes(fields, e2, r, o, src)
        BY <3>1, <4>1, <4>2, WritesThen
      <4>6. QED
        BY <4>3, <4>4, <4>5
    <3> HIDE DEF M
    <3>7. Good(e2, s)
      BY <3>4, <3>6
    <3> HIDE DEF Good
    <3>8. QED
      BY <3>4, <3>7 DEF e2
  <2> HIDE DEF Fam, pick, iter
  <2>3. QED
    BY <1>1, <2>1, <2>2, FoldStays
<1>11. Good(iter[S], S)
  <2> HIDE DEF Good, iter
  <2> QED BY <1>10
<1>12. ASSUME NEW o, S = {o} PROVE iter[S] = Renewed(fields, r, o, src, target)
  <2>1. pick[S] = o /\ S \ {pick[S]} = {} /\ S \in (SUBSET S) \ {{}}
    <3> HIDE DEF pick
    <3>1. pick[S] \in S
      BY <1>1, <1>12 DEF Picks
    <3>2. QED
      BY <1>12, <3>1
  <2>2. iter[S] = step(iter[S \ {pick[S]}], pick[S])
    <3> HIDE DEF iter, step, pick
    <3> QED BY <1>9, <2>1
  <2> HIDE DEF iter, pick
  <2>3. QED
    BY <1>8, <2>1, <2>2
<1>13. QED
  <2> HIDE DEF iter
  <2> QED BY <1>7, <1>11, <1>12

\* Accesses overlap each other or are among the others, which are apart.
LEMMA OverlappingsAre ==
  ASSUME NEW S \in SUBSET Nat, IsFiniteSet(S), S # {}, NEW size \in Size, NEW found, found = Overlappings(S, size)
  PROVE  /\ found.overlapping \subseteq S /\ found.other \subseteq S
         /\ \A o \in S : o \in found.overlapping \/ o \in found.other
         /\ \A o, o2 \in found.other : o2 > o => o2 >= o + size
         /\ \A o : S = {o} => found.overlapping = {} /\ found.other = {o}
<1> DEFINE Next1(o) == Min({o2 \in S : o2 > o})
           close == {o \in S \ {Max(S)} : Next1(o) < o + size}
           overlapping == close \cup {Next1(o) : o \in close}
           other == (S \ (close \cup {Max(S)})) \cup ({Max(S)} \ overlapping)
<1>1. found = [overlapping |-> overlapping, other |-> other]
  BY Zenon DEF Overlappings
<1>2. found.overlapping = overlapping /\ found.other = other
  <2> HIDE DEF overlapping, other
  <2> QED BY <1>1
<1>3. S \subseteq Int /\ Max(S) \in S /\ \A x \in S : x <= Max(S)
  BY Extremes
<1>4. ASSUME NEW o \in S, o # Max(S) PROVE Next1(o) \in S /\ \A o2 \in S : o2 > o => Next1(o) <= o2
  <2> DEFINE above == {o2 \in S : o2 > o}
  <2>1. Max(S) > o
    <3>1. o \in Int /\ Max(S) \in Int /\ o <= Max(S)
      BY <1>3, <1>4
    <3>2. QED
      BY <1>4, <3>1
  <2>2. above \in SUBSET Int /\ IsFiniteSet(above) /\ above # {}
    BY <1>3, <2>1, FS_Subset
  <2> HIDE DEF above
  <2>3. Min(above) \in above /\ \A x \in above : Min(above) <= x
    BY <2>2, Extremes
  <2>4. QED
    BY <2>3 DEF above
<1> HIDE DEF Next1
<1>5. overlapping \subseteq S /\ other \subseteq S
  BY <1>3, <1>4
<1>6. \A o \in S : o \in overlapping \/ o \in other
  OBVIOUS
<1>7. ASSUME NEW o \in other, NEW o2 \in other, o2 > o PROVE o2 >= o + size
  <2>1. o \in S /\ o2 \in S /\ o2 \in Int /\ o \in Int /\ size \in Int
    BY <1>3, <1>5 DEF Size
  <2>2. o # Max(S)
    BY <1>3, <1>7, <2>1
  <2>3. o \notin close
    BY <1>7, <2>2
  <2>4. ~(Next1(o) < o + size)
    BY <2>1, <2>2, <2>3
  <2>5. Next1(o) \in Int /\ Next1(o) <= o2
    BY <1>3, <1>4, <1>7, <2>1, <2>2
  <2>6. QED
    BY <2>1, <2>4, <2>5
<1>8. ASSUME NEW o, S = {o} PROVE overlapping = {} /\ other = {o}
  <2>1. Max(S) = o
    BY <1>3, <1>8
  <2>2. close = {}
    BY <1>8, <2>1
  <2>3. QED
    BY <1>8, <2>1, <2>2
<1>9. QED
  BY <1>2, <1>5, <1>6, <1>7, <1>8

RegionUpdated(acc, r, target, src) == UpdateRegion(acc, r, target[r], src, IsStrong(target))

LEMMA RegionUpdatedIs ==
  ASSUME NEW acc, NEW r, NEW target, NEW src,
         NEW found, found = Overlappings(target[r], SizeOf(src)),
         NEW a, a = TopifiedAll(acc, r, SizeOf(src), found.overlapping),
         NEW b, b = LocatedAll(a, r, SizeOf(src), found.other)
  PROVE  RegionUpdated(acc, r, target, src) = [b EXCEPT !.fields = RenewedAll(b.fields, r, src, target, found.other)]
<1> DEFINE F == Overlappings(target[r], SizeOf(src))
           A == TopifiedAll(acc, r, SizeOf(src), F.overlapping)
           B == LocatedAll(A, r, SizeOf(src), F.other)
<1>1. RegionUpdated(acc, r, target, src) = [B EXCEPT !.fields = RenewedAll(B.fields, r, src, target, F.other)]
  BY Zenon DEF RegionUpdated, UpdateRegion, Updated, TopifiedAll, LocatedAll, RenewedAll, Renewed, Ascending, MapThenFoldSet
<1>2. found = F
  OBVIOUS
<1>3. a = A
  BY <1>2
<1>4. b = B
  BY <1>2, <1>3
<1> HIDE DEF A, B, F
<1>5. QED
  BY <1>1, <1>2, <1>4

\* A target of an instruction: some offsets in some regions, all within the model's cells.
IsTarget(target, size) ==
  /\ IsFiniteSet(DOMAIN target) /\ DOMAIN target # {} /\ DOMAIN target \subseteq Derefs
  /\ \A r \in DOMAIN target :
       /\ IsFiniteSet(target[r]) /\ target[r] \in (SUBSET Nat) \ {{}}
       /\ \A o \in target[r] : Place(r, o, size)

\* What updating a region does: perhaps one of the accesses is written; if there is only
\* one in all, it is.
LEMMA RegionUpdatedOk ==
  ASSUME NEW acc \in Accs, NEW src \in Sources, NEW target, IsTarget(target, SizeOf(src)), NEW r \in DOMAIN target,
         NEW res, res = RegionUpdated(acc, r, target, src)
  PROVE  /\ res \in Accs /\ acc.cases \subseteq res.cases
         /\ "suffix" \notin res.cases /\ "gap" \notin res.cases /\ ~IsStrong(target) =>
              Weakly(acc.fields, res.fields) /\ \A o \in target[r] : Writes(acc.fields, res.fields, r, o, src)
         /\ "suffix" \notin res.cases /\ IsStrong(target) =>
              \A o \in target[r] : Writes(acc.fields, res.fields, r, o, src)
<1> DEFINE size == SizeOf(src)
           S == target[r]
           found == Overlappings(S, size)
           a == TopifiedAll(acc, r, size, found.overlapping)
           b == LocatedAll(a, r, size, found.other)
           f2 == RenewedAll(b.fields, r, src, target, found.other)
<1>1. res = [b EXCEPT !.fields = f2]
  BY RegionUpdatedIs
<1>2. /\ IsFiniteSet(S) /\ S \in (SUBSET Nat) \ {{}} /\ S \in SUBSET Int /\ size \in Size
      /\ r \in Derefs /\ r \in Region /\ \A o \in S : Place(r, o, size)
  BY SourceIs DEF IsTarget, Region
<1> HIDE DEF S, size
<1>3. /\ found.overlapping \subseteq S /\ found.other \subseteq S
      /\ \A o \in S : o \in found.overlapping \/ o \in found.other
      /\ \A o, o2 \in found.other : o2 > o => o2 >= o + size
      /\ \A o : S = {o} => found.overlapping = {} /\ found.other = {o}
  <2>1. found = Overlappings(S, size)
    OBVIOUS
  <2> HIDE DEF found
  <2>2. QED
    BY <1>2, <2>1, OverlappingsAre
<1> HIDE DEF found
<1>4. /\ found.overlapping \in SUBSET Int /\ IsFiniteSet(found.overlapping) /\ \A o \in found.overlapping : Place(r, o, size)
      /\ found.other \in SUBSET Int /\ IsFiniteSet(found.other) /\ \A o \in found.other : Place(r, o, size)
  BY <1>2, <1>3, FS_Subset
<1>5. /\ a \in Accs /\ acc.cases \subseteq a.cases
      /\ "suffix" \notin a.cases =>
           Weakly(acc.fields, a.fields) /\ \A o \in found.overlapping : Vague(a.fields, r, o, size)
  <2>1. a = TopifiedAll(acc, r, size, found.overlapping)
    OBVIOUS
  <2> HIDE DEF a
  <2>2. QED
    BY <1>4, <2>1, TopifiedAllOk
<1>6. /\ b \in Accs /\ a.cases \subseteq b.cases
      /\ \A o \in found.other : HasField(b.fields, r, o, size)
      /\ "suffix" \notin b.cases /\ "gap" \notin b.cases => Weakly(a.fields, b.fields)
  <2>1. b = LocatedAll(a, r, size, found.other)
    OBVIOUS
  <2> HIDE DEF a, b
  <2>2. QED
    BY <1>3, <1>4, <1>5, <2>1, LocatedAllOk
<1>7. b.fields \in Layouts /\ b.cases \subseteq CaseNames /\ b = [fields |-> b.fields, cases |-> b.cases]
  <2> HIDE DEF b
  <2> QED BY <1>6 DEF Accs
<1>8. /\ f2 \in Layouts
      /\ ~IsStrong(target) => Weakly(b.fields, f2) /\ \A o \in found.other : Writes(b.fields, f2, r, o, src)
      /\ \A o : found.other = {o} => f2 = Renewed(b.fields, r, o, src, target)
  <2>1. f2 = RenewedAll(b.fields, r, src, target, found.other)
    OBVIOUS
  <2>2. size = SizeOf(src)
    BY DEF size
  <2>3. \A o \in found.other : Place(r, o, size) /\ HasField(b.fields, r, o, size)
    BY <1>4, <1>6
  <2> HIDE DEF b, f2
  <2>4. found.other \in SUBSET Int /\ IsFiniteSet(found.other) /\ b.fields \in Layouts
    BY <1>4, <1>7
  <2>5. f2 \in Layouts
    BY <2>1, <2>2, <2>3, <2>4, RenewedAllOk
  <2>6. ~IsStrong(target) => Weakly(b.fields, f2) /\ \A o \in found.other : Writes(b.fields, f2, r, o, src)
    BY <2>1, <2>2, <2>3, <2>4, RenewedAllOk
  <2>7. \A o : found.other = {o} => f2 = Renewed(b.fields, r, o, src, target)
    <3> DEFINE U == found.other
               f1 == b.fields
    <3>1. f1 \in Layouts /\ U \in SUBSET Int /\ IsFiniteSet(U) /\ f2 = RenewedAll(f1, r, src, target, U)
          /\ \A o \in U : Place(r, o, size) /\ HasField(f1, r, o, size)
      BY <2>1, <2>3, <2>4
    <3> HIDE DEF U, f1
    <3>2. ASSUME NEW o, U = {o} PROVE f2 = Renewed(f1, r, o, src, target)
      BY <2>2, <3>1, <3>2, RenewedAllOk
    <3>3. QED
      BY <3>2 DEF U, f1
  <2>8. QED
    BY <2>5, <2>6, <2>7
<1>9. res.fields = f2 /\ res.cases = b.cases /\ res \in Accs
  <2> HIDE DEF b, f2
  <2>1. res = [fields |-> f2, cases |-> b.cases]
    BY <1>1, <1>7
  <2>2. QED
    BY <1>7, <1>8, <2>1 DEF Accs
<1> HIDE DEF a, b, f2
<1>10. acc.cases \subseteq res.cases
  BY <1>5, <1>6, <1>9
<1>11. size = SizeOf(src)
  BY DEF size
<1>12. ASSUME "suffix" \notin res.cases, "gap" \notin res.cases, ~IsStrong(target)
       PROVE  Weakly(acc.fields, res.fields) /\ \A o \in S : Writes(acc.fields, res.fields, r, o, src)
  <2>1. Weakly(acc.fields, a.fields) /\ Weakly(a.fields, b.fields) /\ Weakly(b.fields, f2)
    BY <1>5, <1>6, <1>8, <1>9, <1>12
  <2>2. Weakly(acc.fields, b.fields) /\ Weakly(a.fields, f2) /\ Weakly(acc.fields, f2)
    BY <2>1, WeaklyThen
  <2>3. ASSUME NEW o \in S PROVE Writes(acc.fields, f2, r, o, src)
    <3>1. Place(r, o, SizeOf(src))
      BY <1>2, <1>11
    <3>2. CASE o \in found.overlapping
      <4>1. Vague(a.fields, r, o, size)
        BY <1>5, <1>6, <1>9, <1>12, <3>2
      <4>2. Writes(a.fields, a.fields, r, o, src)
        BY <1>11, <3>1, <4>1, VagueWrites
      <4>3. Writes(acc.fields, a.fields, r, o, src)
        BY <2>1, <3>1, <4>2, WritesThen
      <4>4. QED
        BY <2>2, <3>1, <4>3, WritesThen
    <3>3. CASE o \in found.other
      <4>1. Writes(b.fields, f2, r, o, src)
        BY <1>8, <1>12, <3>3
      <4>2. QED
        BY <2>2, <3>1, <4>1, WritesThen
    <3>4. QED
      BY <1>3, <3>2, <3>3
  <2>4. QED
    BY <1>9, <2>2, <2>3
<1>13. ASSUME "suffix" \notin res.cases, IsStrong(target), NEW o \in S PROVE Writes(acc.fields, res.fields, r, o, src)
  <2>1. S = {o}
    <3>1. Cardinality(S) = 1
      BY <1>13 DEF IsStrong, S
    <3>2. QED
      BY <1>2, <1>13, <3>1, OnlyOne
  <2>2. found.overlapping = {} /\ found.other = {o}
    BY <1>3, <2>1
  <2>3. f2 = Renewed(b.fields, r, o, src, target) /\ HasField(b.fields, r, o, size) /\ Place(r, o, size)
    BY <1>2, <1>6, <1>8, <2>2
  <2>4. b = Located(a, r, o, size)
    BY <1>4, <1>5, <2>2, LocatedAllOk DEF b
  <2>5. Weakly(acc.fields, a.fields) /\ OutsideWeaker(a.fields, b.fields, r, o, size)
    BY <1>5, <1>6, <1>9, <1>13, <2>3, <2>4, LocatedOk
  <2>6. SUFFICES ASSUME NEW m \in Memories, MemFits(acc.fields, m)
                 PROVE  MemFits(f2, Written(m, r, o, SourceContent(m, src)))
    BY <1>9 DEF Writes
  <2>7. MemFits(a.fields, m)
    BY <2>5, <2>6, StillFits
  <2>8. OutsideFits(b.fields, m, r, o, size)
    BY <2>5, <2>7, StillFitsOutside
  <2>9. SourceFits(b.fields, m, src)
    <3>1. CASE src.kind = "digits"
      BY <3>1 DEF SourceFits
    <3>2. CASE src.kind = "range" /\ src.range \in Ranges
      <4>1. src.range[1] \in Registers /\ src.range[1] \in Region /\ src.range[1] # r
        BY <1>2, <3>2, RangeIs, SummaryMemoryAssumption DEF SummaryMemoryAssumption, Region
      <4>2. InsideFits(b.fields, m, src.range[1], src.range[2], src.range[3])
        BY <2>8, <4>1 DEF OutsideFits, InsideFits
      <4>3. QED
        BY <4>2 DEF SourceFits
    <3>3. QED
      BY <3>1, <3>2, SourceIs
  <2>10. QED
    BY <1>7, <1>11, <1>13, <2>3, <2>8, <2>9, RenewedOk
<1>14. QED
  BY <1>9, <1>10, <1>12, <1>13 DEF S

(* A store, and what a load reads *)

StoreAll(acc, target, src) ==
  FoldSet(LAMBDA r, a : UpdateRegion(a, r, target[r], src, IsStrong(target)), acc, DOMAIN target)

\* The fields that a store leaves cover the memory after each of the writes it may be.
LEMMA StoreAllOk ==
  ASSUME NEW acc \in Accs, NEW src \in Sources, NEW target, IsTarget(target, SizeOf(src)), NEW S, S = DOMAIN target,
         NEW res, res = StoreAll(acc, target, src)
  PROVE  /\ res \in Accs
         /\ "suffix" \notin res.cases /\ ("gap" \notin res.cases \/ IsStrong(target)) =>
              \A r \in S : \A o \in target[r] : Writes(acc.fields, res.fields, r, o, src)
<1>0. IsFiniteSet(S)
  BY DEF IsTarget
<1> DEFINE M == Accs
           step(e, x) == RegionUpdated(e, x, target, src)
           pick == [s \in SUBSET S |-> CHOOSE y \in s : TRUE]
           Op == [z \in S \X M |-> step(z[2], z[1])]
           Body(F, s) == IF s = {} THEN acc ELSE step(F[s \ {CHOOSE y \in s : TRUE}], CHOOSE y \in s : TRUE)
           iter == CHOOSE F : F = [s \in SUBSET S |-> Body(F, s)]
<1>1. Picks(pick, S)
  BY AnyPicks
<1>2. ASSUME NEW x \in S, NEW e \in M PROVE step(e, x) \in M
  BY <1>2, RegionUpdatedOk
<1>3. \A x \in S, e \in M : Op[<<x, e>>] = step(e, x)
  <2> HIDE DEF step, M
  <2> QED OBVIOUS
<1>4. PICK F : IsFold(F, S, pick, acc, Op) /\ \A s \in SUBSET S : F[s] \in M
  <2>1. \A x \in S, e \in M : Op[<<x, e>>] \in M
    BY <1>2, <1>3
  <2>2. acc \in M
    OBVIOUS
  <2> HIDE DEF pick, Op, M
  <2>3. QED
    BY <1>0, <1>1, <2>1, <2>2, FoldIn
<1>5. F = [s \in SUBSET S |-> Body(F, s)]
  <2>1. F = [s \in SUBSET S |-> IF s = {} THEN acc ELSE Op[<<pick[s], F[s \ {pick[s]}]>>]]
    BY <1>4 DEF IsFold
  <2>2. ASSUME NEW s \in SUBSET S, s # {} PROVE Op[<<pick[s], F[s \ {pick[s]}]>>] = Body(F, s)
    <3>1. pick[s] = (CHOOSE y \in s : TRUE) /\ pick[s] \in S
      BY <1>1, <2>2 DEF Picks
    <3>2. F[s \ {pick[s]}] \in M
      BY <1>4
    <3> HIDE DEF Op, pick, step, M
    <3>3. QED
      BY <1>3, <2>2, <3>1, <3>2
  <2> HIDE DEF Op, pick, step, M
  <2>3. QED
    BY <2>1, <2>2
<1>6. iter = [s \in SUBSET S |-> Body(iter, s)]
  <2> HIDE DEF Body
  <2> QED BY <1>5, Zenon
<1>7. res = iter[S]
  BY Zenon DEF StoreAll, RegionUpdated, FoldSet, MapThenFoldSet
<1>8. iter[{}] = acc
  <2> HIDE DEF iter, step
  <2> QED BY <1>6
<1>9. ASSUME NEW s \in (SUBSET S) \ {{}} PROVE iter[s] = step(iter[s \ {pick[s]}], pick[s])
  <2>1. iter[s] = Body(iter, s)
    <3> HIDE DEF iter, Body
    <3> QED BY <1>6
  <2>2. pick[s] = (CHOOSE y \in s : TRUE)
    OBVIOUS
  <2> HIDE DEF iter, step, pick
  <2>3. QED
    BY <2>1, <2>2
<1> DEFINE Good(e, s) == /\ e \in Accs
                         /\ "suffix" \notin e.cases /\ "gap" \notin e.cases /\ ~IsStrong(target) =>
                              /\ Weakly(acc.fields, e.fields)
                              /\ \A r \in s : \A o \in target[r] : Writes(acc.fields, e.fields, r, o, src)
           Fam == [s \in SUBSET S |-> {e \in Accs : Good(e, s)}]
<1>10. \A s \in SUBSET S : iter[s] \in Fam[s]
  <2>1. iter[{}] \in Fam[{}]
    <3>1. Good(acc, {})
      BY DEF Weakly, Weaker
    <3> HIDE DEF Good, iter
    <3>2. QED
      BY <1>8, <3>1
  <2>2. ASSUME NEW s \in (SUBSET S) \ {{}}, iter[s \ {pick[s]}] \in Fam[s \ {pick[s]}]
        PROVE iter[s] \in Fam[s]
    <3> DEFINE x == pick[s]
               e == iter[s \ {x}]
               e2 == iter[s]
    <3>1. x \in s /\ x \in DOMAIN target
      <4> HIDE DEF pick
      <4> QED BY <1>1 DEF Picks
    <3>2. e2 = RegionUpdated(e, x, target, src)
      <4> HIDE DEF pick, iter
      <4> QED BY <1>9
    <3>3. Good(e, s \ {x})
      <4> HIDE DEF Good, iter, pick
      <4> QED BY <2>2
    <3> HIDE DEF x, e, e2, iter
    <3>4. e \in Accs
      BY <3>3
    <3>5. /\ e2 \in Accs /\ e.cases \subseteq e2.cases
          /\ "suffix" \notin e2.cases /\ "gap" \notin e2.cases /\ ~IsStrong(target) =>
               Weakly(e.fields, e2.fields) /\ \A o \in target[x] : Writes(e.fields, e2.fields, x, o, src)
      BY <3>1, <3>2, <3>4, RegionUpdatedOk
    <3>6. ASSUME "suffix" \notin e2.cases, "gap" \notin e2.cases, ~IsStrong(target)
          PROVE  Weakly(acc.fields, e2.fields) /\ \A r \in s : \A o \in target[r] : Writes(acc.fields, e2.fields, r, o, src)
      <4>1. /\ Weakly(acc.fields, e.fields) /\ \A r \in s \ {x} : \A o \in target[r] : Writes(acc.fields, e.fields, r, o, src)
            /\ Weakly(e.fields, e2.fields) /\ \A o \in target[x] : Writes(e.fields, e2.fields, x, o, src)
        BY <3>3, <3>5, <3>6
      <4>2. Weakly(acc.fields, e2.fields)
        BY <4>1, WeaklyThen
      <4>3. \A r \in s : \A o \in target[r] : Place(r, o, SizeOf(src))
        BY DEF IsTarget
      <4>4. ASSUME NEW r \in s, NEW o \in target[r] PROVE Writes(acc.fields, e2.fields, r, o, src)
        <5>1. CASE r = x
          BY <4>1, <4>3, <5>1, WritesThen
        <5>2. CASE r # x
          BY <4>1, <4>3, <5>2, WritesThen
        <5>3. QED
          BY <5>1, <5>2
      <4>5. QED
        BY <4>2, <4>4
    <3>7. Good(e2, s)
      BY <3>5, <3>6
    <3> HIDE DEF Good
    <3>8. QED
      BY <3>5, <3>7 DEF e2
  <2> HIDE DEF Fam, pick, iter
  <2>3. QED
    BY <1>0, <1>1, <2>1, <2>2, FoldStays
<1>11. Good(iter[S], S)
  <2> HIDE DEF Good, iter
  <2> QED BY <1>10
<1>12. ASSUME IsStrong(target), "suffix" \notin iter[S].cases, NEW r \in S, NEW o \in target[r]
       PROVE  Writes(acc.fields, iter[S].fields, r, o, src)
  <2>1. S = {r}
    <3>1. Cardinality(S) = 1
      BY <1>12 DEF IsStrong
    <3>2. r \in S
      BY <1>12
    <3> HIDE DEF pick, Op, M, step, iter
    <3>3. QED
      BY <1>0, <3>1, <3>2, OnlyOne
  <2>2. pick[S] = r /\ S \ {pick[S]} = {} /\ S \in (SUBSET S) \ {{}}
    <3> HIDE DEF pick
    <3>1. pick[S] \in S
      BY <1>1, <2>1 DEF Picks
    <3>2. QED
      BY <2>1, <3>1
  <2>3. iter[S] = step(iter[S \ {pick[S]}], pick[S])
    <3> HIDE DEF iter, step, pick
    <3> QED BY <1>9, <2>2
  <2>4. iter[S] = RegionUpdated(acc, r, target, src)
    <3> HIDE DEF iter, pick
    <3> QED BY <1>8, <2>2, <2>3
  <2> HIDE DEF iter, pick
  <2>5. QED
    BY <1>12, <2>4, RegionUpdatedOk
<1>13. QED
  <2> HIDE DEF iter
  <2> QED BY <1>7, <1>11, <1>12

\* The content of the binary is what its cells hold.
LEMMA ReadStaticOk ==
  ASSUME NEW fields \in Layouts, NEW r, NEW off, NEW size, Place(r, off, size),
         NEW f2, f2 = ReadStatic(fields, r, off, size)
  PROVE  f2 \in Layouts /\ Weakly(fields, f2)
<1> DEFINE res == Look(fields, r, off, size)
           images == [i \in 1 .. size |-> Image]
<1>1. f2 = IF r \in Static THEN IF res.changed THEN SetVal(res.fields, r, off, images) ELSE fields ELSE fields
  BY DEF ReadStatic, Look
<1>2. fields \in Layouts /\ Weakly(fields, fields)
  BY DEF Weakly, Weaker
<1>3. res = Look(fields, r, off, size)
  OBVIOUS
<1> HIDE DEF res
<1>4. /\ Richer(fields, res.fields)
      /\ res.changed => /\ HasField(res.fields, r, off, size)
                        /\ \A c \in Int, v \in Cell : off <= c /\ c < off + size /\ Lets(fields, r, c, v) => v = Meaning(<<r, c>>)
  BY <1>3, LookOk
<1>5. CASE r \in Static /\ res.changed
  <2>1. f2 = SetVal(res.fields, r, off, images)
    BY <1>1, <1>5
  <2>2. r \in Region /\ off \in Int /\ size \in Nat \ {0}
    BY PlaceIs
  <2>3. Image \in Cell /\ Meaning(Image) = Image /\ \A c : Meaning(<<r, c>>) = Image
    <3>1. Numbers \notin Static
      BY SummaryMemoryAssumption DEF SummaryMemoryAssumption, Region
    <3>2. QED
      BY <1>5, <3>1 DEF Image, Digit, Cell, Meaning
  <2>4. images \in Seq(Cell) /\ Len(images) = size /\ \A i \in 1 .. size : images[i] = Image
    BY <2>2, <2>3
  <2>5. HasField(res.fields, r, off, size) /\ off \in DOMAIN res.fields[r].out /\ res.fields[r].out[off].size = size
    BY <1>4, <1>5 DEF HasField
  <2>6. \A c \in Int : Holds(res.fields[r].out, off, c) <=> (off <= c /\ c < off + size)
    BY <2>5 DEF Holds, Ends
  <2>7. res.fields \in Layouts /\ Weakly(fields, res.fields)
    BY <1>4 DEF Richer
  <2> HIDE DEF images
  <2>8. f2 \in Layouts
    BY <2>1, <2>2, <2>4, <2>5, <2>7, SetValIs
  <2>9. ASSUME NEW r2 \in Region, NEW c \in Int, NEW v \in Cell, Lets(fields, r2, c, v) PROVE Lets(f2, r2, c, v)
    <3>1. CASE r2 = r /\ off <= c /\ c < off + size
      <4>1. v = Image
        BY <1>4, <1>5, <2>3, <2>9, <3>1
      <4>2. c - off + 1 \in 1 .. size
        BY <2>2, <3>1
      <4>3. Tells(images, c - off + 1, v)
        BY <2>3, <2>4, <4>1, <4>2 DEF Tells
      <4>4. Holds(res.fields[r].out, off, c)
        BY <2>6, <3>1
      <4>5. QED
        BY <2>1, <2>2, <2>4, <2>5, <2>7, <3>1, <4>3, <4>4, SetValFits
    <3>2. CASE r2 # r \/ c < off \/ off + size <= c
      <4>1. Lets(res.fields, r2, c, v)
        BY <2>7, <2>9 DEF Weakly, Weaker
      <4>2. r2 # r \/ ~Holds(res.fields[r].out, off, c)
        BY <2>2, <2>6, <3>2
      <4>3. QED
        BY <2>1, <2>2, <2>4, <2>5, <2>7, <4>1, <4>2, SetValFits
    <3>3. QED
      BY <2>2, <3>1, <3>2
  <2>10. QED
    BY <2>8, <2>9 DEF Weakly, Weaker
<1>6. CASE ~(r \in Static /\ res.changed)
  <2>1. f2 = fields
    BY <1>1, <1>6
  <2>2. QED
    BY <1>2, <2>1
<1>7. QED
  BY <1>5, <1>6

ReadOne(fields, p, size) == Read(ReadStatic(fields, p[1], p[2], size), p[1], p[2], size).fields

LEMMA ReadOneOk ==
  ASSUME NEW fields \in Layouts, NEW p, NEW size, Place(p[1], p[2], size), NEW f2, f2 = ReadOne(fields, p, size)
  PROVE  f2 \in Layouts /\ Weakly(fields, f2)
<1> DEFINE f1 == ReadStatic(fields, p[1], p[2], size)
           res == Read(f1, p[1], p[2], size)
<1>1. f2 = res.fields
  BY DEF ReadOne
<1>2. f1 \in Layouts /\ Weakly(fields, f1)
  <2>1. f1 = ReadStatic(fields, p[1], p[2], size)
    OBVIOUS
  <2> HIDE DEF f1
  <2>2. QED
    BY <2>1, ReadStaticOk
<1>3. Richer(f1, res.fields)
  <2>1. res = Read(f1, p[1], p[2], size)
    OBVIOUS
  <2> HIDE DEF f1, res
  <2>2. QED
    BY <1>2, <2>1, ReadOk
<1> HIDE DEF f1, res
<1>4. QED
  BY <1>1, <1>2, <1>3, WeaklyThen DEF Richer

\* What is read keeps its meaning, whatever fields it makes.
LEMMA ReadAllOk ==
  ASSUME NEW fields \in Layouts, NEW S, IsFiniteSet(S), NEW size, \A p \in S : Place(p[1], p[2], size),
         NEW res, res = ReadAll(fields, S, size)
  PROVE  res \in Layouts /\ Weakly(fields, res)
<1> DEFINE M == {f \in Layouts : Weakly(fields, f)}
           step(e, x) == ReadOne(e, x, size)
           pick == [s \in SUBSET S |-> CHOOSE y \in s : TRUE]
           Op == [z \in S \X M |-> step(z[2], z[1])]
           Body(F, s) == IF s = {} THEN fields ELSE step(F[s \ {CHOOSE y \in s : TRUE}], CHOOSE y \in s : TRUE)
           iter == CHOOSE F : F = [s \in SUBSET S |-> Body(F, s)]
<1>1. Picks(pick, S)
  BY AnyPicks
<1>2. ASSUME NEW x \in S, NEW e \in M PROVE step(e, x) \in M
  <2>1. e \in Layouts /\ Weakly(fields, e) /\ Place(x[1], x[2], size)
    BY <1>2
  <2>2. step(e, x) \in Layouts /\ Weakly(e, step(e, x))
    BY <2>1, ReadOneOk
  <2>3. Weakly(fields, step(e, x))
    BY <2>1, <2>2, WeaklyThen
  <2>4. QED
    BY <2>2, <2>3
<1>3. \A x \in S, e \in M : Op[<<x, e>>] = step(e, x)
  <2> HIDE DEF step, M
  <2> QED OBVIOUS
<1>4. PICK F : IsFold(F, S, pick, fields, Op) /\ \A s \in SUBSET S : F[s] \in M
  <2>1. \A x \in S, e \in M : Op[<<x, e>>] \in M
    BY <1>2, <1>3
  <2>2. fields \in M
    BY DEF Weakly, Weaker
  <2> HIDE DEF pick, Op, M
  <2>3. QED
    BY <1>1, <2>1, <2>2, FoldIn
<1>5. F = [s \in SUBSET S |-> Body(F, s)]
  <2>1. F = [s \in SUBSET S |-> IF s = {} THEN fields ELSE Op[<<pick[s], F[s \ {pick[s]}]>>]]
    BY <1>4 DEF IsFold
  <2>2. ASSUME NEW s \in SUBSET S, s # {} PROVE Op[<<pick[s], F[s \ {pick[s]}]>>] = Body(F, s)
    <3>1. pick[s] = (CHOOSE y \in s : TRUE) /\ pick[s] \in S
      BY <1>1, <2>2 DEF Picks
    <3>2. F[s \ {pick[s]}] \in M
      BY <1>4
    <3> HIDE DEF Op, pick, step, M
    <3>3. QED
      BY <1>3, <2>2, <3>1, <3>2
  <2> HIDE DEF Op, pick, step, M
  <2>3. QED
    BY <2>1, <2>2
<1>6. iter = [s \in SUBSET S |-> Body(iter, s)]
  <2> HIDE DEF Body
  <2> QED BY <1>5, Zenon
<1>7. res = iter[S]
  BY Zenon DEF ReadAll, ReadOne, FoldSet, MapThenFoldSet
<1>8. iter[{}] = fields
  <2> HIDE DEF iter, step
  <2> QED BY <1>6
<1>9. ASSUME NEW s \in (SUBSET S) \ {{}} PROVE iter[s] = step(iter[s \ {pick[s]}], pick[s])
  <2>1. iter[s] = Body(iter, s)
    <3> HIDE DEF iter, Body
    <3> QED BY <1>6
  <2>2. pick[s] = (CHOOSE y \in s : TRUE)
    OBVIOUS
  <2> HIDE DEF iter, step, pick
  <2>3. QED
    BY <2>1, <2>2
<1>10. iter[S] \in M
  <2>1. ASSUME NEW s \in (SUBSET S) \ {{}}, iter[s \ {pick[s]}] \in M PROVE iter[s] \in M
    <3>1. pick[s] \in S
      <4> HIDE DEF pick
      <4> QED BY <1>1 DEF Picks
    <3>2. iter[s] = step(iter[s \ {pick[s]}], pick[s])
      <4> HIDE DEF iter, step, pick
      <4> QED BY <1>9
    <3> HIDE DEF iter, step, pick, M
    <3>3. QED
      BY <1>2, <2>1, <3>1, <3>2
  <2>2. fields \in M
    BY DEF Weakly, Weaker
  <2> HIDE DEF iter, pick, M
  <2>3. iter[{}] \in M
    BY <1>8, <2>2
  <2>4. QED
    BY <1>1, <2>1, <2>3, FoldEnds
<1>11. QED
  <2> HIDE DEF iter
  <2> QED BY <1>7, <1>10

(* The values that a load may read *)

LEMMA PlacesFinite ==
  ASSUME NEW D, IsFiniteSet(D), NEW target, \A r \in D : IsFiniteSet(target[r]),
         NEW places, places = UNION {{<<r, o>> : o \in target[r]} : r \in D}
  PROVE  IsFiniteSet(places)
<1>1. ASSUME NEW r \in D PROVE IsFiniteSet({<<r, o>> : o \in target[r]})
  <2> DEFINE T == {<<r, o>> : o \in target[r]}
             f == [o \in target[r] |-> <<r, o>>]
  <2>1. f \in Surjection(target[r], T)
    BY DEF Surjection
  <2> HIDE DEF f
  <2>2. QED
    BY <2>1, FS_Surjection
<1> DEFINE Rs == {{<<r, o>> : o \in target[r]} : r \in D}
           g == [r \in D |-> {<<r, o>> : o \in target[r]}]
<1>2. g \in Surjection(D, Rs)
  BY DEF Surjection
<1>3. IsFiniteSet(Rs)
  <2> HIDE DEF g, Rs
  <2> QED BY <1>2, FS_Surjection
<1>4. \A t \in Rs : IsFiniteSet(t)
  BY <1>1
<1>5. places = UNION Rs
  OBVIOUS
<1> HIDE DEF Rs
<1>6. QED
  BY <1>3, <1>4, <1>5, FS_UNION

LEMMA EitherIs ==
  ASSUME NEW vals, IsFiniteSet(vals), NEW val \in vals
  PROVE  Either(vals) = Top \/ Either(vals) = val
<1>1. CASE Cardinality(vals) = 1
  <2>1. vals = {val}
    BY <1>1, OnlyOne
  <2>2. QED
    BY <1>1, <2>1 DEF Either
<1>2. CASE Cardinality(vals) # 1
  BY <1>2 DEF Either
<1>3. QED
  BY <1>1, <1>2

(* The instructions *)

LEMMA OutsideStays ==
  ASSUME NEW f1, NEW f2, Weakly(f1, f2), NEW m \in Memories, NEW r, NEW off, NEW size, OutsideFits(f1, m, r, off, size)
  PROVE  OutsideFits(f2, m, r, off, size)
<1>1. SUFFICES ASSUME NEW r2 \in Region, NEW c \in Int, <<r2, c>> \in Space, r2 # r \/ c < off \/ off + size <= c
               PROVE  Lets(f2, r2, c, m[<<r2, c>>])
  BY DEF OutsideFits, FitsAt
<1>2. m[<<r2, c>>] \in Cell /\ Lets(f1, r2, c, m[<<r2, c>>])
  BY <1>1 DEF Memories, OutsideFits, FitsAt
<1>3. QED
  BY <1>2 DEF Weakly, Weaker

LEMMA AssignOk ==
  ASSUME NEW fields \in Layouts, NEW m \in Memories, MemFits(fields, m),
         NEW lhs \in Ranges, NEW src \in Sources, SizeOf(src) = lhs[3],
         NEW res, res = Make(fields, lhs[1], lhs[2], lhs[3]), res.case # "suffix",
         ~(res.case = "gap" /\ src.kind = "range" /\ Overlaps(lhs, src.range)),
         NEW rhs, rhs = ReadSource(res.fields, src),
         NEW f2, f2 = SetVal(rhs.fields, lhs[1], lhs[2], rhs.val),
         NEW m2, m2 = Written(m, lhs[1], lhs[2], SourceContent(m, src))
  PROVE  f2 \in Layouts /\ m2 \in Memories /\ MemFits(f2, m2)
<1> DEFINE r == lhs[1]
           off == lhs[2]
           size == lhs[3]
<1>1. Place(r, off, size) /\ res = Make(fields, r, off, size)
  BY RangeIs
<1>2. f2 = SetVal(rhs.fields, r, off, rhs.val) /\ m2 = Written(m, r, off, SourceContent(m, src)) /\ SizeOf(src) = size
  OBVIOUS
<1>3. ~(res.case = "gap" /\ src.kind = "range" /\ CellsOf(r, off, size) \cap CellsOf(src.range[1], src.range[2], src.range[3]) # {})
  BY DEF Overlaps
<1> HIDE DEF r, off, size
<1>4. /\ res.fields \in Layouts /\ HasField(res.fields, r, off, size) /\ res.case \in CaseNames
      /\ OutsideWeaker(fields, res.fields, r, off, size)
      /\ res.case # "gap" => Weakly(fields, res.fields)
  BY <1>1, MakeOk
<1>5. r \in Region /\ off \in Int /\ size \in Nat
  BY <1>1, PlaceIs
<1>6. OutsideFits(res.fields, m, r, off, size)
  BY <1>4, StillFitsOutside
<1>7. SourceFits(res.fields, m, src)
  <2>1. CASE res.case # "gap"
    BY <1>4, <2>1, StillFits, AllFitSource
  <2>2. CASE src.kind # "range"
    BY <2>2 DEF SourceFits
  <2>3. CASE src.kind = "range" /\ CellsOf(r, off, size) \cap CellsOf(src.range[1], src.range[2], src.range[3]) = {}
    <3> DEFINE r2 == src.range[1]
               o2 == src.range[2]
               s2 == src.range[3]
    <3>1. r2 \in Region /\ o2 \in Int /\ s2 \in Nat
      BY <2>3, SourceIs, RangeIs, PlaceIs
    <3>2. CellsOf(r, off, size) \cap CellsOf(r2, o2, s2) = {}
      BY <2>3
    <3> HIDE DEF r2, o2, s2
    <3>3. ASSUME NEW c \in Int, o2 <= c, c < o2 + s2 PROVE FitsAt(res.fields, m, r2, c)
      <4>1. <<r2, c>> \in CellsOf(r2, o2, s2)
        BY <3>1, <3>3 DEF CellsOf
      <4>2. <<r2, c>> \notin CellsOf(r, off, size)
        BY <3>2, <4>1
      <4>3. r2 # r \/ c < off \/ off + size <= c
        BY <1>5, <4>2 DEF CellsOf
      <4>4. QED
        BY <1>6, <3>1, <4>3 DEF OutsideFits
    <3>4. InsideFits(res.fields, m, r2, o2, s2)
      BY <3>3 DEF InsideFits
    <3>5. QED
      BY <3>4 DEF SourceFits, r2, o2, s2
  <2>4. QED
    BY <1>3, <2>1, <2>2, <2>3
<1>8. /\ Richer(res.fields, rhs.fields) /\ IsVal(rhs.val, size)
      /\ Told(rhs.val, SourceContent(m, src), size)
  BY <1>2, <1>4, <1>7, ReadSourceOk
<1>9. rhs.fields \in Layouts /\ Weakly(res.fields, rhs.fields) /\ HasField(rhs.fields, r, off, size)
  <2>1. HasField(rhs.fields, r, off, size)
    BY <1>4, <1>5, <1>8, RicherHas
  <2>2. QED
    BY <1>8, <2>1 DEF Richer
<1>10. OutsideFits(rhs.fields, m, r, off, size)
  BY <1>6, <1>9, OutsideStays
<1>11. SourceContent(m, src) \in Contents(size)
  BY <1>2, SourceContentIs
<1>12. f2 \in Layouts
  BY <1>2, <1>5, <1>8, <1>9, SetStays
<1>13. m2 \in Memories
  BY <1>1, <1>2, WrittenSource
<1>14. MemFits(f2, m2)
  BY <1>1, <1>2, <1>8, <1>9, <1>10, <1>11, WriteFits
<1>15. QED
  BY <1>12, <1>13, <1>14

LEMMA StoreOk ==
  ASSUME NEW fields \in Layouts, NEW m \in Memories, MemFits(fields, m),
         NEW src \in Sources, NEW target, IsTarget(target, SizeOf(src)),
         NEW base, base = [fields |-> ReadSource(fields, src).fields, cases |-> {}],
         NEW res, res = StoreAll(base, target, src), "suffix" \notin res.cases, "gap" \notin res.cases \/ IsStrong(target),
         NEW r \in DOMAIN target, NEW o \in target[r], NEW m2, m2 = Written(m, r, o, SourceContent(m, src))
  PROVE  res.fields \in Layouts /\ m2 \in Memories /\ MemFits(res.fields, m2)
<1> DEFINE rhs == ReadSource(fields, src)
<1>1. Richer(fields, rhs.fields)
  <2>1. rhs = ReadSource(fields, src)
    OBVIOUS
  <2> HIDE DEF rhs
  <2>2. QED
    BY <2>1, ReadSourceOk
<1>2. base = [fields |-> rhs.fields, cases |-> {}]
  OBVIOUS
<1> HIDE DEF rhs
<1>3. base \in Accs /\ Weakly(fields, base.fields)
  BY <1>1, <1>2 DEF Accs, Richer
<1>4. res \in Accs /\ Writes(base.fields, res.fields, r, o, src)
  <2> DEFINE S == DOMAIN target
  <2>1. S = DOMAIN target /\ r \in S
    OBVIOUS
  <2> HIDE DEF S
  <2>2. QED
    BY <1>3, <2>1, StoreAllOk
<1>5. Place(r, o, SizeOf(src))
  BY DEF IsTarget
<1>6. MemFits(base.fields, m)
  BY <1>3, StillFits
<1>7. QED
  BY <1>4, <1>5, <1>6, AccIs, WrittenSource DEF Writes

\* The places that a load may read.
Places(target, skipped) == UNION {{<<r, o>> : o \in target[r]} : r \in DOMAIN target \ skipped}

LEMMA PlacesAre ==
  ASSUME NEW l \in Registers, NEW size, NEW target, IsTarget(target, size), NEW skipped,
         NEW places, places = Places(target, skipped)
  PROVE  /\ IsFiniteSet(places)
         /\ \A p \in places : Place(p[1], p[2], size) /\ p[1] # l
         /\ \A r \in DOMAIN target : \A o \in target[r] :
              Place(r, o, size) /\ r # l /\ (skipped = {} => <<r, o>> \in places)
<1> DEFINE D == DOMAIN target \ skipped
<1>1. /\ IsFiniteSet(DOMAIN target)
      /\ \A q \in DOMAIN target : q \in Derefs /\ IsFiniteSet(target[q]) /\ \A x \in target[q] : Place(q, x, size)
  BY DEF IsTarget
<1>2. \A q \in Derefs : q # l
  BY SummaryMemoryAssumption DEF SummaryMemoryAssumption
<1>3. places = UNION {{<<q, x>> : x \in target[q]} : q \in D}
  BY DEF Places
<1>4. D \subseteq DOMAIN target /\ (skipped = {} => D = DOMAIN target)
  OBVIOUS
<1> HIDE DEF D
<1>5. IsFiniteSet(places)
  <2>1. IsFiniteSet(D)
    BY <1>1, <1>4, FS_Subset
  <2>2. \A q \in D : IsFiniteSet(target[q])
    BY <1>1, <1>4
  <2>3. QED
    BY <1>3, <2>1, <2>2, PlacesFinite
<1>6. ASSUME NEW p \in places PROVE Place(p[1], p[2], size) /\ p[1] # l
  <2>1. PICK q \in D : \E x \in target[q] : p = <<q, x>>
    BY <1>3
  <2>2. QED
    BY <1>1, <1>2, <1>4, <2>1
<1>7. \A r \in D : \A o \in target[r] : <<r, o>> \in places
  BY <1>3
<1>8. QED
  BY <1>1, <1>2, <1>4, <1>5, <1>6, <1>7

\* Reading and making room for the left side changes no other cell.
LEMMA LoadMade ==
  ASSUME NEW fields \in Layouts, NEW m \in Memories, MemFits(fields, m),
         NEW l, NEW off, NEW size, Place(l, off, size),
         NEW places, IsFiniteSet(places), \A p \in places : Place(p[1], p[2], size),
         NEW res, res = Make(ReadAll(fields, places, size), l, off, size)
  PROVE  /\ res.fields \in Layouts /\ HasField(res.fields, l, off, size)
         /\ res.case # "suffix" => OutsideFits(res.fields, m, l, off, size)
<1> DEFINE f1 == ReadAll(fields, places, size)
<1>1. f1 = ReadAll(fields, places, size) /\ res = Make(f1, l, off, size)
  OBVIOUS
<1> HIDE DEF f1
<1>2. f1 \in Layouts /\ Weakly(fields, f1)
  BY <1>1, ReadAllOk
<1>3. /\ res.fields \in Layouts /\ HasField(res.fields, l, off, size)
      /\ res.case # "suffix" => OutsideWeaker(f1, res.fields, l, off, size)
  BY <1>1, <1>2, MakeOk
<1>4. MemFits(f1, m)
  BY <1>2, StillFits
<1>5. ASSUME res.case # "suffix" PROVE OutsideFits(res.fields, m, l, off, size)
  BY <1>3, <1>4, <1>5, StillFitsOutside
<1>6. QED
  BY <1>3, <1>5

Vals(fields, places, size) == {Read(fields, p[1], p[2], size).val : p \in places}

\* The loaded value is in line with the content of each place.
LEMMA LoadedOk ==
  ASSUME NEW fields \in Layouts, NEW m \in Memories, NEW l, NEW off, NEW size, OutsideFits(fields, m, l, off, size),
         NEW places, IsFiniteSet(places), NEW r, NEW o, <<r, o>> \in places, Place(r, o, size), r # l,
         NEW vals, vals = Vals(fields, places, size), NEW val, val = Either(vals)
  PROVE  vals # {} /\ IsVal(val, size) /\ Told(val, Content(m, r, o, size), size)
<1> DEFINE res == Read(fields, r, o, size)
           x == res.val
<1>1. x \in vals
  BY DEF Vals
<1>2. IsFiniteSet(vals)
  <2> DEFINE f == [p \in places |-> Read(fields, p[1], p[2], size).val]
  <2>1. f \in Surjection(places, vals)
    BY DEF Surjection, Vals
  <2> HIDE DEF f
  <2>2. QED
    BY <2>1, FS_Surjection
<1>3. IsVal(x, size) /\ TellsRange(fields, r, o, size, x)
  <2>1. res = Read(fields, r, o, size)
    OBVIOUS
  <2> HIDE DEF res
  <2>2. QED
    BY <2>1, ReadOk
<1>4. r \in Region
  BY PlaceIs
<1>5. InsideFits(fields, m, r, o, size)
  BY <1>4 DEF InsideFits, OutsideFits
<1> HIDE DEF x
<1>6. Told(x, Content(m, r, o, size), size)
  BY <1>3, <1>5, ContentTold
<1>7. val = Top \/ val = x
  BY <1>1, <1>2, EitherIs
<1>8. IsVal(Top, size) /\ \A content : Told(Top, content, size)
  BY DEF IsVal, Told, Tells, Top
<1>9. QED
  BY <1>1, <1>3, <1>6, <1>7, <1>8

Loaded(vals) == IF vals = {} THEN Top ELSE Either(vals)

LEMMA LoadOk ==
  ASSUME NEW fields \in Layouts, NEW m \in Memories, MemFits(fields, m),
         NEW lhs \in Ranges, NEW target, IsTarget(target, lhs[3]), NEW skipped, NEW places,
         places = Places(target, skipped), skipped = {} \/ places = {},
         NEW res, res = Make(ReadAll(fields, places, lhs[3]), lhs[1], lhs[2], lhs[3]), res.case # "suffix",
         NEW vals, vals = Vals(res.fields, places, lhs[3]),
         NEW f2, f2 = SetVal(res.fields, lhs[1], lhs[2], Loaded(vals)),
         NEW r \in DOMAIN target, NEW o \in target[r],
         NEW m2, m2 = Written(m, lhs[1], lhs[2], Content(m, r, o, lhs[3]))
  PROVE  f2 \in Layouts /\ m2 \in Memories /\ MemFits(f2, m2)
<1> DEFINE l == lhs[1]
           off == lhs[2]
           size == lhs[3]
           content == Content(m, r, o, size)
           val == Loaded(vals)
<1>1. Place(l, off, size) /\ l \in Registers
  BY RangeIs
<1>2. res = Make(ReadAll(fields, places, size), l, off, size) /\ vals = Vals(res.fields, places, size)
  OBVIOUS
<1>3. f2 = SetVal(res.fields, l, off, val) /\ m2 = Written(m, l, off, content) /\ content = Content(m, r, o, size)
  OBVIOUS
<1>4. IsTarget(target, size)
  OBVIOUS
<1>5. val = Loaded(vals)
  OBVIOUS
<1> HIDE DEF l, off, size, content, val
<1>6. /\ IsFiniteSet(places) /\ \A p \in places : Place(p[1], p[2], size)
      /\ Place(r, o, size) /\ r # l /\ (skipped = {} => <<r, o>> \in places)
  BY <1>1, <1>4, PlacesAre
<1>7. res.fields \in Layouts /\ HasField(res.fields, l, off, size) /\ OutsideFits(res.fields, m, l, off, size)
  BY <1>1, <1>2, <1>6, LoadMade
<1>8. IsVal(val, size) /\ Told(val, content, size)
  <2>1. IsVal(Top, size) /\ \A c : Told(Top, c, size)
    BY DEF IsVal, Told, Tells, Top
  <2>2. CASE skipped = {}
    <3> DEFINE both == Either(vals)
    <3>1. <<r, o>> \in places /\ both = Either(vals)
      BY <1>6, <2>2
    <3> HIDE DEF both
    <3>2. IsVal(both, size) /\ Told(both, content, size)
      BY <1>2, <1>3, <1>6, <1>7, <3>1, LoadedOk
    <3>3. val = Top \/ val = both
      BY <1>5, <3>1 DEF Loaded
    <3>4. QED
      BY <2>1, <3>2, <3>3
  <2>3. CASE places = {}
    <3>1. vals = {}
      BY <1>2, <2>3 DEF Vals
    <3>2. QED
      BY <1>5, <2>1, <3>1 DEF Loaded
  <2>4. QED
    BY <2>2, <2>3
<1>9. content \in Contents(size)
  BY <1>3, <1>6, ContentIs
<1>10. m2 \in Memories
  BY <1>1, <1>3, <1>9, WrittenIs
<1>11. f2 \in Layouts
  BY <1>1, <1>3, <1>7, <1>8, PlaceIs, SetStays
<1>12. MemFits(f2, m2)
  BY <1>1, <1>3, <1>7, <1>8, <1>9, WriteFits
<1>13. QED
  BY <1>10, <1>11, <1>12

LEMMA ConditionIs ==
  ASSUME NEW cond \in Conditions
  PROVE  cond.range \in Ranges /\ cond.digits \in Numeral /\ Len(cond.digits) = cond.range[3]
BY SummaryMemoryAssumption DEF SummaryMemoryAssumption

\* A number that is known is the content.
LEMMA NumberIs ==
  ASSUME NEW val, NEW size \in Nat, IsVal(val, size), NEW content \in Contents(size), Told(val, content, size), IsNumber(val)
  PROVE  val = content
<1>1. val \in Seq(Cell) /\ val # Top /\ Len(val) = size /\ DOMAIN val = 1 .. size
  BY DEF IsVal, IsNumber
<1>2. Numbers \notin Static
  BY SummaryMemoryAssumption DEF SummaryMemoryAssumption, Region
<1>3. ASSUME NEW i \in 1 .. size PROVE val[i] = content[i]
  <2>1. content[i] = Meaning(val[i])
    BY <1>1 DEF Told, Tells
  <2>2. val[i][1] = Numbers
    BY <1>1 DEF IsNumber
  <2>3. QED
    BY <1>2, <2>1, <2>2 DEF Meaning
<1>4. val = [i \in 1 .. size |-> val[i]]
  BY <1>1
<1>5. content = [i \in 1 .. size |-> content[i]]
  BY DEF Contents
<1>6. QED
  BY <1>3, <1>4, <1>5

LEMMA AssumeOk ==
  ASSUME NEW fields \in Layouts, NEW m \in Memories, MemFits(fields, m), NEW cond \in Conditions, NEW positive \in BOOLEAN,
         NEW res, res = Read(fields, cond.range[1], cond.range[2], cond.range[3]),
         NEW st, st = AssumedOf(res, cond.range, cond.digits, positive)
  PROVE  /\ st = Bottom \/ (\E f2 \in Layouts : st = State(f2))
         /\ (Content(m, cond.range[1], cond.range[2], cond.range[3]) = cond.digits) = positive
              => \E f2 \in Layouts : st = State(f2) /\ MemFits(f2, m)
<1> DEFINE r == cond.range[1]
           off == cond.range[2]
           size == cond.range[3]
           digits == cond.digits
           range == cond.range
           content == Content(m, r, off, size)
           bad == IsNumber(res.val) /\ (res.val = digits) # positive
           learns == positive /\ ~IsNumber(res.val) /\ IsField(res.fields, range)
           f3 == SetVal(res.fields, r, off, digits)
<1>1. st = IF bad THEN Bottom ELSE IF learns THEN State(f3) ELSE State(res.fields)
  BY Zenon DEF AssumedOf
<1>2. Place(r, off, size) /\ digits \in Numeral /\ Len(digits) = size /\ res = Read(fields, r, off, size)
  BY ConditionIs, RangeIs
<1>3. IsField(res.fields, range) <=> HasField(res.fields, r, off, size)
  BY DEF IsField, HasField
<1>4. content = Content(m, r, off, size)
  OBVIOUS
<1>5. learns => positive /\ HasField(res.fields, r, off, size)
  BY <1>3
<1>6. f3 = SetVal(res.fields, r, off, digits)
  OBVIOUS
<1> HIDE DEF r, off, size, digits, range, content, learns, f3
<1>7. Richer(fields, res.fields) /\ IsVal(res.val, size) /\ TellsRange(fields, r, off, size, res.val)
  BY <1>2, ReadOk
<1>8. res.fields \in Layouts /\ Weakly(fields, res.fields)
  BY <1>7 DEF Richer
<1>9. r \in Region /\ off \in Int /\ size \in Nat
  BY <1>2, PlaceIs
<1>10. IsVal(digits, size) /\ Told(digits, digits, size)
  BY <1>2, NumeralIs
<1>11. ASSUME learns PROVE f3 \in Layouts
  BY <1>5, <1>6, <1>8, <1>9, <1>10, <1>11, SetStays
<1>12. MemFits(res.fields, m)
  BY <1>8, StillFits
<1>13. content \in Contents(size)
  BY <1>2, <1>4, ContentIs
<1>14. bad => (content = digits) # positive
  <2>1. ASSUME IsNumber(res.val) PROVE res.val = content
    <3> DEFINE val == res.val
    <3>1. InsideFits(fields, m, r, off, size)
      BY <1>9 DEF InsideFits, MemFits
    <3>2. IsVal(val, size) /\ TellsRange(fields, r, off, size, val) /\ IsNumber(val)
      BY <1>7, <2>1
    <3> HIDE DEF val
    <3>3. Told(val, content, size)
      BY <1>2, <1>4, <3>1, <3>2, ContentTold
    <3>4. val = content
      BY <1>9, <1>13, <3>2, <3>3, NumberIs
    <3>5. QED
      BY <3>4 DEF val
  <2>2. QED
    BY <2>1, Zenon
<1>15. ASSUME learns, content = digits PROVE MemFits(f3, m)
  <2> DEFINE m2 == Written(m, r, off, content)
  <2>1. HasField(res.fields, r, off, size) /\ OutsideFits(res.fields, m, r, off, size)
    BY <1>5, <1>12, <1>15, AllFitOutside
  <2>2. Told(digits, content, size)
    BY <1>10, <1>15
  <2>3. MemFits(f3, m2)
    BY <1>2, <1>6, <1>8, <1>10, <1>13, <2>1, <2>2, WriteFits
  <2>4. m2 = Written(m, r, off, content)
    OBVIOUS
  <2> HIDE DEF m2
  <2>5. \A r2 \in Region, c \in Int : <<r2, c>> \in Space =>
              /\ r2 # r \/ c < off \/ off + size <= c => m2[<<r2, c>>] = m[<<r2, c>>]
              /\ r2 = r /\ off <= c /\ c < off + size => c - off + 1 \in 1 .. size /\ m2[<<r2, c>>] = content[c - off + 1]
    BY <1>2, <1>13, <2>4, WrittenIs
  <2>6. \A i \in 1 .. size : content[i] = m[<<r, off + i - 1>>]
    BY <1>2, <1>4, ContentIs
  <2>7. ASSUME NEW r2 \in Region, NEW c \in Int, <<r2, c>> \in Space PROVE m2[<<r2, c>>] = m[<<r2, c>>]
    <3>1. CASE r2 # r \/ c < off \/ off + size <= c
      BY <2>5, <2>7, <3>1
    <3>2. CASE r2 = r /\ off <= c /\ c < off + size
      <4>1. c - off + 1 \in 1 .. size /\ m2[<<r2, c>>] = content[c - off + 1]
        BY <2>5, <2>7, <3>2
      <4>2. off + (c - off + 1) - 1 = c
        BY <1>9
      <4>3. content[c - off + 1] = m[<<r, off + (c - off + 1) - 1>>]
        BY <2>6, <4>1
      <4>4. QED
        BY <3>2, <4>1, <4>2, <4>3
    <3>3. QED
      BY <1>9, <3>1, <3>2
  <2>8. QED
    BY <2>3, <2>7 DEF MemFits, FitsAt
<1>16. st = Bottom \/ (\E f2 \in Layouts : st = State(f2))
  <2> HIDE DEF bad
  <2> QED BY <1>1, <1>8, <1>11
<1>17. ASSUME (content = digits) = positive PROVE \E f2 \in Layouts : st = State(f2) /\ MemFits(f2, m)
  <2>1. ~bad
    BY <1>14, <1>17
  <2> HIDE DEF bad
  <2>2. CASE learns
    <3>1. content = digits
      BY <1>5, <1>17, <2>2
    <3>2. st = State(f3)
      BY <1>1, <2>1, <2>2
    <3>3. QED
      BY <1>11, <1>15, <2>2, <3>1, <3>2
  <2>3. CASE ~learns
    BY <1>1, <1>8, <1>12, <2>1, <2>3
  <2>4. QED
    BY <2>2, <2>3
<1>18. QED
  BY <1>16, <1>17 DEF content, digits, r, off, size

(* The invariant *)

MemoryInv ==
  /\ sms.bottom \in BOOLEAN /\ sms.fields \in Layouts
  /\ sms.bottom => sms = Bottom
  /\ mem # Dead => mem \in Memories /\ ~sms.bottom /\ MemFits(sms.fields, mem)

LEMMA StateIs ==
  ASSUME NEW fields
  PROVE  State(fields).bottom = FALSE /\ State(fields).fields = fields
BY DEF State

LEMMA NothingYet ==
  /\ EmptyRegions \in Layouts
  /\ \A r \in Region : DOMAIN EmptyRegions[r].out = {}
<1>1. <<>> \in [1 .. 0 -> Field] /\ <<>> \in [1 .. 0 -> Int] /\ DOMAIN <<>> = 1 .. 0
  BY DEF Field
<1>2. 1 .. 0 = {}
  OBVIOUS
<1>3. <<>> \in [{} -> Field] /\ <<>> \in [{} -> Int] /\ DOMAIN <<>> = {}
  BY <1>1, <1>2, Zenon
<1>4. <<>> \in Row
  <2> DEFINE D == {}
             none == <<>>
  <2>1. D \in SUBSET Int /\ IsFiniteSet(D) /\ none \in [D -> Field] /\ DOMAIN none = {}
    BY <1>3, FS_EmptySet
  <2> HIDE DEF D, none
  <2>2. Separate(none)
    BY <2>1 DEF Separate
  <2>3. QED
    BY <2>1, <2>2, RowMade DEF none
<1>5. NoFields \in Layout /\ NoFields.out = <<>>
  <2>1. <<>> \in UNION {[D -> Int] : D \in SUBSET Int}
    <3>1. {} \in SUBSET Int
      OBVIOUS
    <3>2. QED
      BY <1>3, <3>1
  <2> DEFINE none == <<>>
  <2>2. none \in UNION {[D -> Int] : D \in SUBSET Int} /\ none \in Row /\ DOMAIN none = {}
    BY <1>3, <1>4, <2>1
  <2>3. NoFields = [in |-> none, out |-> none]
    BY DEF NoFields
  <2> HIDE DEF none
  <2>4. NoFields.in = none /\ NoFields.out = none
    BY <2>3
  <2>5. NoFields \in [in : UNION {[D -> Int] : D \in SUBSET Int}, out : Row]
    BY <2>2, <2>3
  <2>6. QED
    BY <2>2, <2>4, <2>5 DEF Layout, none
<1>6. \A r \in Region : EmptyRegions[r] = NoFields
  BY DEF EmptyRegions
<1>7. EmptyRegions \in [Region -> Layout]
  BY <1>5 DEF EmptyRegions
<1>8. \A r \in Region : DOMAIN EmptyRegions[r].out = {}
  BY <1>3, <1>5, <1>6
<1>9. QED
  BY <1>7, <1>8 DEF Layouts

LEMMA MemoryInvInit == ASSUME Init PROVE MemoryInv
<1>1. sms = State(EmptyRegions) /\ mem = [cell \in Space |-> Meaning(cell)]
  BY DEF Init, Space
<1>2. sms.bottom = FALSE /\ sms.fields = EmptyRegions
  BY <1>1, StateIs
<1>3. ASSUME NEW cell \in Space PROVE Meaning(cell) \in Cell
  <2>1. PICK r \in Region, c \in Int : cell = <<r, c>>
    BY InSpace
  <2>2. QED
    BY <2>1 DEF Meaning, Image, Digit, Cell
<1>4. mem \in Memories
  BY <1>1, <1>3 DEF Memories
<1>5. MemFits(EmptyRegions, mem)
  BY <1>1, NothingYet DEF MemFits, FitsAt, Lets
<1>6. QED
  BY <1>2, <1>4, <1>5, NothingYet DEF MemoryInv

LEMMA TargetIs ==
  ASSUME NEW target \in Targets, NEW size \in Size, Fits(target, size)
  PROVE  IsTarget(target, size)
<1>1. /\ IsFiniteSet(DOMAIN target) /\ DOMAIN target \in (SUBSET Derefs) \ {{}}
      /\ \A r \in DOMAIN target : IsFiniteSet(target[r]) /\ target[r] \in (SUBSET Nat) \ {{}}
  BY SummaryMemoryAssumption DEF SummaryMemoryAssumption
<1>2. ASSUME NEW r \in DOMAIN target, NEW o \in target[r] PROVE Place(r, o, size)
  <2>1. o + size <= Cells[r]
    BY DEF Fits
  <2>2. o \in Nat /\ r \in Region
    BY <1>1 DEF Region
  <2>3. QED
    BY <2>1, <2>2 DEF Place
<1>3. QED
  BY <1>1, <1>2 DEF IsTarget

\* All cases that are known to go wrong are left out.
AllLeftOut == LeftOut = {"gap", "suffix", "skip"}

LEMMA MemoryInvAssign ==
  ASSUME AllLeftOut, MemoryInv, NEW lhs \in Ranges, NEW src \in Sources, SizeOf(src) = lhs[3], Assign(lhs, src)
  PROVE  MemoryInv'
<1>1. sms.fields \in Layouts /\ mem \in Memories /\ MemFits(sms.fields, mem)
  BY DEF Assign, Running, MemoryInv
<1>2. PICK res : /\ res = Make(sms.fields, lhs[1], lhs[2], lhs[3])
                 /\ res.case # "suffix" \/ Allowed("suffix")
                 /\ res.case = "gap" /\ src.kind = "range" /\ Overlaps(lhs, src.range) => Allowed("gap")
                 /\ \E rhs \in {ReadSource(res.fields, src)} :
                      sms' = State(SetVal(rhs.fields, lhs[1], lhs[2], rhs.val))
  BY Zenon DEF Assign, Make
<1>3. PICK rhs : rhs = ReadSource(res.fields, src) /\ sms' = State(SetVal(rhs.fields, lhs[1], lhs[2], rhs.val))
  BY <1>2
<1>4. ~Allowed("suffix") /\ ~Allowed("gap")
  BY DEF AllLeftOut, Allowed
<1> DEFINE f2 == SetVal(rhs.fields, lhs[1], lhs[2], rhs.val)
           m2 == Written(mem, lhs[1], lhs[2], SourceContent(mem, src))
<1>5. f2 = SetVal(rhs.fields, lhs[1], lhs[2], rhs.val) /\ m2 = Written(mem, lhs[1], lhs[2], SourceContent(mem, src))
  OBVIOUS
<1>6. mem' = m2 /\ sms' = State(f2)
  BY <1>3 DEF Assign
<1> HIDE DEF f2, m2
<1>7. f2 \in Layouts /\ m2 \in Memories /\ MemFits(f2, m2)
  <2>1. /\ res = Make(sms.fields, lhs[1], lhs[2], lhs[3])
        /\ rhs = ReadSource(res.fields, src)
        /\ res.case # "suffix"
        /\ ~(res.case = "gap" /\ src.kind = "range" /\ Overlaps(lhs, src.range))
    BY <1>2, <1>3, <1>4
  <2>2. QED
    BY <1>1, <1>5, <2>1, AssignOk
<1>8. sms'.bottom = FALSE /\ sms'.fields = f2
  BY <1>6, StateIs
<1>9. QED
  BY <1>6, <1>7, <1>8 DEF MemoryInv

LEMMA MemoryInvStore ==
  ASSUME AllLeftOut, MemoryInv, NEW target \in Targets, NEW src \in Sources, Fits(target, SizeOf(src)), Store(target, src)
  PROVE  MemoryInv'
<1>1. sms.fields \in Layouts /\ mem \in Memories /\ MemFits(sms.fields, mem)
  BY DEF Store, Running, MemoryInv
<1> DEFINE base == [fields |-> ReadSource(sms.fields, src).fields, cases |-> {}]
<1>2. PICK res : /\ res = StoreAll(base, target, src)
                 /\ "suffix" \in res.cases => Allowed("suffix")
                 /\ "gap" \in res.cases => Allowed("gap") \/ IsStrong(target)
                 /\ sms' = State(res.fields)
  BY Zenon DEF Store, StoreAll
<1>3. PICK r, o : r \in DOMAIN target /\ o \in target[r] /\ mem' = Written(mem, r, o, SourceContent(mem, src))
  BY DEF Store
<1>4. ~Allowed("suffix") /\ ~Allowed("gap")
  BY DEF AllLeftOut, Allowed
<1>5. IsTarget(target, SizeOf(src))
  BY SourceIs, TargetIs
<1>6. base = [fields |-> ReadSource(sms.fields, src).fields, cases |-> {}]
  OBVIOUS
<1> DEFINE m2 == Written(mem, r, o, SourceContent(mem, src))
<1>7. m2 = Written(mem, r, o, SourceContent(mem, src)) /\ mem' = m2
  BY <1>3
<1> HIDE DEF base, m2
<1>8. res.fields \in Layouts /\ m2 \in Memories /\ MemFits(res.fields, m2)
  BY <1>1, <1>2, <1>3, <1>4, <1>5, <1>6, <1>7, StoreOk
<1>9. sms'.bottom = FALSE /\ sms'.fields = res.fields
  BY <1>2, StateIs
<1>10. QED
  BY <1>7, <1>8, <1>9 DEF MemoryInv

LEMMA MemoryInvLoad ==
  ASSUME AllLeftOut, MemoryInv, NEW lhs \in Ranges, NEW target \in Targets, Fits(target, lhs[3]), Load(lhs, target)
  PROVE  MemoryInv'
<1>1. sms.fields \in Layouts /\ mem \in Memories /\ MemFits(sms.fields, mem)
  BY DEF Load, Running, MemoryInv
<1>2. PICK skipped : \E places \in {Places(target, skipped)} :
         /\ skipped # {} /\ places # {} => Allowed("skip")
         /\ \E res \in {Make(ReadAll(sms.fields, places, lhs[3]), lhs[1], lhs[2], lhs[3])} :
              /\ res.case = "suffix" => Allowed("suffix")
              /\ \E vals \in {Vals(res.fields, places, lhs[3])} :
                   sms' = State(SetVal(res.fields, lhs[1], lhs[2], Loaded(vals)))
  BY Zenon DEF Load, Places, Make, Vals, Loaded
<1>3. PICK places :
         /\ places = Places(target, skipped)
         /\ skipped # {} /\ places # {} => Allowed("skip")
         /\ \E res \in {Make(ReadAll(sms.fields, places, lhs[3]), lhs[1], lhs[2], lhs[3])} :
              /\ res.case = "suffix" => Allowed("suffix")
              /\ \E vals \in {Vals(res.fields, places, lhs[3])} :
                   sms' = State(SetVal(res.fields, lhs[1], lhs[2], Loaded(vals)))
  BY <1>2
<1>4. PICK res : /\ res = Make(ReadAll(sms.fields, places, lhs[3]), lhs[1], lhs[2], lhs[3])
                 /\ res.case = "suffix" => Allowed("suffix")
                 /\ \E vals \in {Vals(res.fields, places, lhs[3])} :
                      sms' = State(SetVal(res.fields, lhs[1], lhs[2], Loaded(vals)))
  BY <1>3
<1>5. PICK vals : vals = Vals(res.fields, places, lhs[3]) /\ sms' = State(SetVal(res.fields, lhs[1], lhs[2], Loaded(vals)))
  BY <1>4
<1>6. PICK r, o : r \in DOMAIN target /\ o \in target[r] /\ mem' = Written(mem, lhs[1], lhs[2], Content(mem, r, o, lhs[3]))
  BY DEF Load
<1>7. ~Allowed("suffix") /\ ~Allowed("skip")
  BY DEF AllLeftOut, Allowed
<1>8. res.case # "suffix" /\ (skipped = {} \/ places = {}) /\ places = Places(target, skipped)
  BY <1>3, <1>4, <1>7
<1>9. IsTarget(target, lhs[3])
  BY RangeIs, PlaceIs, TargetIs
<1> DEFINE f2 == SetVal(res.fields, lhs[1], lhs[2], Loaded(vals))
           m2 == Written(mem, lhs[1], lhs[2], Content(mem, r, o, lhs[3]))
<1>10. /\ f2 = SetVal(res.fields, lhs[1], lhs[2], Loaded(vals)) /\ m2 = Written(mem, lhs[1], lhs[2], Content(mem, r, o, lhs[3]))
      /\ sms' = State(f2) /\ mem' = m2
  BY <1>5, <1>6
<1>11. /\ res = Make(ReadAll(sms.fields, places, lhs[3]), lhs[1], lhs[2], lhs[3])
       /\ vals = Vals(res.fields, places, lhs[3])
  BY <1>4, <1>5
<1> HIDE DEF f2, m2
<1>12. f2 \in Layouts /\ m2 \in Memories /\ MemFits(f2, m2)
  BY <1>1, <1>6, <1>8, <1>9, <1>10, <1>11, LoadOk
<1>13. sms'.bottom = FALSE /\ sms'.fields = f2
  BY <1>10, StateIs
<1>14. QED
  BY <1>10, <1>12, <1>13 DEF MemoryInv

LEMMA MemoryInvAssume ==
  ASSUME MemoryInv, NEW cond \in Conditions, NEW positive \in BOOLEAN, Assume(cond, positive)
  PROVE  MemoryInv'
<1>1. sms.fields \in Layouts /\ mem \in Memories /\ MemFits(sms.fields, mem)
  BY DEF Assume, Running, MemoryInv
<1> DEFINE res == Read(sms.fields, cond.range[1], cond.range[2], cond.range[3])
           st == AssumedOf(res, cond.range, cond.digits, positive)
           holds == (Content(mem, cond.range[1], cond.range[2], cond.range[3]) = cond.digits) = positive
<1>2. sms' = st /\ mem' = IF holds THEN mem ELSE Dead
  BY Zenon DEF Assume
<1>3. res = Read(sms.fields, cond.range[1], cond.range[2], cond.range[3]) /\ st = AssumedOf(res, cond.range, cond.digits, positive)
  OBVIOUS
<1>4. /\ st = Bottom \/ (\E f2 \in Layouts : st = State(f2))
      /\ holds => \E f2 \in Layouts : st = State(f2) /\ MemFits(f2, mem)
  <2> HIDE DEF res, st
  <2> QED BY <1>1, <1>3, AssumeOk
<1> HIDE DEF res, st, holds
<1>5. Bottom.bottom = TRUE /\ Bottom.fields = EmptyRegions
  BY DEF Bottom
<1>6. CASE holds
  <2>1. PICK f2 \in Layouts : st = State(f2) /\ MemFits(f2, mem)
    BY <1>4, <1>6
  <2>2. sms'.bottom = FALSE /\ sms'.fields = f2 /\ mem' = mem
    BY <1>2, <1>6, <2>1, StateIs
  <2>3. QED
    BY <1>1, <2>1, <2>2 DEF MemoryInv
<1>7. CASE ~holds
  <2>1. mem' = Dead
    BY <1>2, <1>7
  <2>2. CASE st = Bottom
    BY <1>2, <1>5, <2>1, <2>2, NothingYet DEF MemoryInv
  <2>3. CASE \E f2 \in Layouts : st = State(f2)
    <3>1. PICK f2 \in Layouts : st = State(f2)
      BY <2>3
    <3>2. sms'.bottom = FALSE /\ sms'.fields = f2
      BY <1>2, <3>1, StateIs
    <3>3. QED
      BY <2>1, <3>2 DEF MemoryInv
  <2>4. QED
    BY <1>4, <2>2, <2>3
<1>8. QED
  BY <1>6, <1>7

LEMMA MemoryInvNext == ASSUME AllLeftOut, MemoryInv, [Next]_vars PROVE MemoryInv'
<1>1. CASE UNCHANGED vars
  BY <1>1 DEF vars, MemoryInv
<1>2. CASE Next
  <2>1. CASE \E lhs \in Ranges, src \in Sources : SizeOf(src) = lhs[3] /\ Assign(lhs, src)
    BY <2>1, MemoryInvAssign
  <2>2. CASE \E target \in Targets, src \in Sources : Fits(target, SizeOf(src)) /\ Store(target, src)
    BY <2>2, MemoryInvStore
  <2>3. CASE \E lhs \in Ranges, target \in Targets : Fits(target, lhs[3]) /\ Load(lhs, target)
    BY <2>3, MemoryInvLoad
  <2>4. CASE \E cond \in Conditions, positive \in BOOLEAN : Assume(cond, positive)
    BY <2>4, MemoryInvAssume
  <2>5. QED
    BY <1>2, <2>1, <2>2, <2>3, <2>4 DEF Next, Instruction
<1>3. QED
  BY <1>1, <1>2

LEMMA MemoryInvShows == ASSUME MemoryInv PROVE MemorySound
<1>1. sms.bottom \in BOOLEAN /\ sms.fields \in Layouts /\ (sms.bottom => sms = Bottom)
  BY DEF MemoryInv
<1>2. TypeOK
  <2>1. ASSUME NEW r \in Region
        PROVE  LET io == sms.fields[r]
               IN  /\ DOMAIN io.in = DOMAIN io.out
                   /\ \A o \in DOMAIN io.out :
                        /\ io.in[o] = io.out[o].size /\ io.out[o].size > 0
                        /\ Len(io.out[o].val) \in {0, io.out[o].size}
                        /\ \A o2 \in DOMAIN io.out : o2 > o => o2 >= Ends(io.out, o)
    <3> DEFINE io == sms.fields[r]
    <3>1. io \in Layout /\ io.out \in Row
      BY <1>1, LayoutsIs
    <3>2. ASSUME NEW o \in DOMAIN io.out PROVE io.out[o].size > 0 /\ Len(io.out[o].val) \in {0, io.out[o].size}
      <4>1. io.out[o].size \in Size /\ (io.out[o].val = Top \/ Len(io.out[o].val) = io.out[o].size)
        BY <1>1, <3>2, FieldOf
      <4>2. Len(Top) = 0
        BY DEF Top
      <4> HIDE DEF io
      <4>3. QED
        BY <4>1, <4>2 DEF Size
    <3> HIDE DEF io
    <3>3. \A o, o2 \in DOMAIN io.out : o2 > o => o2 >= Ends(io.out, o)
      BY <3>1, RowIs
    <3>4. DOMAIN io.in = DOMAIN io.out /\ \A o \in DOMAIN io.out : io.in[o] = io.out[o].size
      BY <3>1 DEF Layout
    <3>5. QED
      BY <3>2, <3>3, <3>4 DEF io
  <2>2. QED
    BY <1>1, <2>1, Zenon DEF TypeOK
<1>3. ASSUME mem # Dead PROVE mem \in Memories /\ ~sms.bottom /\ MemFits(sms.fields, mem)
  BY <1>3 DEF MemoryInv
<1>4. Sound
  <2>1. ASSUME mem # Dead, NEW r \in Region, NEW o \in DOMAIN sms.fields[r].out,
               NEW i \in DOMAIN sms.fields[r].out[o].val
        PROVE  mem[<<r, o + i - 1>>] = Meaning(sms.fields[r].out[o].val[i])
    <3> DEFINE out == sms.fields[r].out
               val == out[o].val
               c == o + i - 1
    <3>1. /\ o \in Int /\ out[o].size \in Size /\ val \in Seq(Cell) /\ (val = Top \/ Len(val) = out[o].size)
          /\ 0 <= o /\ Ends(out, o) <= Cells[r] /\ Cells[r] \in Nat /\ Ends(out, o) = o + out[o].size
      BY <1>1, FieldOf, LayoutsIs, CellsAre DEF Ends
    <3>2. i \in Int /\ 1 <= i /\ i <= out[o].size /\ val # Top
      <4>1. DOMAIN val = 1 .. Len(val) /\ i \in DOMAIN val
        BY <3>1
      <4>2. Len(Top) = 0
        BY DEF Top
      <4>3. val # Top
        <5> HIDE DEF val
        <5> QED BY <4>1, <4>2
      <4> HIDE DEF val, out
      <4>4. QED
        BY <3>1, <4>1, <4>3 DEF Size
    <3> DEFINE size == out[o].size
               end == Ends(out, o)
               cells == Cells[r]
    <3>3. size \in Nat /\ end = o + size /\ 0 <= o /\ end <= cells /\ cells \in Nat /\ i <= size /\ 1 <= i /\ i \in Int /\ o \in Int
      BY <3>1, <3>2 DEF Size
    <3> HIDE DEF val, out, size, end, cells
    <3>4. c \in Int /\ c - o + 1 = i /\ o <= c /\ c < end /\ 0 <= c /\ c < cells
      BY <3>3
    <3>5. <<r, c>> \in Space /\ Holds(out, o, c)
      BY <3>4, InSpace DEF Holds, end, cells
    <3>6. Lets(sms.fields, r, c, mem[<<r, c>>])
      BY <1>3, <2>1, <3>4, <3>5 DEF MemFits, FitsAt
    <3>7. Tells(val, c - o + 1, mem[<<r, c>>])
      BY <3>5, <3>6 DEF Lets, val, out
    <3>8. mem[<<r, c>>] = Meaning(val[i])
      BY <3>2, <3>4, <3>7 DEF Tells
    <3>9. QED
      BY <3>8 DEF val, out
  <2>2. QED
    BY <1>3, <2>1 DEF Sound
<1>5. Framed
  <2>1. ASSUME mem # Dead, NEW cell \in DOMAIN mem \ Covered(sms.fields) PROVE mem[cell] = Meaning(cell)
    <3>1. cell \in Space
      BY <1>3, <2>1 DEF Memories
    <3>2. PICK r \in Region, c \in Int : cell = <<r, c>>
      BY <3>1, InSpace
    <3>3. ASSUME NEW o \in DOMAIN sms.fields[r].out, Holds(sms.fields[r].out, o, c) PROVE FALSE
      <4> DEFINE out == sms.fields[r].out
      <4>1. o \in Int /\ out[o].size \in Size
        BY <1>1, <3>3, FieldOf
      <4>2. c \in o .. o + out[o].size - 1
        BY <3>3, <4>1 DEF Holds, Ends, Size
      <4>3. <<r, c>> \in CellsOf(r, o, out[o].size)
        BY <4>2 DEF CellsOf
      <4>4. cell[1] = r
        BY <3>2
      <4>5. cell \in Covered(sms.fields)
        BY <3>1, <3>2, <4>3, <4>4 DEF Covered, Space
      <4>6. QED
        BY <2>1, <4>5
    <3>4. Lets(sms.fields, r, c, mem[<<r, c>>])
      BY <1>3, <2>1, <3>1, <3>2 DEF MemFits, FitsAt
    <3>5. QED
      BY <3>2, <3>3, <3>4 DEF Lets
  <2>2. QED
    BY <2>1 DEF Framed
<1>6. QED
  BY <1>2, <1>4, <1>5 DEF MemorySound

\* The state of the memory domain covers the memory, and what has no field is as it was
\* at the entry, for any regions, ranges, sources, targets and conditions and after any number of
\* instructions, if the cases that are known to go wrong are left out.
THEOREM MemorySafe == LeftOut = {"gap", "suffix", "skip"} => (Spec => []MemorySound)
<1>1. SUFFICES ASSUME LeftOut = {"gap", "suffix", "skip"} PROVE Spec => []MemorySound
  OBVIOUS
<1>2. AllLeftOut
  BY <1>1 DEF AllLeftOut
<1>3. MemoryInv /\ [Next]_vars => MemoryInv'
  BY <1>2, MemoryInvNext
<1>4. QED
  BY <1>3, MemoryInvInit, MemoryInvShows, PTL DEF Spec
=============================================================================
