------------------------------- MODULE Rename -------------------------------
(***************************************************************************)
(* summary_memory_state::rename: the summary of a function that calls      *)
(* itself gets fresh variables before it is applied to a state of the same *)
(* function.  The ids are objects that many maps and sets of the summary   *)
(* point to; they are replaced in place, also where they are keys, and the *)
(* maps are not built again.                                               *)
(*                                                                         *)
(* A place is <<container, object>>: a key or an element of that container *)
(* and the object there; of "fields", the id of a field, which nothing is  *)
(* sorted by.                                                              *)
(***************************************************************************)
EXTENDS Integers, Sequences, FiniteSetsExt

CONSTANTS MaxCounter,  \* numeric ids the process generates
          MaxFields,   \* fields the function has requested
          MaxEqual     \* variables known to equal or alias another

ASSUME RenameAssumption == {MaxCounter, MaxFields, MaxEqual} \subseteq Nat

(* Ids: the class comes first in the order, then the counter. *)
Special(n) == <<0, n>>   \* the null and the bad pointer
Numeric(n) == <<1, n>>
Pointer(n) == <<2, n>>   \* ptr_memory_id of the numeric id n
Less(a, b) == a[1] < b[1] \/ (a[1] = b[1] /\ a[2] < b[2])

VARIABLES heap,  \* the id each object is, in the order of their construction
          own,   \* the places of the function's state
          work,  \* the copy that is its summary: the object now at each place
          rev,   \* rev_map: the counters still to be renamed and the places of each
          next   \* the counter of generate

rename_vars == <<heap, own, work, rev, next>>

Null == 1  \* the object of special_ptr::_nullptr
Idle == DOMAIN work = {}
Renamed == ~Idle /\ DOMAIN rev = {}

Id(p) == heap[work[p]]
Before(p) == heap[p[2]]
Counters(objects) == {heap[o][2] : o \in {u \in objects : heap[u][1] # 0}}
Held(c) == {p[2] : p \in {q \in own : q[1] = c}}  \* the objects in a container
Equal == {p \in own : p[1][1] = "eq" /\ Len(p[1]) = 2}

-----------------------------------------------------------------------------
(* The state of the function *)

RenameInit ==
  /\ heap = <<Special(0)>>
  /\ own = {} /\ work = <<>> /\ rev = <<>>
  /\ next = 0

\* An alias of a variable, there and back.
Points(v, o) == {<<<<"als", v>>, o>>, <<<<"back">>, o>>, <<<<"back", o>>, v>>}

\* retrieve_field: the variables of a new field at the entry and now, and what
\* both point to; the region behind it when it is dereferenced.
Request(deref, isNull) ==
  LET in == Len(heap) + 1
      ptr == Len(heap) + 2
      out == Len(heap) + 3
  IN  /\ Idle /\ next + 2 <= MaxCounter
      /\ Cardinality(Held(<<"back">>) \ {Null}) < MaxFields
      /\ heap' = heap \o <<Numeric(next), Pointer(next), Numeric(next + 1)>>
      /\ next' = next + 2
      /\ own' = own
           \cup ({<<"fields">>, <<"vsd">>, <<"als">>, <<"back", ptr>>} \X {in, out})
           \cup ({<<"als", in>>, <<"als", out>>, <<"back">>} \X {ptr})
           \cup (IF deref THEN {<<<<"deref">>, ptr>>} ELSE {})
           \cup (IF isNull THEN Points(out, Null) ELSE {})
      /\ UNCHANGED <<work, rev>>

\* The aliases of a variable, the way back, and what it equals.
Of(v) == {p \in own : p[1] \in {<<"als", v>>, <<"eq", v>>} \/ (p[1][1] \in {"back", "eq"} /\ p[2] = v)}

\* A variable is assigned another: it points to the same and is known to equal it.
Equate(lhs, rhs) ==
  /\ Idle /\ lhs # rhs /\ Cardinality(Equal) < MaxEqual
  /\ own' = (own \ Of(lhs)) \cup {<<<<"eq">>, lhs>>, <<<<"eq">>, rhs>>, <<<<"eq", rhs>>, lhs>>}
              \cup UNION {Points(lhs, o) : o \in Held(<<"als", rhs>>)}
  /\ UNCHANGED <<heap, work, rev, next>>

\* kill: a variable goes, the region its pointer names stays.
Kill(v) ==
  /\ Idle
  /\ own' = {p \in own \ Of(v) : p[2] # v}
  /\ UNCHANGED <<heap, work, rev, next>>

-----------------------------------------------------------------------------
(* rename *)

\* collect_ids of the value sets, the equalities, the aliases both ways, and of
\* the regions: every place there is.
VsdPlaces == {p \in own : p[1][1] = "vsd"}
EqPlaces == {p \in own : p[1][1] = "eq"}
AlsPlaces == {p \in own : p[1][1] \in {"als", "back"}}
IdMap == VsdPlaces \cup EqPlaces \cup AlsPlaces \cup {p \in own : p[1][1] \in {"fields", "deref"}}

\* Faulty variant of RevMap: memory ids are left as they are.
RevMapNumbers ==
  [n \in Counters({p[2] : p \in IdMap}) |->
     [numbers |-> {p \in IdMap : Before(p) = Numeric(n)}, mids |-> {}]]

\* For each counter the places of the variable and of the memory ids of it.  The code
\* keeps one object for the variable of a counter (rev_map[counter]._id), so a second
\* object with the counter of another would replace the first, whose places kept the old
\* id.  In the states of this model generate and the constructor of a memory id are the
\* only places where ids are made, and what holds an id later shares the object.
RevMap ==
  [n \in Counters({p[2] : p \in IdMap}) |->
     [numbers |-> {p \in IdMap : Before(p) = Numeric(n)},
      mids |-> {p \in IdMap : Before(p) = Pointer(n)}]]

\* Faulty variant of NextCounter: the latest first.
LatestCounter == Max(DOMAIN rev)

\* rev_map is sorted by the counters.
NextCounter == Min(DOMAIN rev)

\* The function calls itself: its summary is copied and the ids are collected.
Call ==
  /\ Idle /\ own # {}
  /\ work' = [p \in own |-> p[2]]
  /\ rev' = RevMap
  /\ UNCHANGED <<heap, own, next>>

Replaced(numbers, mids) ==
  [p \in own |-> IF p \in numbers THEN Len(heap) + 1
                 ELSE IF p \in mids THEN Len(heap) + 2 ELSE work[p]]

\* Faulty variant of Fresh: a memory id is built of another variable.
FreshApart == <<Numeric(next), Pointer(next + 1)>>

\* A variable and the memory id that is built of a copy of it.
Fresh == <<Numeric(next), Pointer(next)>>

\* One counter: every place of the variable gets a fresh one, every place of a
\* memory id of it one that is built of the fresh variable.
RenameNext ==
  LET n == NextCounter
  IN  /\ DOMAIN rev # {} /\ next < MaxCounter
      /\ heap' = heap \o Fresh
      /\ next' = next + 1
      /\ work' = Replaced(rev[n].numbers, rev[n].mids)
      /\ rev' = [m \in DOMAIN rev \ {n} |-> rev[m]]
      /\ UNCHANGED own

\* The container of a key that was renamed is that of the key it is now.
Container(c) == IF Len(c) = 1 THEN c ELSE <<c[1], work[<<<<c[1]>>, c[2]>>]>>

\* The summary is applied: the state behind the call goes by the names of the
\* caller or by those of the summary.
ApplySummary ==
  /\ Renamed
  /\ own' \in {own, {<<Container(p[1]), work[p]>> : p \in own}}
  /\ work' = <<>>
  /\ UNCHANGED <<heap, rev, next>>

RenameStep ==
  \/ \E deref, isNull \in BOOLEAN : Request(deref, isNull)
  \/ \E lhs, rhs \in Held(<<"fields">>) : Equate(lhs, rhs)
  \/ \E o \in Held(<<"fields">>) : Kill(o)
  \/ Call \/ RenameNext \/ ApplySummary

RenameSpec == RenameInit /\ [][RenameStep]_rename_vars

-----------------------------------------------------------------------------

RenameTypeOK ==
  /\ \A o \in DOMAIN heap : heap[o] \in {Special(0)} \cup ({1, 2} \X (0 .. next - 1))
  /\ \A p \in own : p[2] \in DOMAIN heap
  /\ Idle \/ work \in [own -> DOMAIN heap]
  /\ \A n \in DOMAIN rev : rev[n].numbers \cup rev[n].mids \subseteq own
  /\ next \in 0 .. MaxCounter

\* summary_memory_state.cpp:1228-1233: the order of the variables is kept, though
\* the maps they are keys of are not built again.
SameOrder ==
  Renamed => \A p, q \in own : p[1] = q[1] /\ p[1] # <<"fields">> =>
    (Less(Id(p), Id(q)) <=> Less(Before(p), Before(q)))

\* What was one variable is one variable, what was two is two, wherever they
\* occur, and a region is still the region behind the variable it was.
SameShape ==
  Renamed => \A p, q \in own :
    /\ Id(p)[1] = Before(p)[1]
    /\ Before(p)[1] # 0 /\ Before(q)[1] # 0 =>
         (Id(p)[2] = Id(q)[2] <=> Before(p)[2] = Before(q)[2])

\* The summary shares no variable and no region with the state it is applied to.
Apart == Renamed => Counters({work[p] : p \in own}) \cap Counters({p[2] : p \in own}) = {}
=============================================================================
