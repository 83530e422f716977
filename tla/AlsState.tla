------------------------------ MODULE AlsState ------------------------------
(***************************************************************************)
(* The alias domain: for a variable the symbolic pointers it may consist   *)
(* of, while the child domain holds its offset to each of them.            *)
(*                                                                         *)
(* A value is one of the aliases plus an offset: "null" makes it a number, *)
(* "bad" anything.  Beside the state runs the execution: the values of the *)
(* variables and the addresses the symbolic pointers stand for.  Of the    *)
(* child (VsdState) only what it promises is kept, a set of offsets for    *)
(* each variable; numbers are residues, as in the registers.               *)
(***************************************************************************)
EXTENDS Integers, Sequences, FiniteSetsExt, TLC

Sq == INSTANCE SequencesExt

CONSTANTS Modulus,         \* the number of values of a register
          Var, Ptr,        \* ids of variables and of symbolic pointers
          Address,         \* the addresses a pointer may stand for
          Others,          \* states of other paths and of earlier visits
          Exprs,           \* right-hand sides
          Cmps,            \* conditions
          PtrSets,         \* what a new variable may point to
          Renames,         \* sequences of pairs of a new name and the name it replaces
          Untracked        \* conditions and boxes also constrain variables without aliases

AlsAssumption ==
  /\ Modulus \in Nat \ {0} /\ Untracked \in BOOLEAN
  /\ Address \in [Ptr -> SUBSET (0 .. Modulus - 1)]
  /\ IsFiniteSet(Var) /\ IsFiniteSet(Ptr) /\ Var \cap Ptr = {}
  /\ {"null", "bad"} \cap (Var \cup Ptr) = {}

ASSUME AlsAssumption

Values == 0 .. Modulus - 1
Signed(x) == IF 2 * x > Modulus THEN x - Modulus ELSE x
AliasId == Ptr \cup {"null", "bad"}
Dead == [val |-> <<>>, at |-> <<>>]

VARIABLES als,  \* the state: elements forward and backward, and the child
          run   \* the execution: val of the variables, at of the pointers; or Dead

vars == <<als, run>>

-----------------------------------------------------------------------------
(* inverse_set_map: alias sets, and for each alias the variables that have it *)

NoElements == [fwd |-> <<>>, back |-> [id \in AliasId |-> {}]]

Put(m, v, aliases) ==
  [fwd |-> [w \in DOMAIN m.fwd \cup {v} |-> IF w = v THEN aliases ELSE m.fwd[w]],
   back |-> [id \in AliasId |-> IF id \in aliases THEN m.back[id] \cup {v} ELSE m.back[id] \ {v}]]

\* Faulty variant of Erased: the way back is left.
ErasedOneWay(m, v) ==
  [fwd |-> [w \in DOMAIN m.fwd \ {v} |-> m.fwd[w]], back |-> m.back]

Erased(m, v) ==
  [fwd |-> [w \in DOMAIN m.fwd \ {v} |-> m.fwd[w]],
   back |-> [id \in AliasId |-> m.back[id] \ {v}]]

ErasedAll(m, ids) == FoldSet(LAMBDA v, acc : Erased(acc, v), m, ids)

\* One alias takes the place of another wherever the way back says it occurs.
Replaced(m, old, new) ==
  FoldSet(LAMBDA v, acc : Put(acc, v, (acc.fwd[v] \ {old}) \cup {new}), m, m.back[old])

\* Pointers that are gone leave bad ones; variables that are pointers become numbers.
AllBad(m, ids) == FoldSet(LAMBDA id, acc : Replaced(acc, id, "bad"), m, ids)
AllNumbers(m, ids) == FoldSet(LAMBDA v, acc : Put(acc, v, {"null"}), m, ids)

-----------------------------------------------------------------------------
(* The child, and what a state allows *)

State(elements, child) == [elements |-> elements, child |-> child]
TopChild == [v \in Var |-> Values]
Top == State(NoElements, TopChild)
BottomChild == [v \in Var |-> {}]
Bottom == State(NoElements, BottomChild)
IsBottom(a) == \E v \in Var : a.child[v] = {}

\* A child with an empty set is bottom as a whole.
ChildSet(child, v, offsets) ==
  IF offsets = {} \/ \E w \in Var : child[w] = {} THEN BottomChild ELSE [child EXCEPT ![v] = offsets]

Forget(child, ids) ==
  IF \E w \in Var : child[w] = {} THEN child
  ELSE [v \in Var |-> IF v \in ids THEN Values ELSE child[v]]

\* A variable without aliases counts as a number.
Aliases(a, v) == IF v \in DOMAIN a.elements.fwd THEN a.elements.fwd[v] ELSE {"null"}

Base(at, id) == IF id = "null" THEN 0 ELSE at[id]

Covers(a, r) ==
  r = Dead \/ \A v \in Var : \E id \in Aliases(a, v) :
    /\ a.child[v] # {}
    /\ id = "bad" \/ (r.val[v] - Base(r.at, id)) % Modulus \in a.child[v]

Runs == {r \in [val : [Var -> Values], at : [Ptr -> Values]] : \A p \in Ptr : r.at[p] \in Address[p]}

-----------------------------------------------------------------------------
(* What a state is, and what the operations are called with *)

InverseSetMap ==
  [fwd : UNION {[D -> (SUBSET AliasId) \ {{}}] : D \in SUBSET Var}, back : [AliasId -> SUBSET Var]]

StateSet == [elements : InverseSetMap, child : [Var -> SUBSET Values]]

\* The way back is the inverse of the way there.
Inverted(m) == \A id \in AliasId : m.back[id] = {v \in DOMAIN m.fwd : id \in m.fwd[v]}

\* Nothing is known of the offset of a variable that is not in the map.
MissingTop(a) == ~IsBottom(a) => \A v \in Var \ DOMAIN a.elements.fwd : a.child[v] = Values

Linear == [terms : Seq([scale : Int, var : Var]), c : SUBSET Values]

InputsAssumption ==
  /\ \A other \in Others : other \in StateSet /\ Inverted(other.elements) /\ MissingTop(other)
  /\ Exprs \subseteq [kind : {"lin", "bin"}, opnd1 : Linear, opnd2 : Linear]
  /\ Cmps \subseteq [kind : {"lin"}, opnd1 : Linear, opnd2 : Linear, op : {"EQ", "NEQ", "LE"}]
  /\ \A ptrs \in PtrSets : ptrs # {} /\ \A p \in ptrs : p.id \in AliasId /\ p.offset \in (SUBSET Values) \ {{}}
  /\ \A pairs \in Renames :
       /\ pairs \in Seq((Var \X Var) \cup (Ptr \X Ptr))
       /\ \A i, j \in DOMAIN pairs : pairs[i][1] = pairs[j][1] => i = j

ASSUME InputsAssumption

-----------------------------------------------------------------------------
(* Expressions.  Sums and products of the offsets (or values) of their terms. *)

\* Nothing is known of the address of a pointer.
Offsets(child) ==
  [id \in Var \cup AliasId |->
     IF id \in Var THEN child[id] ELSE IF id = "null" THEN {0} ELSE Values]

Added(numbers, t, sum) == {(t.scale * x + r) % Modulus : x \in numbers[t.var], r \in sum}

SumOf(lin, numbers) == Sq!FoldRight(LAMBDA t, sum : Added(numbers, t, sum), lin.terms, lin.c)

ExprOf(exp, numbers) ==
  IF exp.kind = "lin" THEN SumOf(exp.opnd1, numbers)
  ELSE {(x * y) % Modulus : x \in SumOf(exp.opnd1, numbers), y \in SumOf(exp.opnd2, numbers)}

ExprValues(exp) == ExprOf(exp, [v \in Var |-> {run.val[v]}])

VarsOf(exp) == {exp.opnd1.terms[i].var : i \in DOMAIN exp.opnd1.terms}

\* A sum of pointers and numbers: with two pointers in it it may be anything.
SimplifyPtrSum(ids) ==
  LET pointers == {i \in DOMAIN ids : ids[i] # "null"}
  IN  IF pointers = {} THEN "null"
      ELSE IF \E i \in pointers : pointers = {i} THEN ids[CHOOSE i \in pointers : TRUE]
      ELSE "bad"

\* Every way to choose an alias for each variable.
LinAliases(a, lin) ==
  {SimplifyPtrSum(ids) : ids \in
     {f \in [DOMAIN lin.terms -> AliasId] :
        \A i \in DOMAIN f : f[i] \in Aliases(a, lin.terms[i].var)}}

-----------------------------------------------------------------------------
(* Queries *)

\* The sum of the offset and the address of an alias.
QueryVal(a, v) ==
  UNION {{(x + y) % Modulus : x \in a.child[v], y \in Offsets(a.child)[id]} : id \in Aliases(a, v)}

\* queryAls: an alias and the offsets to it.
QueryAls(a, v) == {[id |-> id, offset |-> a.child[v]] : id \in Aliases(a, v)}

\* A variable with one alias is that alias plus the offset, one with several is
\* anything. Two terms with the same alias each stand for any of its addresses: that
\* the code adds up their factors is left out.
ReplacePointers(a) ==
  [v \in Var |-> IF Cardinality(Aliases(a, v)) = 1 THEN QueryVal(a, v) ELSE Values]

-----------------------------------------------------------------------------
(* The operations *)

Alive == run # Dead

Continue(a, v, values) ==
  /\ als' = a
  /\ IF Alive THEN \E x \in values : run' = [run EXCEPT !.val[v] = x] ELSE run' = Dead

Init ==
  /\ als = Top
  /\ run \in Runs

\* The result of an operation that is not linear is a number.
AliasesOf(a, exp) == IF exp.kind = "lin" THEN LinAliases(a, exp.opnd1) ELSE {"null"}
ChildOf(a, exp) == ExprOf(exp, IF exp.kind = "lin" THEN a.child ELSE ReplacePointers(a))

Assign(lhs, exp) ==
  Continue(State(Put(als.elements, lhs, AliasesOf(als, exp)), ChildSet(als.child, lhs, ChildOf(als, exp))),
           lhs, ExprValues(exp))

\* The assignment happens or it does not.
WeakAssign(lhs, exp) ==
  LET known == IF lhs \in DOMAIN als.elements.fwd THEN als.elements.fwd[lhs] ELSE {}
  IN  Continue(State(Put(als.elements, lhs, known \cup AliasesOf(als, exp)),
                     ChildSet(als.child, lhs, als.child[lhs] \cup ChildOf(als, exp))),
               lhs, ExprValues(exp) \cup {run.val[lhs]})

\* What a set of pointers stands for, and the offsets of some of them.
Pointed(ptrs) ==
  UNION {IF p.id = "bad" THEN Values ELSE {(Base(run.at, p.id) + o) % Modulus : o \in p.offset} :
         p \in ptrs}
Ids(ptrs) == {p.id : p \in ptrs}
OffsetsOf(ptrs) == UNION {p.offset : p \in ptrs}

\* Bad pointers have no offset.
AssignPtrs(lhs, ptrs) ==
  LET good == {p \in ptrs : p.id # "bad"}
  IN  Continue(State(Put(als.elements, lhs, Ids(ptrs)),
                     ChildSet(als.child, lhs, IF good = {} THEN Values ELSE OffsetsOf(good))),
               lhs, IF Alive THEN Pointed(ptrs) ELSE {})

\* assume of a set of pointers, with which the callers give a new variable its
\* first aliases.
AssumePtrs(lhs, ptrs) ==
  /\ lhs \notin DOMAIN als.elements.fwd /\ ~IsBottom(als)
  /\ Continue(State(Put(als.elements, lhs, Ids(ptrs)),
                    ChildSet(als.child, lhs, als.child[lhs] \cap OffsetsOf(ptrs))),
              lhs, IF Alive THEN Pointed(ptrs) ELSE {})

Holds(x, op) ==
  CASE op = "EQ" -> x = 0 [] op = "NEQ" -> x # 0 [] op = "LE" -> Signed(x) <= 0

\* What the child makes of a condition: the offsets of each variable for which
\* the others can be chosen so that it holds.
ChildAssume(child, cmp) ==
  LET ids == VarsOf(cmp)
      sums(c) == {x \in SumOf(cmp.opnd1, c) : Holds(x, cmp.op)}
      refined == [v \in Var |->
                    IF v \notin ids THEN child[v]
                    ELSE {o \in child[v] : sums([child EXCEPT ![v] = {o}]) # {}}]
  IN  IF sums(child) = {} \/ \E v \in Var : child[v] = {} THEN BottomChild ELSE refined

\* Faulty variant of AssumeState: a pointer keeps its offset when it becomes a number.
AssumeKeepingOffsets(a, cmp) ==
  LET rebased == {v \in VarsOf(cmp) \cap DOMAIN a.elements.fwd : Aliases(a, v) # {"null"}}
      elements == AllNumbers(a.elements, rebased)
  IN  State(elements, ChildAssume(a.child, cmp))

\* Variables that may be pointers become numbers of which nothing is known, then
\* the child assumes the condition.  An equation of two variables and a
\* disequality leave them alone; they count only among numbers.
AssumeState(a, cmp) ==
  LET ids == VarsOf(cmp)
      numbers == {v \in ids : v \in DOMAIN a.elements.fwd /\ a.elements.fwd[v] = {"null"}}
      onlyNumbers == cmp.op = "NEQ" \/ (cmp.op = "EQ" /\ Cardinality(ids) # 1)
      rebased == (ids \cap DOMAIN a.elements.fwd) \ numbers
      elements == AllNumbers(a.elements, rebased)
  IN  IF IsBottom(a) THEN a
      ELSE IF onlyNumbers
      THEN IF numbers = ids THEN State(a.elements, ChildAssume(a.child, cmp)) ELSE a
      ELSE State(elements, ChildAssume(Forget(a.child, rebased), cmp))

Assume(cmp) ==
  /\ Untracked \/ VarsOf(cmp) \subseteq DOMAIN als.elements.fwd
  /\ als' = AssumeState(als, cmp)
  /\ run' = IF Alive /\ \E x \in ExprValues(cmp) : Holds(x, cmp.op) THEN run ELSE Dead

\* Faulty variant of KillState: the offset of what is killed stays.
KillKeepingOffsets(a, ids) ==
  State(AllBad(ErasedAll(a.elements, ids \cap Var), ids \cap Ptr), a.child)

\* What is killed is no alias any more; what was based on it is a bad pointer.
KillState(a, ids) ==
  State(AllBad(ErasedAll(a.elements, ids \cap Var), ids \cap Ptr), Forget(a.child, ids))

\* The ids are of use for other things again.
Kill(ids) ==
  /\ als' = KillState(als, ids)
  /\ IF Alive
     THEN \E r \in Runs :
            /\ \A v \in Var \ ids : r.val[v] = run.val[v]
            /\ \A p \in Ptr \ ids : r.at[p] = run.at[p]
            /\ run' = r
     ELSE run' = Dead

Project(ids) ==
  /\ als' = State(ErasedAll(als.elements, Var \ ids), Forget(als.child, Var \ ids))
  /\ UNCHANGED run

IsNew(a, id) ==
  IF id \in Ptr THEN a.elements.back[id] = {}
  ELSE id \notin DOMAIN a.elements.fwd /\ a.child[id] = Values

\* The new names replace the old ones, first among the aliases, then as variables.
RenamedAlias(m, p) == IF p[2] \in Ptr THEN Replaced(m, p[2], p[1]) ELSE m

RenamedVar(m, p) ==
  IF p[2] \in DOMAIN m.fwd THEN Erased(Put(m, p[1], m.fwd[p[2]]), p[2]) ELSE m

RenamedOffset(child, p) ==
  IF p[1] \in Var THEN [child EXCEPT ![p[1]] = child[p[2]], ![p[2]] = Values] ELSE child

RenamedRun(r, p) ==
  IF p[1] \in Var THEN [r EXCEPT !.val[p[1]] = r.val[p[2]]] ELSE [r EXCEPT !.at[p[1]] = r.at[p[2]]]

RenamedAliases(m, pairs) == Sq!FoldLeft(RenamedAlias, m, pairs)
RenamedVars(m, pairs) == Sq!FoldLeft(RenamedVar, m, pairs)
ChildEquateKill(child, pairs) == Sq!FoldLeft(RenamedOffset, child, pairs)

EquateKill(pairs) ==
  /\ \A i \in DOMAIN pairs :
       IsNew(als, pairs[i][1]) \/ \E j \in 1 .. i - 1 : pairs[j][2] = pairs[i][1]
  /\ als' = State(RenamedVars(RenamedAliases(als.elements, pairs), pairs),
                  IF IsBottom(als) THEN als.child ELSE ChildEquateKill(als.child, pairs))
  /\ run' = IF Alive THEN Sq!FoldLeft(RenamedRun, run, pairs) ELSE Dead

-----------------------------------------------------------------------------
(* Merging.  compat leaves the variables that have aliases on both sides. *)

CompatAliases(widening, xs, ys) ==
  IF ~widening THEN xs \cup ys ELSE IF ys \subseteq xs THEN xs ELSE xs \cup {"bad"}

Compat(widening, a, b) ==
  FoldSet(LAMBDA v, m : Put(m, v, CompatAliases(widening, a.elements.fwd[v], b.elements.fwd[v])),
          NoElements, DOMAIN a.elements.fwd \cap DOMAIN b.elements.fwd)

GreaterEq(a, b) ==
  /\ \A v \in DOMAIN a.elements.fwd :
       v \in DOMAIN b.elements.fwd /\ b.elements.fwd[v] \subseteq a.elements.fwd[v]
  /\ IsBottom(b) \/ \A v \in Var : b.child[v] \subseteq a.child[v]

\* The memory state above merges with bottom itself.
Joined(a, b) ==
  IF IsBottom(a) THEN b ELSE IF IsBottom(b) THEN a
  ELSE State(Compat(FALSE, a, b), [v \in Var |-> a.child[v] \cup b.child[v]])

\* The child of a widened state: what grows is anything.
WidenedChild(c, d) ==
  [v \in Var |-> IF d[v] \subseteq c[v] THEN c[v] ELSE Values]

Narrowed(a, b) == State(Compat(FALSE, a, b), b.child)
Widened(a, b) == State(Compat(TRUE, a, b), WidenedChild(a.child, b.child))

\* domain_state::box
Boxed(a, b) ==
  IF IsBottom(a) THEN b ELSE IF IsBottom(b) THEN a
  ELSE IF GreaterEq(a, b) THEN Narrowed(a, b) ELSE Widened(a, b)

\* An execution that comes from elsewhere has the same pointers.
Elsewhere(other) ==
  {Dead} \cup {r \in [val : [Var -> Values], at : {run.at}] : Alive /\ Covers(other, r)}

Join(other) == als' = Joined(als, other) /\ Alive /\ run' \in {run} \cup Elsewhere(other)

Box(other) ==
  /\ Untracked \/ DOMAIN other.elements.fwd \subseteq DOMAIN als.elements.fwd
  /\ als' = Boxed(als, other)
  /\ Alive /\ run' \in Elsewhere(other)

-----------------------------------------------------------------------------

Next ==
  \/ \E lhs \in Var, exp \in Exprs : Assign(lhs, exp) \/ WeakAssign(lhs, exp)
  \/ \E lhs \in Var, ptrs \in PtrSets : AssignPtrs(lhs, ptrs) \/ AssumePtrs(lhs, ptrs)
  \/ \E cmp \in Cmps : Assume(cmp)
  \/ \E id \in Var \cup Ptr : Kill({id})
  \/ \E ids \in SUBSET Var : Project(ids)
  \/ \E pairs \in Renames : EquateKill(pairs)
  \/ \E other \in Others : Join(other) \/ Box(other)

Spec == Init /\ [][Next]_vars

-----------------------------------------------------------------------------

\* A variable has an alias or is not in the map.
TypeOK ==
  /\ als \in StateSet
  /\ run = Dead \/ run \in [val : [Var -> Values], at : [Ptr -> Values]]

\* The way back of inverse_set_map is the inverse of the way there, through all
\* the assignments, kills and renamings that change one through a proxy of the
\* other; kill and equate_kill find the variables of an alias only by it.
WayBack == Inverted(als.elements)

\* Whatever is assigned, assumed, killed, renamed or merged, the value of a
\* variable is one of its aliases plus an offset of the child.
Sound == Covers(als, run)

\* The answers of queryVal and queryAls contain the value.
Answers ==
  Alive => \A v \in Var :
    /\ run.val[v] \in QueryVal(als, v)
    /\ run.val[v] \in Pointed(QueryAls(als, v))

\* als_state.h:48-50: a variable that is not in the map is top.  Then no offset
\* of it may be known, or a merge with a side that has aliases gives the number
\* out as its value.
MissingIsTop == MissingTop(als)

\* What fixpoint::iterate relies on: a state greater than another covers what it
\* covers, a join lies above both sides, and a second box finds nothing new.
EngineBounds ==
  Alive => \A b \in Others : ~IsBottom(b) =>
    /\ GreaterEq(als, b) => \A r \in Elsewhere(b) : Covers(als, r)
    /\ GreaterEq(Joined(als, b), b) /\ GreaterEq(Joined(als, b), als)
    /\ GreaterEq(Boxed(als, b), Boxed(Boxed(als, b), b))

\* AlsState: the value of a variable is one of its aliases plus an offset, the queries
\* answer with it, and joins and boxes are the bounds fixpoint relies on.
AlsSound == TypeOK /\ Sound /\ EngineBounds /\ Answers
=============================================================================
