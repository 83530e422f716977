------------------------------ MODULE VsdState ------------------------------
(***************************************************************************)
(* The value set domain state: a value set for each variable.              *)
(*                                                                         *)
(* Two executions are run side by side: the operations of vsd_state on     *)
(* env, and on valuation what the program does to the numbers the          *)
(* variables hold.  assume refines one variable after the other until      *)
(* nothing changes; each refinement is a step of its own.                  *)
(***************************************************************************)
EXTENDS ValueSets, Sequences, TLC

Sq == INSTANCE SequencesExt

CONSTANTS Var,      \* ids of variables
          Address,  \* of the ids that are symbols of the binary (sm_id)
          Others,   \* states that come from elsewhere: other paths, earlier visits
          Exprs,    \* right-hand sides
          Cmps      \* conditions

\* The ids an expression may name: also the special ones for null and for a bad pointer.
Ids == Var \cup DOMAIN Address \cup {"null", "bad"}
CmpOps == {"LE", "LT", "GE", "GT", "EQ", "NEQ"}
\* AND stands for all operators that are not evaluated.
BinOps == {"MUL", "DIV", "XOR", "SHL", "AND"}

\* num_linear: a term has no scale 0.
IsLin(lin, ids) ==
  /\ lin = [terms |-> lin.terms, vs |-> lin.vs] /\ IsValueSet(lin.vs)
  /\ lin.terms \in Seq([scale : Int \ {0}, var : ids])

\* Integers are of any size, words of less than 32 bits (see Wrapped); that a word has
\* a value at all, 2 ^ size > 0, is what proofs need to know of powers.
IsExp(exp) ==
  /\ exp.size \in Nat /\ exp.size < 32 /\ 2 ^ exp.size > 0
  /\ \/ exp.kind = "cmp" /\ IsLin(exp.opnd, Ids) /\ exp.op \in CmpOps
     \/ exp.kind = "lin" /\ IsLin(exp.inner, Ids)
     \/ exp.kind = "bin" /\ IsLin(exp.opnd1, Ids) /\ IsLin(exp.opnd2, Ids) /\ exp.op \in BinOps

\* What is stored is a value set for some of the variables, none of them empty.
IsState(e) ==
  /\ e = [bottom |-> e.bottom, elements |-> e.elements] /\ e.bottom \in BOOLEAN
  /\ e.elements = [v \in DOMAIN e.elements |-> e.elements[v]] /\ DOMAIN e.elements \subseteq Var
  /\ \A v \in DOMAIN e.elements : IsValueSet(e.elements[v]) /\ e.elements[v] # BottomVs

\* Ids of variables, symbols and special ids are different; assume takes
\* conditions on variables.
ASSUME VsdAssumption ==
  /\ MaxInt \in Nat /\ MaxInt >= 1 /\ MaxGrowth \in Nat
  /\ IsFiniteSet(Var) /\ Var \cap (DOMAIN Address \cup {"null", "bad"}) = {}
  /\ {"null", "bad"} \cap DOMAIN Address = {} /\ \A s \in DOMAIN Address : Address[s] \in Ints
  /\ \A other \in Others : IsState(other)
  /\ \A exp \in Exprs : IsExp(exp)
  /\ \A cmp \in Cmps : IsLin(cmp.opnd, Var) /\ cmp.op \in CmpOps

Dead == [v \in {} |-> 0]                \* no execution comes here
None == [lins |-> <<>>]                 \* no assume is going on
Valuations == [Var -> Ints]

VARIABLES env,       \* the state: whether it is bottom, and its elements
          valuation, \* the values of the variables, or Dead
          assuming   \* the loop of assume

vsd_vars == <<env, valuation, assuming>>

-----------------------------------------------------------------------------
(* States *)

State(elements) == [bottom |-> FALSE, elements |-> elements]
Bottom == [bottom |-> TRUE, elements |-> <<>>]

Lookup(e, v) == IF v \in DOMAIN e.elements THEN e.elements[v] ELSE TopVs

Set(e, v, vs) ==
  [e EXCEPT !.elements = [w \in DOMAIN @ \cup {v} |-> IF w = v THEN vs ELSE @[w]]]

GreaterEq(a, b) ==
  \/ b.bottom
  \/ /\ ~a.bottom
     /\ \A v \in DOMAIN a.elements :
          IF v \in DOMAIN b.elements THEN Leq(b.elements[v], a.elements[v])
          ELSE a.elements[v] = TopVs

Joined(a, b) ==
  IF b.bottom THEN a ELSE IF a.bottom THEN b
  ELSE State([v \in DOMAIN a.elements \cap DOMAIN b.elements |->
                JoinVs(a.elements[v], b.elements[v])])

\* What widen and narrow make: an element for every element of the new state.
Widened(a, b) ==
  IF b.bottom THEN a
  ELSE State([v \in DOMAIN b.elements |-> WidenVs(Lookup(a, v), b.elements[v])])

Narrowed(a, b) ==
  IF b.bottom THEN a
  ELSE State([v \in DOMAIN b.elements |-> NarrowVs(Lookup(a, v), b.elements[v])])

\* domain_state::box
Boxed(a, b) == IF GreaterEq(a, b) THEN Narrowed(a, b) ELSE Widened(a, b)

-----------------------------------------------------------------------------
(* num_evaluator.  A linear expression is a sequence of terms and a value    *)
(* set.                                                                      *)

QueryVar(e, v) ==
  CASE v \in DOMAIN Address -> Single(Address[v])
    [] v = "null" -> Single(0)
    [] v = "bad" -> TopVs
    [] v \in Var -> Lookup(e, v)

QueryLin(e, lin) ==
  Sq!FoldRight(LAMBDA t, next : AddVs(MulVs(Single(t.scale), QueryVar(e, t.var)), next),
            lin.terms, lin.vs)

CompareVs(v, op) ==
  CASE op = "LE"  -> AtMost(v, 0)
    [] op = "LT"  -> Below(v, 0)
    [] op = "GE"  -> NotVs(Below(v, 0))
    [] op = "GT"  -> NotVs(AtMost(v, 0))
    [] op = "EQ"  -> EqualTo(v, 0)
    [] op = "NEQ" -> NotVs(EqualTo(v, 0))

\* num_linear::operator==, which compares the value sets of the two constants.
SameLin(a, b) == a.terms = b.terms /\ Leq(a.vs, b.vs) /\ Leq(b.vs, a.vs)

BinaryVs(e, exp) ==
  LET opnd1 == QueryLin(e, exp.opnd1)
      opnd2 == QueryLin(e, exp.opnd2)
  IN  CASE exp.op = "MUL" -> MulVs(opnd1, opnd2)
        [] exp.op = "DIV" -> DivVs(opnd1, opnd2)
        [] exp.op = "XOR" -> IF SameLin(exp.opnd1, exp.opnd2) THEN Single(0) ELSE TopVs
        [] exp.op = "SHL" -> IF opnd1 = Single(0) THEN Single(0) ELSE TopVs
        [] exp.op = "AND" -> TopVs

InnerVs(e, exp) ==
  CASE exp.kind = "cmp" -> CompareVs(QueryLin(e, exp.opnd), exp.op)
    [] exp.kind = "lin" -> QueryLin(e, exp.inner)
    [] exp.kind = "bin" -> BinaryVs(e, exp)

\* size 0: the expression has no sign interpretation.
QueryExpr(e, exp) ==
  IF exp.size = 0 THEN InnerVs(e, exp) ELSE WithSignSize(InnerVs(e, exp), exp.unsigned, exp.size)

-----------------------------------------------------------------------------
(* The same expressions on numbers: the set of values one may have. *)

Members(v) == {x \in Ints : Contains(v, x)}

ValuesOf(v) == IF v \in Var THEN {valuation[v]} ELSE Members(QueryVar(Bottom, v))

Added(t, next) == {t.scale * x + r : x \in ValuesOf(t.var), r \in next}

LinValues(lin) ==
  Sq!FoldRight(LAMBDA t, next : Added(t, next), lin.terms, Members(lin.vs))

Holds(x, op) ==
  CASE op = "LE" -> x <= 0 [] op = "LT" -> x < 0 [] op = "GE" -> x >= 0
    [] op = "GT" -> x > 0 [] op = "EQ" -> x = 0 [] op = "NEQ" -> x # 0

BinaryValues(exp) ==
  LET xs == LinValues(exp.opnd1)
      ys == LinValues(exp.opnd2)
  IN  CASE exp.op = "MUL" -> {x * y : x \in xs, y \in ys}
        [] exp.op = "DIV" -> {Quotient(x, y) : x \in xs, y \in ys \ {0}}
        [] exp.op = "XOR" -> UNION {IF x = y THEN {0} ELSE Ints \ {0} : x \in xs, y \in ys}
        [] exp.op = "SHL" -> UNION {IF x = 0 THEN {0} ELSE Ints : x \in xs}
        [] exp.op = "AND" -> Ints

InnerValues(exp) ==
  CASE exp.kind = "cmp" -> {IF Holds(x, exp.op) THEN 1 ELSE 0 : x \in LinValues(exp.opnd)}
    [] exp.kind = "lin" -> LinValues(exp.inner)
    [] exp.kind = "bin" -> BinaryValues(exp)

ExprValues(exp) ==
  IF exp.size = 0 THEN InnerValues(exp)
  ELSE {Wrapped(x, exp.unsigned, exp.size) : x \in InnerValues(exp)}

-----------------------------------------------------------------------------
(* The operations *)

Alive == valuation # Dead
Idle == assuming = None

Representable(e) == \A x \in DOMAIN e.elements : IsValueSet(e.elements[x])

\* The run goes on with values and limits that are representable.
Continue(e, v) ==
  /\ Representable(e)
  /\ v # Dead => \A x \in Var : v[x] \in Ints
  /\ env' = e /\ valuation' = v

VsdInit == env = State(<<>>) /\ valuation \in Valuations /\ assuming = None

Assign(lhs, exp) ==
  /\ Idle /\ UNCHANGED assuming
  /\ \E er \in {QueryExpr(env, exp)} :
       LET e == IF er = BottomVs THEN Bottom ELSE IF env.bottom THEN env ELSE Set(env, lhs, er)
       IN  IF Alive THEN \E x \in ExprValues(exp) : Continue(e, [valuation EXCEPT ![lhs] = x])
           ELSE Continue(e, Dead)

\* The assignment happens or it does not.  A bottom right-hand side leaves the
\* elements where they are.
WeakAssign(lhs, exp) ==
  /\ Idle /\ UNCHANGED assuming
  /\ \E er \in {QueryExpr(env, exp)} :
       LET e == IF env.bottom \/ er = BottomVs THEN [env EXCEPT !.bottom = TRUE]
                ELSE Set(env, lhs, JoinVs(QueryVar(env, lhs), er))
       IN  IF Alive
           THEN \E x \in {valuation[lhs]} \cup ExprValues(exp) : Continue(e, [valuation EXCEPT ![lhs] = x])
           ELSE Continue(e, Dead)

\* Variables that are no longer used are forgotten.
Without(e, ids) ==
  [e EXCEPT !.elements = [v \in DOMAIN @ \ ids |-> @[v]]]

Kill(v) ==
  /\ Idle /\ UNCHANGED assuming
  /\ IF Alive THEN \E x \in Ints : Continue(Without(env, {v}), [valuation EXCEPT ![v] = x])
     ELSE Continue(Without(env, {v}), Dead)

Project(ids) ==
  /\ Idle /\ UNCHANGED <<valuation, assuming>>
  /\ env' = Without(env, Var \ ids)

\* cleanup removes a variable nothing is known of.
Cleanup(v) ==
  /\ Idle /\ UNCHANGED <<valuation, assuming>>
  /\ env' = IF QueryVar(env, v) = TopVs THEN Without(env, {v}) ELSE env

\* a takes the place of b.  The callers make the pair from a variable of this
\* state and one of another state, which is not an element of this one.
EquateKill(a, b) ==
  /\ Idle /\ UNCHANGED assuming
  /\ a # b /\ a \notin DOMAIN env.elements
  /\ LET e == IF b \in DOMAIN env.elements
              THEN Without(Set(env, a, env.elements[b]), {b}) ELSE env
     IN  IF Alive THEN \E x \in Ints : Continue(e, [valuation EXCEPT ![a] = valuation[b], ![b] = x])
         ELSE Continue(e, Dead)

Covers(e, v) ==
  \/ v = Dead
  \/ ~e.bottom /\ \A x \in DOMAIN e.elements : Contains(e.elements[x], v[x])

CoveredBy(e) == {Dead} \cup {v \in Valuations : Covers(e, v)}

\* a new variable gets what another state knows of its variable.
CopyPaste(to, from, other) ==
  /\ Idle /\ UNCHANGED assuming
  /\ ~env.bottom /\ to \notin DOMAIN env.elements
  /\ LET e == IF from \in DOMAIN other.elements THEN Set(env, to, other.elements[from]) ELSE env
     IN  IF Alive
         THEN \E v \in CoveredBy(other) \ {Dead} : Continue(e, [valuation EXCEPT ![to] = v[from]])
         ELSE Continue(e, Dead)

JoinOther(other) ==
  /\ Idle /\ UNCHANGED assuming
  /\ \E v \in {valuation} \cup CoveredBy(other) : Continue(Joined(env, other), v)

BoxOther(other) ==
  /\ Idle /\ UNCHANGED assuming
  /\ \E v \in CoveredBy(other) : Continue(Boxed(env, other), v)

-----------------------------------------------------------------------------
(* assume *)

AddToLin(lin, vs) == [lin EXCEPT !.vs = AddVs(vs, @)]

NegatedLin(lin) ==
  [terms |-> [i \in DOMAIN lin.terms |-> [lin.terms[i] EXCEPT !.scale = -@]],
   vs |-> NegVs(lin.vs)]

\* The linear expressions of which one has to be zero.
Equations(cmp) ==
  LET plus(lin, dir, k) == AddToLin(lin, OpenVs(dir, k))
  IN  CASE cmp.op = "EQ"  -> <<cmp.opnd>>
        [] cmp.op = "NEQ" -> <<plus(cmp.opnd, "UPWARD", 1), plus(NegatedLin(cmp.opnd), "UPWARD", 1)>>
        [] cmp.op = "LE"  -> <<plus(cmp.opnd, "UPWARD", 0)>>
        [] cmp.op = "LT"  -> <<plus(cmp.opnd, "UPWARD", 1)>>
        [] cmp.op = "GE"  -> <<plus(cmp.opnd, "DOWNWARD", 0)>>
        [] cmp.op = "GT"  -> <<plus(cmp.opnd, "DOWNWARD", -1)>>

\* An equation solved for its i-th variable.
Solved(e, lin, i) ==
  LET rest == [terms |-> Sq!RemoveAt(NegatedLin(lin).terms, i), vs |-> NegVs(lin.vs)]
  IN  DivVs(QueryLin(e, rest), Single(lin.terms[i].scale))

\* Faulty variant of Refined: what one equation of a disequality excludes is
\* excluded.
RefinedByAll(e, lins, i) ==
  Sq!FoldLeft(LAMBDA acc, lin : MeetVs(acc, Solved(e, lin, i)),
           QueryVar(e, lins[1].terms[i].var), lins)

\* The values the i-th variable can have in one of the equations.
Refined(e, lins, i) ==
  LET current == QueryVar(e, lins[1].terms[i].var)
  IN  Sq!FoldLeft(LAMBDA acc, lin : JoinVs(acc, MeetVs(current, Solved(e, lin, i))), BottomVs, lins)

\* assume: the execution goes on when the condition holds.
Assume(cmp) ==
  /\ Idle /\ UNCHANGED env
  /\ valuation' = IF Alive /\ \E x \in LinValues(cmp.opnd) : Holds(x, cmp.op) THEN valuation ELSE Dead
  /\ assuming' = [lins |-> Equations(cmp), i |-> 1, change |-> FALSE, passes |-> 0,
                  refined |-> [i \in DOMAIN cmp.opnd.terms |-> TopVs]]

\* Faulty variant of Refine: every value counts as a change.
RefineAnew ==
  /\ ~Idle /\ assuming.i \in DOMAIN assuming.refined
  /\ \E refined \in {Refined(env, assuming.lins, assuming.i)} :
       /\ Continue(IF refined = BottomVs THEN Bottom
                   ELSE IF env.bottom THEN env
                   ELSE Set(env, assuming.lins[1].terms[assuming.i].var, refined), valuation)
       /\ assuming' = [assuming EXCEPT !.i = @ + 1, !.change = TRUE,
                                       !.refined[assuming.i] = refined]

\* One variable, in the order of the terms.
Refine ==
  /\ ~Idle /\ assuming.i \in DOMAIN assuming.refined
  /\ \E refined \in {Refined(env, assuming.lins, assuming.i)} :
       LET i == assuming.i
           changed == ~Leq(assuming.refined[i], refined)
           e == IF ~changed THEN env
                ELSE IF refined = BottomVs THEN Bottom
                ELSE IF env.bottom THEN env
                ELSE Set(env, assuming.lins[1].terms[i].var, refined)
       IN  /\ Continue(e, valuation)
           /\ assuming' = [assuming EXCEPT !.i = @ + 1,
                                           !.change = @ \/ changed,
                                           !.refined[i] = IF changed THEN refined ELSE @]

\* A pass ends (passes counts those that changed something); the loop ends with a pass that changed nothing.
EndPass ==
  /\ ~Idle /\ assuming.i \notin DOMAIN assuming.refined
  /\ assuming' = IF assuming.change THEN [assuming EXCEPT !.i = 1, !.change = FALSE, !.passes = @ + 1]
                ELSE None
  /\ UNCHANGED <<env, valuation>>

-----------------------------------------------------------------------------

VsdNext ==
  \/ \E lhs \in Var, exp \in Exprs : Assign(lhs, exp) \/ WeakAssign(lhs, exp)
  \/ \E v \in Var : Kill(v) \/ Cleanup(v)
  \/ \E ids \in SUBSET Var : Project(ids)
  \/ \E a, b \in Var : EquateKill(a, b)
  \/ \E other \in Others :
       \/ JoinOther(other) \/ BoxOther(other)
       \/ \E to, from \in Var : CopyPaste(to, from, other)
  \/ \E cmp \in Cmps : Assume(cmp)
  \/ Refine \/ EndPass

VsdSpec == VsdInit /\ [][VsdNext]_vsd_vars

-----------------------------------------------------------------------------

TypeOK ==
  /\ env.bottom \in BOOLEAN /\ DOMAIN env.elements \subseteq Var
  /\ \A v \in DOMAIN env.elements : IsValueSet(env.elements[v])
  /\ valuation \in Valuations \cup {Dead}
  /\ Idle \/ assuming.i \in 1 .. Len(assuming.lins[1].terms) + 1

\* Whatever is assigned, assumed, forgotten, joined or boxed, the state covers
\* the execution, also in the middle of the loop of assume.
StateCovers == Covers(env, valuation)

\* A state that is not bottom has no empty value set: widening a value set with
\* an empty one throws (vs_finite.cpp:70 asks for the minimum).
NoEmptyValue == ~env.bottom => \A v \in DOMAIN env.elements : env.elements[v] # BottomVs

VsdSound == TypeOK /\ StateCovers /\ NoEmptyValue

\* What fixpoint::iterate relies on: in the order that decides stability a join
\* lies above both states and a box above the new one; and a state that had to
\* be widened has climbed, so that it happens finitely often.
OfKind(e, kind) == {v \in Var : Lookup(e, v).kind = kind}
Height(e) == IF e.bottom THEN 0 ELSE 1 + Cardinality(OfKind(e, "open")) + 2 * Cardinality(OfKind(e, "top"))

EngineBounds ==
  Idle => \A b \in Others : \E joined \in {Joined(env, b)}, boxed \in {Boxed(env, b)} :
    /\ GreaterEq(joined, env) /\ GreaterEq(joined, b) /\ GreaterEq(boxed, b)
    /\ ~GreaterEq(env, b) => Height(boxed) > Height(env)

\* The loop of assume ends: for a condition on different variables the third
\* pass at the latest changes nothing any more.
AssumeEnds == ~Idle => assuming.passes <= 2
=============================================================================
