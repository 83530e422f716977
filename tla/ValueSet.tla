------------------------------ MODULE ValueSet ------------------------------
(***************************************************************************)
(* The state machine evaluates an expression twice: on value sets, the way *)
(* num_evaluator and vsd_state do, and on the integers they stand for.     *)
(***************************************************************************)
EXTENDS ValueSets

CONSTANT Operands \* value sets that occur in the expressions

ASSUME ConstantAssumption ==
  /\ MaxInt \in Nat /\ MaxInt >= 1 /\ MaxGrowth \in Nat
  /\ \A v \in Operands : IsValueSet(v)

-----------------------------------------------------------------------------
(* An expression is evaluated. *)

VARIABLES abs,  \* its value set
          val   \* one of its values

vars == <<abs, val>>

Truth(b) == IF b THEN 1 ELSE 0

\* The evaluation goes on with a result that is representable.
Evaluate(v, x) ==
  /\ IsValueSet(v) /\ x \in Ints
  /\ abs' = v /\ val' = x

Init == abs \in Operands /\ val \in {x \in Ints : Contains(abs, x)}

\* Arithmetic with an operand that has the value y.
Arithmetic ==
  \E b \in Operands : \E y \in {y \in Ints : Contains(b, y)} :
    \/ Evaluate(AddVs(abs, b), val + y)
    \/ Evaluate(SubVs(abs, b), val - y)
    \/ Evaluate(MulVs(abs, b), val * y)

Negate == Evaluate(NegVs(abs), -val)

Solve ==
  \E scale \in Ints \ {0} : \E x \in Ints :
    x * scale = val /\ Evaluate(DivScale(abs, scale), x)

Compare ==
  \E c \in Ints :
    \/ Evaluate(AtMost(abs, c), Truth(val <= c))
    \/ Evaluate(NotVs(Below(abs, c)), Truth(val >= c))
    \/ Evaluate(Below(abs, c), Truth(val < c))
    \/ Evaluate(NotVs(AtMost(abs, c)), Truth(val > c))
    \/ Evaluate(EqualTo(abs, c), Truth(val = c))
    \/ Evaluate(NotVs(EqualTo(abs, c)), Truth(val # c))

\* Two paths join: the value comes from either.
Join ==
  \E b \in Operands : \E x \in {val} \cup {y \in Ints : Contains(b, y)} :
    Evaluate(JoinVs(abs, b), x)

\* A condition restricts the value: it has it already.
Meet == \E b \in Operands : Contains(b, val) /\ Evaluate(MeetVs(abs, b), val)

\* A loop head takes in what comes over a back edge.
Box ==
  \E b \in Operands : \E y \in {y \in Ints : Contains(b, y)} :
    Evaluate(BoxVs(abs, b), y)

Next == Arithmetic \/ Negate \/ Solve \/ Compare \/ Join \/ Meet \/ Box

Spec == Init /\ [][Next]_vars

-----------------------------------------------------------------------------

\* Whatever is evaluated, joined, restricted or boxed, the value set holds the
\* value: for a box, the value that came over the back edge.
Sound == Contains(abs, val)

\* Widening climbs: a value set can be widened three times at most before it is
\* top, so that a loop head is boxed upwards only finitely often.
Rank(v) == CASE v = BottomVs -> 0
             [] v.kind = "finite" /\ v # BottomVs -> 1
             [] v.kind = "open" -> 2
             [] v.kind = "top" -> 3

WideningClimbs ==
  \A b \in Operands : ~Leq(b, abs) => Rank(BoxVs(abs, b)) > Rank(abs)

\* What the fixpoint engine relies on: in the order it decides stability with,
\* a join lies above both operands and a box above what was boxed.
BoundsHold ==
  \A b \in Operands :
    /\ Leq(abs, JoinVs(abs, b)) /\ Leq(b, JoinVs(abs, b))
    /\ Leq(b, BoxVs(abs, b)) /\ (b # BottomVs => Leq(b, WidenVs(abs, b)))

\* smaller_equals, join and meet are headed "Lattice operations": what lies
\* below two value sets would have to lie below their meet.
MeetIsGreatest ==
  \A b, c \in Operands : Leq(c, abs) /\ Leq(c, b) => Leq(c, MeetVs(abs, b))
=============================================================================
