----------------------------- MODULE ValueSets ------------------------------
(***************************************************************************)
(* Value sets: the abstract values of one numeric variable.                *)
(*                                                                         *)
(* A value set is a finite set of integers (vs_finite, which is bottom     *)
(* when it is empty), an interval open on one side (vs_open) or top.  The  *)
(* operators are those of class value_set; the double dispatch over its    *)
(* three subclasses has become a case distinction in each.                 *)
(***************************************************************************)
EXTENDS Integers, FiniteSetsExt

CONSTANTS MaxInt,   \* largest int64_t; beyond it the code overflows
          MaxGrowth \* vs_finite::max_growth

Ints == -MaxInt .. MaxInt
Dir == {"UPWARD", "DOWNWARD"}

FiniteVs(elements) == [kind |-> "finite", elements |-> elements]
OpenVs(dir, limit) == [kind |-> "open", dir |-> dir, limit |-> limit]
TopVs == [kind |-> "top"]
BottomVs == FiniteVs({})
Single(x) == FiniteVs({x})

Finites == {FiniteVs(elements) : elements \in SUBSET Ints}
Opens == {OpenVs(dir, limit) : dir \in Dir, limit \in Ints}

\* Membership in Finites \cup Opens \cup {TopVs}, in a form that can be
\* evaluated.
IsValueSet(v) ==
  \/ v.kind = "finite" /\ v = FiniteVs(v.elements) /\ v.elements \subseteq Ints
  \/ v.kind = "open" /\ v = OpenVs(v.dir, v.limit) /\ v.dir \in Dir /\ v.limit \in Ints
  \/ v = TopVs

\* The integers a value set stands for.
Contains(v, x) ==
  \/ v.kind = "top"
  \/ v.kind = "finite" /\ x \in v.elements
  \/ v.kind = "open" /\ IF v.dir = "UPWARD" THEN v.limit <= x ELSE x <= v.limit

-----------------------------------------------------------------------------
(* Lattice operations *)

\* smaller_equals: finite sets are compared by their smallest and their
\* greatest element alone.
Leq(a, b) ==
  \/ b.kind = "top"
  \/ a = BottomVs
  \/ /\ a.kind = "finite" /\ b.kind = "finite" /\ b # BottomVs
     /\ Min(b.elements) <= Min(a.elements) /\ Max(a.elements) <= Max(b.elements)
  \/ /\ a.kind = "finite" /\ b.kind = "open"
     /\ Contains(b, IF b.dir = "UPWARD" THEN Min(a.elements) ELSE Max(a.elements))
  \/ a.kind = "open" /\ b.kind = "open" /\ a.dir = b.dir /\ Contains(b, a.limit)

\* The outer and the inner of two limits.
Outer(dir, k, l) == IF (k <= l) = (dir = "UPWARD") THEN k ELSE l
Inner(dir, k, l) == IF (k <= l) = (dir = "UPWARD") THEN l ELSE k

\* The element of a set that decides where an interval open to dir begins.
Extreme(dir, elements) == IF dir = "UPWARD" THEN Min(elements) ELSE Max(elements)

JoinFiniteOpen(elements, o) ==
  IF elements = {} THEN o
  ELSE OpenVs(o.dir, Outer(o.dir, o.limit, Extreme(o.dir, elements)))

JoinVs(a, b) ==
  CASE a.kind = "top" \/ b.kind = "top" -> TopVs
    [] a.kind = "finite" /\ b.kind = "finite" -> FiniteVs(a.elements \cup b.elements)
    [] a.kind = "finite" /\ b.kind = "open" -> JoinFiniteOpen(a.elements, b)
    [] a.kind = "open" /\ b.kind = "finite" -> JoinFiniteOpen(b.elements, a)
    [] a.kind = "open" /\ b.kind = "open" ->
         IF a.dir = b.dir THEN OpenVs(a.dir, Outer(a.dir, a.limit, b.limit)) ELSE TopVs

\* Of two intervals that face each other, the meet is what they share when that
\* is small, and else the one open downwards.
MeetFacing(down, up) ==
  IF down.limit < up.limit THEN BottomVs
  ELSE IF down.limit - up.limit <= MaxGrowth THEN FiniteVs(up.limit .. down.limit)
  ELSE down

MeetVs(a, b) ==
  CASE a.kind = "top" -> b
    [] a.kind # "top" /\ b.kind = "top" -> a
    [] a.kind = "finite" /\ b.kind # "top" ->
         FiniteVs({x \in a.elements : Contains(b, x)})
    [] a.kind = "open" /\ b.kind = "finite" ->
         FiniteVs({x \in b.elements : Contains(a, x)})
    [] a.kind = "open" /\ b.kind = "open" ->
         IF a.dir = b.dir THEN OpenVs(a.dir, Inner(a.dir, a.limit, b.limit))
         ELSE IF a.dir = "DOWNWARD" THEN MeetFacing(a, b) ELSE MeetFacing(b, a)

-----------------------------------------------------------------------------
(* Widening and narrowing.  WidenVs has no value where widen throws: when a *)
(* value set is widened with the empty set, which box narrows with instead. *)

NarrowVs(a, b) ==
  CASE a.kind = "finite" /\ b.kind = "open" -> BottomVs
    [] a.kind = "open" /\ b.kind = "open" -> a
    [] ~(a.kind # "top" /\ b.kind = "open") -> b

WidenVs(a, b) ==
  CASE a.kind = "top" \/ b.kind = "top" -> TopVs
    [] a = BottomVs /\ b.kind # "top" -> b
    [] a.kind = "finite" /\ a # BottomVs /\ b.kind = "finite" /\ b # BottomVs ->
         IF a = b THEN a
         ELSE IF Min(a.elements) <= Min(b.elements) THEN OpenVs("UPWARD", Min(a.elements))
         ELSE IF Max(a.elements) >= Max(b.elements) THEN OpenVs("DOWNWARD", Max(a.elements))
         ELSE TopVs
    [] a.kind = "finite" /\ a # BottomVs /\ b.kind = "open" ->
         IF Contains(b, Extreme(b.dir, a.elements)) THEN b ELSE TopVs
    [] a.kind = "open" /\ b.kind # "top" /\ b # BottomVs ->
         IF Leq(b, a) THEN a ELSE TopVs

\* Faulty variant: a value set that does not lie below the old one is joined.
BoxByJoin(a, b) == IF Leq(b, a) THEN NarrowVs(a, b) ELSE JoinVs(a, b)

BoxVs(a, b) == IF Leq(b, a) THEN NarrowVs(a, b) ELSE WidenVs(a, b)

-----------------------------------------------------------------------------
(* Arithmetic *)

NegVs(v) ==
  CASE v.kind = "finite" -> FiniteVs({-x : x \in v.elements})
    [] v.kind = "open" -> OpenVs(IF v.dir = "UPWARD" THEN "DOWNWARD" ELSE "UPWARD", -v.limit)
    [] v.kind = "top" -> TopVs

AddFiniteOpen(elements, o) ==
  IF elements = {} THEN BottomVs
  ELSE OpenVs(o.dir, Extreme(o.dir, elements) + o.limit)

AddVs(a, b) ==
  CASE a.kind = "top" \/ b.kind = "top" -> TopVs
    [] a.kind = "finite" /\ b.kind = "finite" ->
         FiniteVs({x + y : x \in a.elements, y \in b.elements})
    [] a.kind = "finite" /\ b.kind = "open" -> AddFiniteOpen(a.elements, b)
    [] a.kind = "open" /\ b.kind = "finite" -> AddFiniteOpen(b.elements, a)
    [] a.kind = "open" /\ b.kind = "open" ->
         IF a.dir = b.dir THEN OpenVs(a.dir, a.limit + b.limit) ELSE TopVs

SubVs(a, b) == AddVs(a, NegVs(b))

\* Faulty variant of MulNonNegative: the sign of the limit is not looked at.
MulIgnoringSign(elements, o) ==
  OpenVs(o.dir, Extreme(o.dir, elements) * o.limit)

\* No element is negative.  It is the sign of the limit that decides which
\* element takes it farthest out.
MulNonNegative(elements, o) ==
  OpenVs(o.dir, (IF (o.limit < 0) = (o.dir = "DOWNWARD")
                 THEN Min(elements) ELSE Max(elements)) * o.limit)

MulFiniteOpen(elements, o) ==
  CASE elements = {} -> BottomVs
    [] elements = {0} -> Single(0)
    [] elements \notin {{}, {0}} ->
         IF Min(elements) < 0 /\ Max(elements) > 0 THEN TopVs
         ELSE IF Min(elements) < 0 THEN MulNonNegative({-x : x \in elements}, NegVs(o))
         ELSE MulNonNegative(elements, o)

\* one_sided: the interval holds no two numbers of opposite sign.
OneSided(o) == IF o.dir = "UPWARD" THEN o.limit >= 0 ELSE o.limit <= 0

MulVs(a, b) ==
  CASE a.kind = "top" \/ b.kind = "top" -> TopVs
    [] a.kind = "finite" /\ b.kind = "finite" ->
         FiniteVs({x * y : x \in a.elements, y \in b.elements})
    [] a.kind = "finite" /\ b.kind = "open" -> MulFiniteOpen(a.elements, b)
    [] a.kind = "open" /\ b.kind = "finite" -> MulFiniteOpen(b.elements, a)
    [] a.kind = "open" /\ b.kind = "open" ->
         IF OneSided(a) /\ OneSided(b)
         THEN OpenVs(IF a.dir = b.dir THEN "UPWARD" ELSE "DOWNWARD", a.limit * b.limit)
         ELSE TopVs

\* int64_t division, which truncates towards zero.
Quotient(x, y) ==
  IF (x >= 0) = (y > 0) THEN (IF x >= 0 THEN x ELSE -x) \div (IF y > 0 THEN y ELSE -y)
  ELSE -((IF x >= 0 THEN x ELSE -x) \div (IF y > 0 THEN y ELSE -y))

\* Division by the scale of a variable, when an equation is solved for it: the
\* numbers that scale takes to an element.
DivScale(v, scale) ==
  CASE v.kind = "finite" -> FiniteVs({x \in Ints : x * scale \in v.elements})
    [] v.kind = "open" ->
         OpenVs(IF (scale > 0) = (v.dir = "UPWARD") THEN "UPWARD" ELSE "DOWNWARD",
                Quotient(v.limit, scale))
    [] v.kind = "top" -> TopVs

\* The numbers -hi .. hi a number between lo and hi can be divided to, when
\* the divisor may have either sign.
BothSigns(elements) ==
  {x \in Ints : \E y \in Min(elements \cup {0}) .. Max(elements \cup {0}) : x = y \/ x = -y}

\* A set is divided by an interval or by top: to anything nearer to zero, unless the
\* set reaches too far out.  max_growth is unsigned, so that both ends are compared as
\* unsigned numbers, of which the negative ones are the greatest.
TooFar(low, high) == (low >= 0 \/ low < -MaxGrowth) /\ (high > MaxGrowth \/ high < 0)

DivFiniteByMany(elements, b) ==
  IF elements = {} THEN BottomVs
  ELSE IF TooFar(Min(elements), Max(elements)) THEN TopVs
  ELSE IF b.kind = "open" /\ OneSided(b)
  THEN FiniteVs({(IF b.dir = "UPWARD" THEN x ELSE -x) :
                   x \in Min(elements \cup {0}) .. Max(elements \cup {0})})
  ELSE FiniteVs(BothSigns(elements))

Sign(x) == IF x > 0 THEN 1 ELSE IF x < 0 THEN -1 ELSE 0

\* An interval is divided by a set of numbers of one sign: by the smallest of
\* negative, by the greatest of positive ones.
DivOpenByFinite(o, elements) ==
  IF elements = {} THEN BottomVs
  ELSE IF Sign(Min(elements)) # Sign(Max(elements)) THEN TopVs
  ELSE IF Min(elements) < 0
  THEN OpenVs(IF o.dir = "UPWARD" THEN "DOWNWARD" ELSE "UPWARD", Quotient(o.limit, Min(elements)))
  ELSE OpenVs(o.dir, Quotient(o.limit, Max(elements)))

DivOpenByOpen(o, b) ==
  LET signed == IF b.dir = "UPWARD" THEN o ELSE NegVs(o)
  IN  IF ~OneSided(b) THEN TopVs
      ELSE IF b.limit = 0 THEN signed
      ELSE OpenVs(signed.dir, IF (signed.limit <= 0) = (signed.dir = "UPWARD")
                              THEN signed.limit ELSE 0)

\* operator/.  Of two sets it keeps the quotients that leave no remainder.
DivVs(a, b) ==
  CASE a.kind = "top" \/ (a.kind = "open" /\ b.kind = "top") -> TopVs
    [] a.kind = "finite" /\ b.kind = "finite" ->
         FiniteVs({q \in Ints : \E x \in a.elements, y \in b.elements :
                     IF y = 0 THEN q = 0 ELSE q * y = x})
    [] a.kind = "finite" /\ b.kind # "finite" -> DivFiniteByMany(a.elements, b)
    [] a.kind = "open" /\ b.kind = "finite" -> DivOpenByFinite(a, b.elements)
    [] a.kind = "open" /\ b.kind = "open" -> DivOpenByOpen(a, b)

\* The number that size bits of x stand for, 0 < size < 32.  Of 32 bits the code takes
\* other ones: it shifts an int to mask them (vs_finite.cpp:334, vs_open.cpp:386).
Wrapped(x, unsigned, size) ==
  LET low == x % (2 ^ size)
  IN  IF ~unsigned /\ low >= 2 ^ (size - 1) THEN low - 2 ^ size ELSE low

\* with_sign_size: of an interval the limit is cut off.
WithSignSize(v, unsigned, size) ==
  CASE v.kind = "finite" -> FiniteVs({Wrapped(x, unsigned, size) : x \in v.elements})
    [] v.kind = "open" -> OpenVs(v.dir, Wrapped(v.limit, TRUE, size))
    [] v.kind = "top" -> TopVs

-----------------------------------------------------------------------------
(* Comparisons with a number *)

TrueVs == Single(1)
FalseVs == Single(0)
TrueFalseVs == FiniteVs({0, 1})

\* Whether all, none or some of the members are at most (below, equal to) c.
AtMost(v, c) ==
  CASE v.kind = "finite" ->
         IF v.elements = {} THEN BottomVs
         ELSE IF Max(v.elements) <= c THEN TrueVs
         ELSE IF Min(v.elements) > c THEN FalseVs ELSE TrueFalseVs
    [] v.kind = "open" ->
         IF v.dir = "DOWNWARD" THEN (IF v.limit <= c THEN TrueVs ELSE TrueFalseVs)
         ELSE IF v.limit > c THEN FalseVs ELSE TrueFalseVs
    [] v.kind = "top" -> TrueFalseVs

Below(v, c) ==
  CASE v.kind = "finite" ->
         IF v.elements = {} THEN BottomVs
         ELSE IF Max(v.elements) < c THEN TrueVs
         ELSE IF Min(v.elements) >= c THEN FalseVs ELSE TrueFalseVs
    [] v.kind = "open" ->
         IF v.dir = "DOWNWARD" THEN (IF v.limit < c THEN TrueVs ELSE TrueFalseVs)
         ELSE IF v.limit >= c THEN FalseVs ELSE TrueFalseVs
    [] v.kind = "top" -> TrueFalseVs

EqualTo(v, c) ==
  CASE v.kind = "finite" ->
         IF v.elements = {} THEN BottomVs
         ELSE IF v.elements = {c} THEN TrueVs
         ELSE IF c \notin v.elements THEN FalseVs ELSE TrueFalseVs
    [] v.kind # "finite" -> IF Contains(v, c) THEN TrueFalseVs ELSE FalseVs

\* operator!, and the comparisons made with it.
NotVs(v) ==
  IF Leq(v, TrueVs) /\ Leq(TrueVs, v) THEN FalseVs
  ELSE IF Leq(v, FalseVs) /\ Leq(FalseVs, v) THEN TrueVs
  ELSE TrueFalseVs
=============================================================================
