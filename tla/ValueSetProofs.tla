--------------------------- MODULE ValueSetProofs ---------------------------
(***************************************************************************)
(* Proofs about value sets, for every MaxInt, MaxGrowth and Operands, and  *)
(* about the state that has one for each variable, for every set of        *)
(* variables, symbols, states, right-hand sides and conditions.            *)
(*                                                                         *)
(* An operation is looked at kind by kind: Kinds gives the three forms of  *)
(* a value set, ContainsKind and LeqKinds say what membership and the      *)
(* order are for each form, and Extremes says what the smallest and the    *)
(* greatest element of a finite one are.                                   *)
(*                                                                         *)
(* A linear expression is evaluated by a fold over its terms: QueryLinIs   *)
(* and LinValuesIs give the results from each term on, for value sets and  *)
(* for numbers, and Downward carries over from the last term to the first  *)
(* what each term keeps.  The refinement of assume is a fold over the      *)
(* equations (RefinedSound), each of which has a chain of sums for the     *)
(* values of the variables (ChainOf, EquationZero, RestChain).             *)
(***************************************************************************)
EXTENDS ValueSet, VsdState, FiniteSetTheorems, WellFoundedInduction, TLAPS

-----------------------------------------------------------------------------
(* The smallest and the greatest element of a set *)

\* A set of natural numbers has a smallest element.
LEMMA LeastNatural ==
  ASSUME NEW T \in SUBSET Nat, T # {}
  PROVE  \E m \in T : \A n \in T : m <= n
<1>1. PICK m \in T : \A n \in T : ~(<<n, m>> \in OpToRel(<, Nat))
  BY NatLessThanWellFounded, WFMin, Zenon
<1>2. ASSUME NEW n \in T PROVE m <= n
  <2>1. n \in Nat /\ m \in Nat
    OBVIOUS
  <2>2. ~(n < m)
    BY <1>1, <2>1, Zenon DEF OpToRel
  <2>3. QED
    BY <2>1, <2>2
<1>3. QED
  BY <1>2

\* The finite sets of integers, and the value sets with a finite set or a limit
\* of any size: what is between two operations need not be representable.
Bounded == {S \in SUBSET Int : \E n \in Nat : S \subseteq -n .. n}

IsWide(v) ==
  \/ v = TopVs
  \/ \E S \in Bounded : v = FiniteVs(S)
  \/ \E dir \in Dir, k \in Int : v = OpenVs(dir, k)

LEMMA BoundedIs ==
  /\ \A S \in Bounded : S \in SUBSET Int
  /\ \A S \in Bounded : \A T \in SUBSET S : T \in Bounded
<1>1. ASSUME NEW S \in Bounded, NEW T \in SUBSET S PROVE T \in Bounded
  <2>1. PICK n \in Nat : S \subseteq -n .. n
    BY DEF Bounded
  <2>2. T \in SUBSET Int /\ T \subseteq -n .. n
    BY <2>1 DEF Bounded
  <2>3. QED
    BY <2>2 DEF Bounded
<1>2. QED
  BY <1>1 DEF Bounded

LEMMA SmallBounded ==
  /\ {} \in Bounded
  /\ \A x \in Int : {x} \in Bounded
  /\ \A lo, hi \in Int : lo .. hi \in Bounded
<1>1. ASSUME NEW lo \in Int, NEW hi \in Int PROVE lo .. hi \in Bounded
  <2>1. PICK n \in Nat : -n <= lo /\ hi <= n
    <3>1. CASE lo <= 0 /\ hi <= -lo
      <4>1. -lo \in Nat /\ -(-lo) <= lo /\ hi <= -lo
        BY <3>1
      <4>2. QED
        BY <4>1
    <3>2. CASE 0 <= hi /\ -hi <= lo
      BY <3>2
    <3>3. CASE 0 < lo /\ hi < lo
      <4>1. lo \in Nat /\ -lo <= lo /\ hi <= lo
        BY <3>3
      <4>2. QED
        BY <4>1
    <3>4. QED
      BY <3>1, <3>2, <3>3
  <2>2. lo .. hi \in SUBSET Int /\ lo .. hi \subseteq -n .. n
    BY <2>1
  <2>3. QED
    BY <2>2 DEF Bounded
<1>2. ASSUME NEW x \in Int PROVE {x} \in Bounded
  <2>1. {x} = x .. x
    OBVIOUS
  <2>2. QED
    BY <1>1, <2>1
<1>3. {} \in Bounded
  <2>1. {0} \in Bounded /\ {} \in SUBSET {0}
    BY <1>2
  <2>2. QED
    BY <2>1, BoundedIs, Zenon
<1>4. QED
  BY <1>1, <1>2, <1>3

LEMMA UnionBounded ==
  ASSUME NEW S \in Bounded, NEW T \in Bounded
  PROVE  S \cup T \in Bounded
<1>1. PICK m \in Nat : S \subseteq -m .. m
  BY DEF Bounded
<1>2. PICK n \in Nat : T \subseteq -n .. n
  BY DEF Bounded
<1>3. m + n \in Nat /\ S \cup T \subseteq -(m + n) .. (m + n)
  BY <1>1, <1>2
<1>4. QED
  BY <1>3, BoundedIs DEF Bounded

\* The representable value sets are among them.
LEMMA ValueSetIsWide ==
  ASSUME MaxInt \in Nat
  PROVE  /\ \A S \in SUBSET Ints : S \in Bounded
         /\ \A x \in Ints : x \in Int
         /\ \A v : IsValueSet(v) => IsWide(v)
<1>1. Ints \in SUBSET Int /\ Ints \subseteq -MaxInt .. MaxInt
  BY DEF Ints
<1>2. \A S \in SUBSET Ints : S \in Bounded
  BY <1>1 DEF Bounded
<1>3. \A x \in Ints : x \in Int
  BY <1>1
<1>4. \A v : IsValueSet(v) => IsWide(v)
  BY <1>2, <1>3 DEF IsValueSet, IsWide
<1>5. QED
  BY <1>2, <1>3, <1>4

\* A finite set of integers has a least element, as it has shifted ...
LEMMA LeastInt ==
  ASSUME NEW S \in Bounded, S # {}
  PROVE  \E m \in S : \A n \in S : m <= n
<1>0. PICK N \in Nat : S \subseteq -N .. N
  BY DEF Bounded
<1> DEFINE T == {x + N : x \in S}
<1>1. T \in SUBSET Nat /\ T # {}
  BY <1>0
<1>2. \E t \in T : \A u \in T : t <= u
  <2> HIDE DEF T
  <2> QED BY <1>1, LeastNatural
<1>3. PICK m \in S : \A u \in T : m + N <= u
  BY <1>2
<1>4. ASSUME NEW n \in S PROVE m <= n
  <2>1. m + N <= n + N
    BY <1>3
  <2>2. QED
    BY <1>0, <2>1
<1>5. QED
  BY <1>4

\* The opposites of a finite set of integers.
LEMMA NegBounded ==
  ASSUME NEW S \in Bounded
  PROVE  {-x : x \in S} \in Bounded
<1>1. PICK n \in Nat : S \subseteq -n .. n
  BY DEF Bounded
<1>2. \A x \in S : -x \in Int /\ -x \in -n .. n
  BY <1>1
<1>3. {-x : x \in S} \in SUBSET Int /\ {-x : x \in S} \subseteq -n .. n
  BY <1>2
<1>4. QED
  BY <1>3 DEF Bounded

\* ... and, negated, a greatest one.
LEMMA GreatestInt ==
  ASSUME NEW S \in Bounded, S # {}
  PROVE  \E m \in S : \A n \in S : n <= m
<1> DEFINE T == {-x : x \in S}
<1>1. T \in Bounded /\ T # {}
  BY NegBounded
<1>2. \E t \in T : \A u \in T : t <= u
  <2> HIDE DEF T
  <2> QED BY <1>1, LeastInt
<1>3. PICK m \in S : \A u \in T : -m <= u
  BY <1>2
<1>4. ASSUME NEW n \in S PROVE n <= m
  <2>1. -m <= -n
    BY <1>3
  <2>2. QED
    BY <2>1, BoundedIs
<1>5. QED
  BY <1>4

\* Min and Max are these elements.
LEMMA Bounds ==
  ASSUME NEW S \in Bounded, S # {}
  PROVE  /\ Min(S) \in S /\ \A n \in S : Min(S) <= n
         /\ Max(S) \in S /\ \A n \in S : n <= Max(S)
<1>1. \E m \in S : \A n \in S : m <= n
  BY LeastInt
<1>2. \E m \in S : \A n \in S : m >= n
  <2>1. PICK m \in S : \A n \in S : n <= m
    BY GreatestInt
  <2> QED BY <2>1
<1>3. Min(S) \in S /\ \A n \in S : Min(S) <= n
  BY <1>1, Zenon DEF Min
<1>4. Max(S) \in S /\ \A n \in S : Max(S) >= n
  BY <1>2, Zenon DEF Max
<1> QED BY <1>3, <1>4

-----------------------------------------------------------------------------
(* Forms of value sets *)

\* A value set is top, finite or open.
LEMMA Kinds ==
  ASSUME NEW v, IsWide(v)
  PROVE  \/ v = TopVs
         \/ \E elements \in Bounded : v = FiniteVs(elements)
         \/ \E dir \in Dir, limit \in Int : v = OpenVs(dir, limit)
BY DEF IsWide

\* A finite one is bottom or has an element.
LEMMA KindsApart ==
  ASSUME NEW v, IsWide(v)
  PROVE  \/ v = TopVs
         \/ v = BottomVs
         \/ \E elements \in Bounded : elements # {} /\ v = FiniteVs(elements)
         \/ \E dir \in Dir, limit \in Int : v = OpenVs(dir, limit)
<1>1. ASSUME NEW S \in Bounded, v = FiniteVs(S)
      PROVE  v = BottomVs \/ \E elements \in Bounded : elements # {} /\ v = FiniteVs(elements)
  <2>1. CASE S = {}
    BY <1>1, <2>1 DEF BottomVs
  <2>2. CASE S # {}
    BY <1>1, <2>2
  <2>3. QED
    BY <2>1, <2>2
<1>2. QED
  BY <1>1, Kinds

\* What each form contains.
LEMMA ContainsKind ==
  /\ \A x : Contains(TopVs, x)
  /\ \A S, x : Contains(FiniteVs(S), x) <=> x \in S
  /\ \A k, x : Contains(OpenVs("UPWARD", k), x) <=> k <= x
  /\ \A k, x : Contains(OpenVs("DOWNWARD", k), x) <=> x <= k
BY DEF Contains, TopVs, FiniteVs, OpenVs

\* An element lies between the extremes of its set (vs_finite::min, max).
LEMMA Extremes ==
  ASSUME NEW S \in Bounded, NEW x \in S
  PROVE  /\ S # {} /\ Min(S) \in S /\ Max(S) \in S
         /\ Min(S) <= x /\ x <= Max(S)
         /\ Min(S) \in Int /\ Max(S) \in Int /\ x \in Int
<1>1. S # {}
  OBVIOUS
<1>2. Min(S) \in S /\ Max(S) \in S /\ Min(S) <= x /\ x <= Max(S)
  BY <1>1, Bounds
<1>3. S \subseteq Int
  BY BoundedIs
<1>4. QED
  BY <1>1, <1>2, <1>3

-----------------------------------------------------------------------------
(* Soundness of each operation *)

\* The sum of a finite and an open value set is sound.
LEMMA AddFiniteOpenSound ==
  ASSUME NEW S \in Bounded, NEW x \in S,
         NEW dir \in Dir, NEW k \in Int, NEW y \in Int, Contains(OpenVs(dir, k), y)
  PROVE  Contains(AddFiniteOpen(S, OpenVs(dir, k)), x + y)
<1>1. AddFiniteOpen(S, OpenVs(dir, k)) = OpenVs(dir, Extreme(dir, S) + k)
  BY Extremes DEF AddFiniteOpen, OpenVs
<1>2. CASE dir = "UPWARD"
  BY <1>1, <1>2, Extremes, ContainsKind DEF Extreme
<1>3. CASE dir = "DOWNWARD"
  BY <1>1, <1>3, Extremes, ContainsKind DEF Extreme
<1>4. QED
  BY <1>2, <1>3 DEF Dir

\* operator+ is sound.
LEMMA AddSound ==
  ASSUME NEW a, NEW b, IsWide(a), IsWide(b),
         NEW x \in Int, NEW y \in Int, Contains(a, x), Contains(b, y)
  PROVE  Contains(AddVs(a, b), x + y)
<1>1. CASE a = TopVs \/ b = TopVs
  BY <1>1, ContainsKind DEF AddVs, TopVs
<1>2. ASSUME NEW S \in Bounded, NEW T \in Bounded, a = FiniteVs(S), b = FiniteVs(T)
      PROVE  Contains(AddVs(a, b), x + y)
  <2>1. x \in S /\ y \in T
    BY <1>2, ContainsKind
  <2>2. AddVs(a, b) = FiniteVs({m + n : m \in S, n \in T})
    BY <1>2 DEF AddVs, FiniteVs
  <2>3. QED
    BY <2>1, <2>2, ContainsKind
<1>3. ASSUME NEW S \in Bounded, NEW dir \in Dir, NEW k \in Int,
             a = FiniteVs(S), b = OpenVs(dir, k)
      PROVE  Contains(AddVs(a, b), x + y)
  <2>1. AddVs(a, b) = AddFiniteOpen(S, b)
    BY <1>3 DEF AddVs, FiniteVs, OpenVs
  <2>2. QED
    BY <1>3, <2>1, ContainsKind, AddFiniteOpenSound
<1>4. ASSUME NEW S \in Bounded, NEW dir \in Dir, NEW k \in Int,
             b = FiniteVs(S), a = OpenVs(dir, k)
      PROVE  Contains(AddVs(a, b), x + y)
  <2>1. AddVs(a, b) = AddFiniteOpen(S, a)
    BY <1>4 DEF AddVs, FiniteVs, OpenVs
  <2>2. Contains(AddFiniteOpen(S, a), y + x)
    BY <1>4, ContainsKind, AddFiniteOpenSound
  <2>3. y + x = x + y
    OBVIOUS
  <2>4. QED
    BY <2>1, <2>2, <2>3
<1>5. ASSUME NEW d \in Dir, NEW k \in Int, NEW e \in Dir, NEW l \in Int,
             a = OpenVs(d, k), b = OpenVs(e, l)
      PROVE  Contains(AddVs(a, b), x + y)
  <2>1. AddVs(a, b) = IF d = e THEN OpenVs(d, k + l) ELSE TopVs
    BY <1>5 DEF AddVs, OpenVs
  <2>2. d = "UPWARD" /\ e = "UPWARD" => k + l <= x + y
    BY <1>5, ContainsKind
  <2>3. d = "DOWNWARD" /\ e = "DOWNWARD" => x + y <= k + l
    BY <1>5, ContainsKind
  <2>4. QED
    BY <2>1, <2>2, <2>3, ContainsKind DEF Dir
<1>6. QED
  BY <1>1, <1>2, <1>3, <1>4, <1>5, Kinds

\* The unary operator- is sound ...
LEMMA NegSound ==
  ASSUME NEW a, IsWide(a), NEW x \in Int, Contains(a, x)
  PROVE  Contains(NegVs(a), -x)
<1>1. CASE a = TopVs
  BY <1>1, ContainsKind DEF NegVs, TopVs
<1>2. ASSUME NEW S \in Bounded, a = FiniteVs(S)
      PROVE  Contains(NegVs(a), -x)
  <2>1. NegVs(a) = FiniteVs({-m : m \in S})
    BY <1>2 DEF NegVs, FiniteVs
  <2>2. QED
    BY <1>2, <2>1, ContainsKind
<1>3. ASSUME NEW k \in Int, a = OpenVs("UPWARD", k)
      PROVE  Contains(NegVs(a), -x)
  <2>1. NegVs(a) = OpenVs("DOWNWARD", -k)
    BY <1>3 DEF NegVs, OpenVs
  <2>2. QED
    BY <1>3, <2>1, ContainsKind
<1>4. ASSUME NEW k \in Int, a = OpenVs("DOWNWARD", k)
      PROVE  Contains(NegVs(a), -x)
  <2>1. NegVs(a) = OpenVs("UPWARD", -k)
    BY <1>4 DEF NegVs, OpenVs
  <2>2. QED
    BY <1>4, <2>1, ContainsKind
<1>5. QED
  BY <1>1, <1>2, <1>3, <1>4, Kinds DEF Dir

\* ... and yields a value set, so that it can be added.
LEMMA NegValueSet ==
  ASSUME NEW a, IsWide(a)
  PROVE  IsWide(NegVs(a))
<1>1. CASE a = TopVs
  BY <1>1 DEF NegVs, TopVs, IsWide
<1>2. ASSUME NEW S \in Bounded, a = FiniteVs(S)
      PROVE  IsWide(NegVs(a))
  <2>1. NegVs(a) = FiniteVs({-m : m \in S})
    BY <1>2 DEF NegVs, FiniteVs
  <2>2. QED
    BY <2>1, NegBounded DEF IsWide
<1>3. ASSUME NEW d \in Dir, NEW k \in Int, a = OpenVs(d, k)
      PROVE  IsWide(NegVs(a))
  <2>1. NegVs(a) = OpenVs(IF d = "UPWARD" THEN "DOWNWARD" ELSE "UPWARD", -k)
    BY <1>3 DEF NegVs, OpenVs
  <2>2. -k \in Int
    OBVIOUS
  <2>3. QED
    BY <2>1, <2>2 DEF IsWide, Dir
<1>4. QED
  BY <1>1, <1>2, <1>3, Kinds

\* The binary operator- is sound: it adds the negation.
LEMMA SubSound ==
  ASSUME NEW a, NEW b, IsWide(a), IsWide(b),
         NEW x \in Int, NEW y \in Int, Contains(a, x), Contains(b, y)
  PROVE  Contains(SubVs(a, b), x - y)
<1>1. -y \in Int /\ x + (-y) = x - y
  OBVIOUS
<1>2. Contains(AddVs(a, NegVs(b)), x + (-y))
  BY <1>1, NegSound, NegValueSet, AddSound
<1>3. QED
  BY <1>1, <1>2 DEF SubVs

\* Multiplication keeps the order or, with a negative number, turns it.
LEMMA TimesMonotone ==
  ASSUME NEW p \in Int, NEW q \in Int, NEW r \in Int, p <= q
  PROVE  /\ 0 <= r => p * r <= q * r /\ r * p <= r * q
         /\ r <= 0 => q * r <= p * r /\ r * q <= r * p
<1>1. (q - p) \in Nat /\ q * r = p * r + (q - p) * r /\ r * q = q * r /\ r * p = p * r
  OBVIOUS
<1>2. 0 <= r => (q - p) * r >= 0
  BY <1>1
<1>3. r <= 0 => (q - p) * r <= 0
  BY <1>1
<1>4. p * r \in Int /\ q * r \in Int /\ (q - p) * r \in Int
  OBVIOUS
<1>5. QED
  BY <1>1, <1>2, <1>3, <1>4

\* The product with a set that has no negative element is sound.
LEMMA MulNonNegativeSound ==
  ASSUME NEW S \in Bounded, NEW x \in S, 0 <= Min(S),
         NEW dir \in Dir, NEW k \in Int, NEW y \in Int, Contains(OpenVs(dir, k), y)
  PROVE  Contains(MulNonNegative(S, OpenVs(dir, k)), x * y)
<1> DEFINE end == (IF (k < 0) = (dir = "DOWNWARD") THEN Min(S) ELSE Max(S)) * k
<1>1. MulNonNegative(S, OpenVs(dir, k)) = OpenVs(dir, end)
  BY DEF MulNonNegative, OpenVs
<1>2. /\ Min(S) \in Int /\ Max(S) \in Int /\ x \in Int /\ y \in Int /\ k \in Int
      /\ Min(S) <= x /\ x <= Max(S) /\ 0 <= x
  BY Extremes
<1>3. /\ Min(S) * k \in Int /\ Max(S) * k \in Int /\ x * k \in Int /\ x * y \in Int
  BY <1>2
<1>4. CASE dir = "UPWARD"
  <2>1. k <= y /\ x * k <= x * y
    BY <1>2, <1>4, ContainsKind, TimesMonotone
  <2>2. 0 <= k => Min(S) * k <= x * k
    BY <1>2, TimesMonotone
  <2>3. k < 0 => Max(S) * k <= x * k
    BY <1>2, TimesMonotone
  <2>4. end <= x * y
    BY <1>2, <1>3, <1>4, <2>1, <2>2, <2>3
  <2>5. QED
    BY <1>1, <1>4, <2>4, ContainsKind
<1>5. CASE dir = "DOWNWARD"
  <2>1. y <= k /\ x * y <= x * k
    BY <1>2, <1>5, ContainsKind, TimesMonotone
  <2>2. 0 <= k => x * k <= Max(S) * k
    BY <1>2, TimesMonotone
  <2>3. k < 0 => x * k <= Min(S) * k
    BY <1>2, TimesMonotone
  <2>4. x * y <= end
    BY <1>2, <1>3, <1>5, <2>1, <2>2, <2>3
  <2>5. QED
    BY <1>1, <1>5, <2>4, ContainsKind
<1>6. QED
  BY <1>4, <1>5 DEF Dir

\* The product of a finite and an open value set is sound.
LEMMA MulFiniteOpenSound ==
  ASSUME NEW S \in Bounded, NEW x \in S,
         NEW dir \in Dir, NEW k \in Int, NEW y \in Int, Contains(OpenVs(dir, k), y)
  PROVE  Contains(MulFiniteOpen(S, OpenVs(dir, k)), x * y)
<1> DEFINE o == OpenVs(dir, k)
<1>1. /\ Min(S) \in Int /\ Max(S) \in Int /\ x \in Int /\ y \in Int
      /\ Min(S) <= x /\ x <= Max(S) /\ S # {}
  BY Extremes
<1>2. CASE S = {0}
  <2>1. MulFiniteOpen(S, o) = FiniteVs({0})
    BY <1>2 DEF MulFiniteOpen, Single
  <2>2. x * y = 0
    BY <1>1, <1>2
  <2>3. QED
    BY <2>1, <2>2, ContainsKind
<1>3. CASE S # {0} /\ Min(S) < 0 /\ Max(S) > 0
  BY <1>1, <1>3, ContainsKind DEF MulFiniteOpen
<1>4. CASE S # {0} /\ Min(S) < 0 /\ ~(Max(S) > 0)
  <2> DEFINE T == {-m : m \in S}
             d == IF dir = "UPWARD" THEN "DOWNWARD" ELSE "UPWARD"
  <2>1. MulFiniteOpen(S, o) = MulNonNegative(T, NegVs(o))
    BY <1>1, <1>4 DEF MulFiniteOpen
  <2>2. NegVs(o) = OpenVs(d, -k)
    BY DEF NegVs, OpenVs
  <2>3. T \in Bounded /\ -x \in T /\ -y \in Int /\ -k \in Int /\ d \in Dir
    <3>1. T \in Bounded
      BY NegBounded
    <3>2. QED
      BY <1>1, <3>1 DEF Dir
  <2>4. 0 <= Min(T)
    <3>1. Min(T) \in T
      <4> HIDE DEF T
      <4> QED BY <2>3, Extremes
    <3>2. PICK m \in S : Min(T) = -m
      BY <3>1
    <3>3. m <= Max(S) /\ m \in Int
      BY Extremes
    <3>4. QED
      BY <1>1, <1>4, <3>2, <3>3
  <2>5. Contains(OpenVs(d, -k), -y)
    <3>1. CASE dir = "UPWARD"
      BY <3>1, ContainsKind
    <3>2. CASE dir = "DOWNWARD"
      BY <3>2, ContainsKind
    <3>3. QED
      BY <3>1, <3>2 DEF Dir
  <2>6. Contains(MulNonNegative(T, OpenVs(d, -k)), (-x) * (-y))
    <3> HIDE DEF T, d
    <3> QED BY <2>3, <2>4, <2>5, MulNonNegativeSound
  <2>7. (-x) * (-y) = x * y
    BY <1>1
  <2>8. QED
    BY <2>1, <2>2, <2>6, <2>7
<1>5. CASE S # {0} /\ ~(Min(S) < 0)
  <2>1. MulFiniteOpen(S, o) = MulNonNegative(S, o)
    BY <1>1, <1>5 DEF MulFiniteOpen
  <2>2. 0 <= Min(S)
    BY <1>1, <1>5
  <2>3. QED
    BY <2>1, <2>2, MulNonNegativeSound
<1>6. QED
  BY <1>2, <1>3, <1>4, <1>5

\* operator* is sound.
LEMMA MulSound ==
  ASSUME NEW a, NEW b, IsWide(a), IsWide(b),
         NEW x \in Int, NEW y \in Int, Contains(a, x), Contains(b, y)
  PROVE  Contains(MulVs(a, b), x * y)
<1>1. CASE a = TopVs \/ b = TopVs
  BY <1>1, ContainsKind DEF MulVs, TopVs
<1>2. ASSUME NEW S \in Bounded, NEW T \in Bounded, a = FiniteVs(S), b = FiniteVs(T)
      PROVE  Contains(MulVs(a, b), x * y)
  <2>1. x \in S /\ y \in T
    BY <1>2, ContainsKind
  <2>2. MulVs(a, b) = FiniteVs({m * n : m \in S, n \in T})
    BY <1>2 DEF MulVs, FiniteVs
  <2>3. QED
    BY <2>1, <2>2, ContainsKind
<1>3. ASSUME NEW S \in Bounded, NEW dir \in Dir, NEW k \in Int,
             a = FiniteVs(S), b = OpenVs(dir, k)
      PROVE  Contains(MulVs(a, b), x * y)
  <2>1. MulVs(a, b) = MulFiniteOpen(S, b)
    BY <1>3 DEF MulVs, FiniteVs, OpenVs
  <2>2. QED
    BY <1>3, <2>1, ContainsKind, MulFiniteOpenSound
<1>4. ASSUME NEW S \in Bounded, NEW dir \in Dir, NEW k \in Int,
             b = FiniteVs(S), a = OpenVs(dir, k)
      PROVE  Contains(MulVs(a, b), x * y)
  <2>1. MulVs(a, b) = MulFiniteOpen(S, a)
    BY <1>4 DEF MulVs, FiniteVs, OpenVs
  <2>2. Contains(MulFiniteOpen(S, a), y * x)
    BY <1>4, ContainsKind, MulFiniteOpenSound
  <2>3. y * x = x * y
    OBVIOUS
  <2>4. QED
    BY <2>1, <2>2, <2>3
<1>5. ASSUME NEW d \in Dir, NEW k \in Int, NEW e \in Dir, NEW l \in Int,
             a = OpenVs(d, k), b = OpenVs(e, l)
      PROVE  Contains(MulVs(a, b), x * y)
  <2>1. CASE ~(OneSided(a) /\ OneSided(b))
    BY <1>5, <2>1, ContainsKind DEF MulVs, OpenVs
  <2>2. CASE OneSided(a) /\ OneSided(b)
    <3>1. MulVs(a, b) = OpenVs(IF d = e THEN "UPWARD" ELSE "DOWNWARD", k * l)
      BY <1>5, <2>2 DEF MulVs, OpenVs
    <3>2. /\ d = "UPWARD" => 0 <= k /\ k <= x
          /\ d = "DOWNWARD" => k <= 0 /\ x <= k
          /\ e = "UPWARD" => 0 <= l /\ l <= y
          /\ e = "DOWNWARD" => l <= 0 /\ y <= l
      BY <1>5, <2>2, ContainsKind DEF OneSided, OpenVs
    <3>3. k \in Int /\ l \in Int /\ x \in Int /\ y \in Int
      OBVIOUS
    <3>4. k * l \in Int /\ x * l \in Int /\ x * y \in Int
      BY <3>3
    <3>5. d = e => k * l <= x * l /\ x * l <= x * y
      BY <3>2, <3>3, TimesMonotone DEF Dir
    <3>6. d # e => x * l <= k * l /\ x * y <= x * l
      BY <3>2, <3>3, TimesMonotone DEF Dir
    <3>7. QED
      BY <3>1, <3>4, <3>5, <3>6, ContainsKind
  <2>3. QED
    BY <2>1, <2>2
<1>6. QED
  BY <1>1, <1>2, <1>3, <1>4, <1>5, Kinds

\* A quotient of natural numbers, as a bound for an integer and for its opposite.
LEMMA DivBounds ==
  ASSUME NEW n \in Nat, NEW d \in Nat, d > 0, NEW x \in Int
  PROVE  /\ n \div d \in Nat
         /\ n <= x * d => n \div d <= x
         /\ x * d <= n => x <= n \div d
         /\ -n <= x * d => -(n \div d) <= x
         /\ x * d <= -n => x <= -(n \div d)
<1> DEFINE q == n \div d
<1>1. q \in Nat /\ d * q <= n /\ n < d * q + d
  OBVIOUS
<1>2. \A y, z \in Int : y < z => y * d + d <= z * d
  <2>1. SUFFICES ASSUME NEW y \in Int, NEW z \in Int, y < z
                 PROVE  y * d + d <= z * d
    OBVIOUS
  <2>2. (y + 1) * d <= z * d
    BY <2>1, TimesMonotone
  <2>3. (y + 1) * d = y * d + d
    OBVIOUS
  <2>4. QED
    BY <2>2, <2>3
<1>3. x * d \in Int /\ q * d \in Int /\ d * q = q * d /\ (-q) * d = -(q * d)
  BY <1>1
<1> HIDE DEF q
<1>4. n <= x * d => q <= x
  BY <1>1, <1>2, <1>3
<1>5. x * d <= n => x <= q
  BY <1>1, <1>2, <1>3
<1>6. -n <= x * d => -q <= x
  BY <1>1, <1>2, <1>3
<1>7. x * d <= -n => x <= -q
  BY <1>1, <1>2, <1>3
<1>8. QED
  BY <1>1, <1>4, <1>5, <1>6, <1>7 DEF q

\* Truncated division rounds to the side that keeps what it bounds.
LEMMA QuotientBounds ==
  ASSUME NEW k \in Int, NEW s \in Int, s # 0, NEW x \in Int
  PROVE  /\ s > 0 /\ k <= x * s => Quotient(k, s) <= x
         /\ s > 0 /\ x * s <= k => x <= Quotient(k, s)
         /\ s < 0 /\ k <= x * s => x <= Quotient(k, s)
         /\ s < 0 /\ x * s <= k => Quotient(k, s) <= x
<1> DEFINE n == IF k >= 0 THEN k ELSE -k
           d == IF s > 0 THEN s ELSE -s
           q == n \div d
<1>1. n \in Nat /\ d \in Nat /\ d > 0 /\ -x \in Int
  OBVIOUS
<1>2. Quotient(k, s) = IF (k >= 0) = (s > 0) THEN q ELSE -q
  BY DEF Quotient
<1>3. CASE s > 0
  <2>1. d = s
    BY <1>3
  <2>2. /\ q \in Nat
        /\ n <= x * s => q <= x
        /\ x * s <= n => x <= q
        /\ -n <= x * s => -q <= x
        /\ x * s <= -n => x <= -q
    <3> HIDE DEF n, d
    <3> QED BY <1>1, <2>1, DivBounds
  <2>3. x * s \in Int
    OBVIOUS
  <2> HIDE DEF q
  <2>4. QED
    BY <1>2, <1>3, <2>2, <2>3
<1>4. CASE s < 0
  <2>1. d = -s /\ x * s = (-x) * d /\ (-x) * d \in Int
    BY <1>4
  <2>2. /\ q \in Nat
        /\ n <= (-x) * d => q <= -x
        /\ (-x) * d <= n => -x <= q
        /\ -n <= (-x) * d => -q <= -x
        /\ (-x) * d <= -n => -x <= -q
    <3> HIDE DEF n, d
    <3> QED BY <1>1, DivBounds
  <2> HIDE DEF q, d
  <2>3. QED
    BY <1>2, <1>4, <2>1, <2>2
<1>5. QED
  BY <1>3, <1>4

\* Solving for a scaled variable (operator/) is sound.
LEMMA DivScaleSound ==
  ASSUME NEW a, IsWide(a), NEW scale \in Int \ {0}, NEW x \in Ints,
         Contains(a, x * scale)
  PROVE  Contains(DivScale(a, scale), x)
<1>1. CASE a = TopVs
  BY <1>1, ContainsKind DEF DivScale, TopVs
<1>2. ASSUME NEW S \in Bounded, a = FiniteVs(S)
      PROVE  Contains(DivScale(a, scale), x)
  <2>1. DivScale(a, scale) = FiniteVs({m \in Ints : m * scale \in S})
    BY <1>2 DEF DivScale, FiniteVs
  <2>2. QED
    BY <1>2, <2>1, ContainsKind
<1>3. ASSUME NEW dir \in Dir, NEW k \in Int, a = OpenVs(dir, k)
      PROVE  Contains(DivScale(a, scale), x)
  <2>1. DivScale(a, scale) =
          OpenVs(IF (scale > 0) = (dir = "UPWARD") THEN "UPWARD" ELSE "DOWNWARD",
                 Quotient(k, scale))
    BY <1>3 DEF DivScale, OpenVs
  <2>2. k \in Int /\ scale \in Int /\ scale # 0 /\ x \in Int
    BY DEF Ints
  <2>3. CASE dir = "UPWARD"
    <3>1. k <= x * scale
      BY <1>3, <2>3, ContainsKind
    <3>2. QED
      BY <2>1, <2>2, <2>3, <3>1, ContainsKind, QuotientBounds
  <2>4. CASE dir = "DOWNWARD"
    <3>1. x * scale <= k
      BY <1>3, <2>4, ContainsKind
    <3>2. QED
      BY <2>1, <2>2, <2>4, <3>1, ContainsKind, QuotientBounds
  <2>5. QED
    BY <2>3, <2>4 DEF Dir
<1>4. QED
  BY <1>1, <1>2, <1>3, Kinds

\* operator<=, < and == hold the truth of the comparison.
LEMMA ComparisonsSound ==
  ASSUME NEW a, IsWide(a), NEW x \in Int, Contains(a, x), NEW c \in Int
  PROVE  /\ \E R \in SUBSET {0, 1} : AtMost(a, c) = FiniteVs(R) /\ Truth(x <= c) \in R
         /\ \E R \in SUBSET {0, 1} : Below(a, c) = FiniteVs(R) /\ Truth(x < c) \in R
         /\ \E R \in SUBSET {0, 1} : EqualTo(a, c) = FiniteVs(R) /\ Truth(x = c) \in R
<1> USE DEF TrueVs, FalseVs, TrueFalseVs, Single, Truth
<1>1. x \in Int /\ c \in Int
  OBVIOUS
<1>2. CASE a = TopVs
  <2>1. AtMost(a, c) = TrueFalseVs /\ Below(a, c) = TrueFalseVs
    BY <1>2 DEF AtMost, Below, TopVs
  <2>2. EqualTo(a, c) = TrueFalseVs
    BY <1>2, ContainsKind DEF EqualTo, TopVs
  <2>3. QED
    BY <2>1, <2>2
<1>3. ASSUME NEW S \in Bounded, a = FiniteVs(S)
      PROVE  /\ \E R \in SUBSET {0, 1} : AtMost(a, c) = FiniteVs(R) /\ Truth(x <= c) \in R
             /\ \E R \in SUBSET {0, 1} : Below(a, c) = FiniteVs(R) /\ Truth(x < c) \in R
             /\ \E R \in SUBSET {0, 1} : EqualTo(a, c) = FiniteVs(R) /\ Truth(x = c) \in R
  <2>1. x \in S
    BY <1>3, ContainsKind
  <2>2. S # {} /\ Min(S) \in Int /\ Max(S) \in Int /\ Min(S) <= x /\ x <= Max(S)
    BY <2>1, Extremes
  <2>3. AtMost(a, c) = FiniteVs(IF Max(S) <= c THEN {1} ELSE IF Min(S) > c THEN {0} ELSE {0, 1})
    BY <1>3, <2>2 DEF AtMost, FiniteVs
  <2>4. Below(a, c) = FiniteVs(IF Max(S) < c THEN {1} ELSE IF Min(S) >= c THEN {0} ELSE {0, 1})
    BY <1>3, <2>2 DEF Below, FiniteVs
  <2>5. EqualTo(a, c) = FiniteVs(IF S = {c} THEN {1} ELSE IF c \notin S THEN {0} ELSE {0, 1})
    BY <1>3, <2>2 DEF EqualTo, FiniteVs
  <2>6. Truth(x <= c) \in (IF Max(S) <= c THEN {1} ELSE IF Min(S) > c THEN {0} ELSE {0, 1})
    BY <1>1, <2>2
  <2>7. Truth(x < c) \in (IF Max(S) < c THEN {1} ELSE IF Min(S) >= c THEN {0} ELSE {0, 1})
    BY <1>1, <2>2
  <2>8. Truth(x = c) \in (IF S = {c} THEN {1} ELSE IF c \notin S THEN {0} ELSE {0, 1})
    BY <2>1
  <2>9. QED
    BY <2>3, <2>4, <2>5, <2>6, <2>7, <2>8
<1>4. ASSUME NEW dir \in Dir, NEW k \in Int, a = OpenVs(dir, k)
      PROVE  /\ \E R \in SUBSET {0, 1} : AtMost(a, c) = FiniteVs(R) /\ Truth(x <= c) \in R
             /\ \E R \in SUBSET {0, 1} : Below(a, c) = FiniteVs(R) /\ Truth(x < c) \in R
             /\ \E R \in SUBSET {0, 1} : EqualTo(a, c) = FiniteVs(R) /\ Truth(x = c) \in R
  <2>1. k \in Int /\ (dir = "UPWARD" => k <= x) /\ (dir = "DOWNWARD" => x <= k)
    BY <1>4, ContainsKind
  <2>2. AtMost(a, c) = FiniteVs(IF dir = "DOWNWARD" THEN (IF k <= c THEN {1} ELSE {0, 1})
                                ELSE IF k > c THEN {0} ELSE {0, 1})
    BY <1>4 DEF AtMost, OpenVs
  <2>3. Below(a, c) = FiniteVs(IF dir = "DOWNWARD" THEN (IF k < c THEN {1} ELSE {0, 1})
                               ELSE IF k >= c THEN {0} ELSE {0, 1})
    BY <1>4 DEF Below, OpenVs
  <2>4. EqualTo(a, c) = FiniteVs(IF Contains(a, c) THEN {0, 1} ELSE {0})
    BY <1>4 DEF EqualTo, OpenVs
  <2>5. Truth(x <= c) \in (IF dir = "DOWNWARD" THEN (IF k <= c THEN {1} ELSE {0, 1})
                           ELSE IF k > c THEN {0} ELSE {0, 1})
    BY <1>1, <2>1 DEF Dir
  <2>6. Truth(x < c) \in (IF dir = "DOWNWARD" THEN (IF k < c THEN {1} ELSE {0, 1})
                          ELSE IF k >= c THEN {0} ELSE {0, 1})
    BY <1>1, <2>1 DEF Dir
  <2>7. Truth(x = c) \in (IF Contains(a, c) THEN {0, 1} ELSE {0})
    OBVIOUS
  <2>8. QED
    BY <2>2, <2>3, <2>4, <2>5, <2>6, <2>7
<1>5. QED
  BY <1>2, <1>3, <1>4, Kinds

\* operator! holds the opposite truth.
LEMMA NotSound ==
  ASSUME NEW R \in SUBSET {0, 1}, NEW t \in R
  PROVE  Contains(NotVs(FiniteVs(R)), 1 - t)
<1> DEFINE v == FiniteVs(R)
<1>1. R \in Bounded /\ {0} \in Bounded /\ {1} \in Bounded
  <2>1. {0} \in Bounded /\ {1} \in Bounded /\ {0} \cup {1} \in Bounded
    BY SmallBounded, UnionBounded
  <2>2. R \in SUBSET ({0} \cup {1})
    OBVIOUS
  <2>3. QED
    BY <2>1, <2>2, BoundedIs, Zenon
<1>2. Min({1}) = 1 /\ Max({0}) = 0
  <2>1. Min({1}) \in {1} /\ Max({0}) \in {0}
    BY <1>1, Extremes
  <2>2. QED
    BY <2>1
<1>3. Min(R) <= t /\ t <= Max(R) /\ Min(R) \in Int /\ Max(R) \in Int /\ R # {} /\ t \in {0, 1}
  BY <1>1, Extremes
<1>4. Leq(v, TrueVs) => t = 1
  <2>1. Leq(v, TrueVs) => Min({1}) <= Min(R)
    BY <1>3 DEF Leq, TrueVs, Single, FiniteVs, BottomVs
  <2>2. QED
    BY <1>2, <1>3, <2>1
<1>5. Leq(v, FalseVs) => t = 0
  <2>1. Leq(v, FalseVs) => Max(R) <= Max({0})
    BY <1>3 DEF Leq, FalseVs, Single, FiniteVs, BottomVs
  <2>2. QED
    BY <1>2, <1>3, <2>1
<1>6. 1 - t \in {0, 1} /\ (t = 1 => 1 - t = 0) /\ (t = 0 => 1 - t = 1)
  BY <1>3
<1>7. QED
  BY <1>4, <1>5, <1>6, ContainsKind DEF NotVs, TrueVs, FalseVs, TrueFalseVs, Single

\* The join of a finite and an open value set holds what either holds.
LEMMA JoinFiniteOpenSound ==
  ASSUME NEW S \in Bounded, NEW dir \in Dir, NEW k \in Int,
         NEW x \in Int, x \in S \/ Contains(OpenVs(dir, k), x)
  PROVE  Contains(JoinFiniteOpen(S, OpenVs(dir, k)), x)
<1>1. CASE S = {}
  BY <1>1 DEF JoinFiniteOpen
<1>2. CASE S # {}
  <2>1. JoinFiniteOpen(S, OpenVs(dir, k)) = OpenVs(dir, Outer(dir, k, Extreme(dir, S)))
    BY <1>2 DEF JoinFiniteOpen, OpenVs
  <2>2. k \in Int /\ x \in Int /\ Min(S) \in Int /\ Max(S) \in Int
    BY <1>2, Extremes
  <2>3. x \in S => Min(S) <= x /\ x <= Max(S)
    BY Extremes
  <2>4. CASE dir = "UPWARD"
    <3>1. Outer(dir, k, Extreme(dir, S)) <= x
      BY <2>2, <2>3, <2>4, ContainsKind DEF Outer, Extreme
    <3>2. QED
      BY <2>1, <2>4, <3>1, ContainsKind
  <2>5. CASE dir = "DOWNWARD"
    <3>1. x <= Outer(dir, k, Extreme(dir, S))
      BY <2>2, <2>3, <2>5, ContainsKind DEF Outer, Extreme
    <3>2. QED
      BY <2>1, <2>5, <3>1, ContainsKind
  <2>6. QED
    BY <2>4, <2>5 DEF Dir
<1>3. QED
  BY <1>1, <1>2

\* join holds what either operand holds.
LEMMA JoinSound ==
  ASSUME NEW a, NEW b, IsWide(a), IsWide(b),
         NEW x \in Int, Contains(a, x) \/ Contains(b, x)
  PROVE  Contains(JoinVs(a, b), x)
<1>1. CASE a = TopVs \/ b = TopVs
  BY <1>1, ContainsKind DEF JoinVs, TopVs
<1>2. ASSUME NEW S \in Bounded, NEW T \in Bounded, a = FiniteVs(S), b = FiniteVs(T)
      PROVE  Contains(JoinVs(a, b), x)
  <2>1. JoinVs(a, b) = FiniteVs(S \cup T)
    BY <1>2 DEF JoinVs, FiniteVs
  <2>2. QED
    BY <1>2, <2>1, ContainsKind
<1>3. ASSUME NEW S \in Bounded, NEW dir \in Dir, NEW k \in Int,
             a = FiniteVs(S), b = OpenVs(dir, k)
      PROVE  Contains(JoinVs(a, b), x)
  <2>1. JoinVs(a, b) = JoinFiniteOpen(S, b)
    BY <1>3 DEF JoinVs, FiniteVs, OpenVs
  <2>2. QED
    BY <1>3, <2>1, ContainsKind, JoinFiniteOpenSound
<1>4. ASSUME NEW S \in Bounded, NEW dir \in Dir, NEW k \in Int,
             b = FiniteVs(S), a = OpenVs(dir, k)
      PROVE  Contains(JoinVs(a, b), x)
  <2>1. JoinVs(a, b) = JoinFiniteOpen(S, a)
    BY <1>4 DEF JoinVs, FiniteVs, OpenVs
  <2>2. QED
    BY <1>4, <2>1, ContainsKind, JoinFiniteOpenSound
<1>5. ASSUME NEW d \in Dir, NEW k \in Int, NEW e \in Dir, NEW l \in Int,
             a = OpenVs(d, k), b = OpenVs(e, l)
      PROVE  Contains(JoinVs(a, b), x)
  <2>1. JoinVs(a, b) = IF d = e THEN OpenVs(d, Outer(d, k, l)) ELSE TopVs
    BY <1>5 DEF JoinVs, OpenVs
  <2>2. k \in Int /\ l \in Int /\ x \in Int
    OBVIOUS
  <2>3. d = "UPWARD" /\ e = "UPWARD" => Outer(d, k, l) <= x
    BY <1>5, <2>2, ContainsKind DEF Outer
  <2>4. d = "DOWNWARD" /\ e = "DOWNWARD" => x <= Outer(d, k, l)
    BY <1>5, <2>2, ContainsKind DEF Outer
  <2>5. QED
    BY <2>1, <2>3, <2>4, ContainsKind DEF Dir
<1>6. QED
  BY <1>1, <1>2, <1>3, <1>4, <1>5, Kinds

\* meet holds what both operands hold.
LEMMA MeetSound ==
  ASSUME NEW a, NEW b, IsWide(a), IsWide(b),
         NEW x \in Int, Contains(a, x), Contains(b, x)
  PROVE  Contains(MeetVs(a, b), x)
<1>1. CASE a = TopVs \/ b = TopVs
  BY <1>1, Kinds DEF MeetVs, TopVs, FiniteVs, OpenVs
<1>2. ASSUME NEW S \in Bounded, a = FiniteVs(S), b # TopVs
      PROVE  Contains(MeetVs(a, b), x)
  <2>1. a.kind = "finite" /\ b.kind # "top" /\ a.elements = S
    BY <1>2, Kinds DEF FiniteVs, OpenVs, TopVs
  <2>2. MeetVs(a, b) = FiniteVs({m \in S : Contains(b, m)})
    BY <2>1 DEF MeetVs
  <2>3. QED
    BY <1>2, <2>2, ContainsKind
<1>3. ASSUME NEW S \in Bounded, NEW dir \in Dir, NEW k \in Int,
             b = FiniteVs(S), a = OpenVs(dir, k)
      PROVE  Contains(MeetVs(a, b), x)
  <2>1. MeetVs(a, b) = FiniteVs({m \in S : Contains(a, m)})
    BY <1>3 DEF MeetVs, FiniteVs, OpenVs
  <2>2. QED
    BY <1>3, <2>1, ContainsKind
<1>4. ASSUME NEW d \in Dir, NEW k \in Int, NEW e \in Dir, NEW l \in Int,
             a = OpenVs(d, k), b = OpenVs(e, l)
      PROVE  Contains(MeetVs(a, b), x)
  <2>1. k \in Int /\ l \in Int /\ x \in Int
    OBVIOUS
  <2>2. ASSUME NEW down, NEW up, NEW u \in Int, NEW v \in Int,
               down = OpenVs("DOWNWARD", v), up = OpenVs("UPWARD", u), u <= x, x <= v
        PROVE  Contains(MeetFacing(down, up), x)
    <3>1. ~(v < u) /\ x \in u .. v
      BY <2>1, <2>2
    <3>2. MeetFacing(down, up) \in {FiniteVs(u .. v), down}
      BY <2>2, <3>1 DEF MeetFacing, OpenVs
    <3>3. QED
      BY <2>2, <3>1, <3>2, ContainsKind
  <2>3. CASE d = e
    <3>1. MeetVs(a, b) = OpenVs(d, Inner(d, k, l))
      BY <1>4, <2>3 DEF MeetVs, OpenVs
    <3>2. d = "UPWARD" => Inner(d, k, l) <= x
      BY <1>4, <2>1, <2>3, ContainsKind DEF Inner
    <3>3. d = "DOWNWARD" => x <= Inner(d, k, l)
      BY <1>4, <2>1, <2>3, ContainsKind DEF Inner
    <3>4. QED
      BY <3>1, <3>2, <3>3, ContainsKind DEF Dir
  <2>4. CASE d = "DOWNWARD" /\ e = "UPWARD"
    <3>1. MeetVs(a, b) = MeetFacing(a, b)
      BY <1>4, <2>4 DEF MeetVs, OpenVs
    <3>2. QED
      BY <1>4, <2>1, <2>2, <2>4, <3>1, ContainsKind
  <2>5. CASE d = "UPWARD" /\ e = "DOWNWARD"
    <3>1. MeetVs(a, b) = MeetFacing(b, a)
      BY <1>4, <2>5 DEF MeetVs, OpenVs
    <3>2. QED
      BY <1>4, <2>1, <2>2, <2>5, <3>1, ContainsKind
  <2>6. QED
    BY <2>3, <2>4, <2>5 DEF Dir
<1>5. QED
  BY <1>1, <1>2, <1>3, <1>4, Kinds

\* smaller_equals, spelt out for each pair of kinds.
LEMMA LeqKinds ==
  /\ \A a : Leq(a, TopVs)
  /\ \A b : Leq(BottomVs, b)
  /\ \A S, T : S # {} => (Leq(FiniteVs(S), FiniteVs(T)) <=>
                            T # {} /\ Min(T) <= Min(S) /\ Max(S) <= Max(T))
  /\ \A S, k : S # {} => /\ Leq(FiniteVs(S), OpenVs("UPWARD", k)) <=> k <= Min(S)
                         /\ Leq(FiniteVs(S), OpenVs("DOWNWARD", k)) <=> Max(S) <= k
  /\ \A d, k, S : ~Leq(OpenVs(d, k), FiniteVs(S))
  /\ \A S : ~Leq(TopVs, FiniteVs(S))
  /\ \A d, k : ~Leq(TopVs, OpenVs(d, k))
  /\ \A k, l : /\ Leq(OpenVs("UPWARD", k), OpenVs("UPWARD", l)) <=> l <= k
               /\ Leq(OpenVs("DOWNWARD", k), OpenVs("DOWNWARD", l)) <=> k <= l
               /\ ~Leq(OpenVs("UPWARD", k), OpenVs("DOWNWARD", l))
               /\ ~Leq(OpenVs("DOWNWARD", k), OpenVs("UPWARD", l))
<1>1. \A a : Leq(a, TopVs)
  BY DEF Leq, TopVs
<1>2. \A b : Leq(BottomVs, b)
  BY DEF Leq
<1>3. \A S, T : S # {} => (Leq(FiniteVs(S), FiniteVs(T)) <=>
                             T # {} /\ Min(T) <= Min(S) /\ Max(S) <= Max(T))
  BY DEF Leq, FiniteVs, BottomVs
<1>4. \A S, k : S # {} => /\ Leq(FiniteVs(S), OpenVs("UPWARD", k)) <=> k <= Min(S)
                          /\ Leq(FiniteVs(S), OpenVs("DOWNWARD", k)) <=> Max(S) <= k
  BY DEF Leq, FiniteVs, OpenVs, BottomVs, Contains
<1>5. /\ \A d, k, S : ~Leq(OpenVs(d, k), FiniteVs(S))
      /\ \A S : ~Leq(TopVs, FiniteVs(S))
      /\ \A d, k : ~Leq(TopVs, OpenVs(d, k))
  BY DEF Leq, FiniteVs, OpenVs, BottomVs, TopVs
<1>6. \A k, l : /\ Leq(OpenVs("UPWARD", k), OpenVs("UPWARD", l)) <=> l <= k
                /\ Leq(OpenVs("DOWNWARD", k), OpenVs("DOWNWARD", l)) <=> k <= l
                /\ ~Leq(OpenVs("UPWARD", k), OpenVs("DOWNWARD", l))
                /\ ~Leq(OpenVs("DOWNWARD", k), OpenVs("UPWARD", l))
  BY DEF Leq, FiniteVs, OpenVs, BottomVs, Contains
<1>7. QED
  BY <1>1, <1>2, <1>3, <1>4, <1>5, <1>6

\* narrow, for a value set that lies below the old one.
LEMMA NarrowIsNew ==
  ASSUME NEW a, NEW b, IsWide(a), IsWide(b), Leq(b, a)
  PROVE  \/ NarrowVs(a, b) = b
         \/ /\ NarrowVs(a, b) = a
            /\ \E dir \in Dir, k \in Int, l \in Int :
                 a = OpenVs(dir, k) /\ b = OpenVs(dir, l)
<1>1. CASE \E dir \in Dir, l \in Int : b = OpenVs(dir, l)
  <2>1. PICK e \in Dir, l \in Int : b = OpenVs(e, l)
    BY <1>1
  <2>2. CASE a = TopVs
    BY <2>1, <2>2 DEF NarrowVs, TopVs, OpenVs
  <2>3. ASSUME NEW S \in Bounded, a = FiniteVs(S)
        PROVE  FALSE
    BY <2>1, <2>3, LeqKinds
  <2>4. ASSUME NEW d \in Dir, NEW k \in Int, a = OpenVs(d, k)
        PROVE  NarrowVs(a, b) = a /\ d = e
    BY <2>1, <2>4, LeqKinds DEF NarrowVs, OpenVs, Dir
  <2>5. QED
    BY <2>1, <2>2, <2>3, <2>4, Kinds
<1>2. CASE b.kind # "open"
  BY <1>2 DEF NarrowVs
<1>3. QED
  BY <1>1, <1>2, Kinds DEF TopVs, FiniteVs

\* widen, for a value set that is not empty.
LEMMA WidenSound ==
  ASSUME NEW a, NEW b, IsWide(a), IsWide(b),
         NEW x \in Int, Contains(b, x)
  PROVE  Contains(WidenVs(a, b), x)
<1>1. CASE a = TopVs \/ b = TopVs
  BY <1>1, ContainsKind DEF WidenVs, TopVs
<1>2. CASE a = BottomVs /\ b # TopVs
  <2>1. a.kind = "finite" /\ b.kind # "top"
    BY <1>2, Kinds DEF BottomVs, FiniteVs, OpenVs
  <2>2. WidenVs(a, b) = b
    BY <1>2, <2>1 DEF WidenVs
  <2>3. QED
    BY <2>2
<1>3. ASSUME NEW S \in Bounded, NEW T \in Bounded, S # {},
             a = FiniteVs(S), b = FiniteVs(T)
      PROVE  Contains(WidenVs(a, b), x)
  <2>1. x \in T /\ T # {}
    BY <1>3, ContainsKind
  <2>2. WidenVs(a, b) = IF S = T THEN a
                        ELSE IF Min(S) <= Min(T) THEN OpenVs("UPWARD", Min(S))
                        ELSE IF Max(S) >= Max(T) THEN OpenVs("DOWNWARD", Max(S))
                        ELSE TopVs
    BY <1>3, <2>1 DEF WidenVs, FiniteVs, BottomVs
  <2>3. /\ Min(T) <= x /\ x <= Max(T) /\ x \in Int
        /\ Min(S) \in Int /\ Max(S) \in Int /\ Min(T) \in Int /\ Max(T) \in Int
    BY <1>3, <2>1, Extremes
  <2>4. QED
    BY <1>3, <2>1, <2>2, <2>3, ContainsKind
<1>4. ASSUME NEW S \in Bounded, S # {}, NEW dir \in Dir, NEW k \in Int,
             a = FiniteVs(S), b = OpenVs(dir, k)
      PROVE  Contains(WidenVs(a, b), x)
  <2>1. WidenVs(a, b) \in {b, TopVs}
    BY <1>4 DEF WidenVs, FiniteVs, OpenVs, BottomVs
  <2>2. QED
    BY <2>1, ContainsKind
<1>5. ASSUME NEW d \in Dir, NEW k \in Int, a = OpenVs(d, k), b # TopVs
      PROVE  Contains(WidenVs(a, b), x)
  <2>1. b # BottomVs
    BY ContainsKind DEF BottomVs
  <2>2. b.kind # "top"
    BY <1>5, Kinds DEF FiniteVs, OpenVs
  <2>3. WidenVs(a, b) = IF Leq(b, a) THEN a ELSE TopVs
    BY <1>5, <2>1, <2>2 DEF WidenVs, OpenVs
  <2>4. CASE Leq(b, a)
    <3>1. ASSUME NEW S \in Bounded, b = FiniteVs(S) PROVE Contains(a, x)
      <4>1. x \in S
        BY <3>1, ContainsKind
      <4>2. Min(S) <= x /\ x <= Max(S) /\ Min(S) \in Int /\ Max(S) \in Int /\ S # {}
        BY <4>1, Extremes
      <4>3. QED
        BY <1>5, <2>4, <3>1, <4>2, LeqKinds, ContainsKind DEF Dir
    <3>2. ASSUME NEW e \in Dir, NEW l \in Int, b = OpenVs(e, l) PROVE Contains(a, x)
      BY <1>5, <2>4, <3>2, LeqKinds, ContainsKind DEF Dir
    <3>3. QED
      BY <1>5, <2>3, <2>4, <3>1, <3>2, Kinds
  <2>5. QED
    BY <2>3, <2>4, ContainsKind
<1>6. QED
  BY <1>1, <1>2, <1>3, <1>4, <1>5, Kinds DEF BottomVs

\* box holds what comes over the back edge.
LEMMA BoxSound ==
  ASSUME NEW a, NEW b, IsWide(a), IsWide(b),
         NEW x \in Int, Contains(b, x)
  PROVE  Contains(BoxVs(a, b), x)
<1>1. CASE ~Leq(b, a)
  BY <1>1, WidenSound DEF BoxVs
<1>2. CASE Leq(b, a)
  <2>1. BoxVs(a, b) = NarrowVs(a, b)
    BY <1>2 DEF BoxVs
  <2>2. CASE NarrowVs(a, b) = b
    BY <2>1, <2>2
  <2>3. ASSUME NEW dir \in Dir, NEW k \in Int, NEW l \in Int,
               a = OpenVs(dir, k), b = OpenVs(dir, l), NarrowVs(a, b) = a
        PROVE  Contains(BoxVs(a, b), x)
    BY <1>2, <2>1, <2>3, LeqKinds, ContainsKind DEF Dir
  <2>4. QED
    BY <1>2, <2>2, <2>3, NarrowIsNew
<1>3. QED
  BY <1>1, <1>2

-----------------------------------------------------------------------------

\* What is evaluated is a value set and a representable integer.
TypeInv == IsValueSet(abs) /\ val \in Ints

\* Every operation on value sets is sound: whatever is evaluated, joined,
\* restricted or boxed (num_evaluator, value_set::join, meet, narrow, widen),
\* the value set holds the value.
THEOREM Soundness == Spec => [](TypeInv /\ Sound)
<1> USE DEF TypeInv, Sound
<1>1. Init => TypeInv /\ Sound
  BY ConstantAssumption DEF Init
<1>2. TypeInv /\ Sound /\ [Next]_vars => (TypeInv /\ Sound)'
  <2> SUFFICES ASSUME TypeInv, Sound, [Next]_vars
               PROVE  (TypeInv /\ Sound)'
    OBVIOUS
  <2>0. /\ MaxInt \in Nat /\ IsWide(abs) /\ val \in Int /\ \A v \in Operands : IsWide(v)
        /\ \A x \in Ints : x \in Int
    BY ConstantAssumption, ValueSetIsWide
  <2>1. ASSUME NEW v, NEW x, Evaluate(v, x), Contains(v, x)
        PROVE  (TypeInv /\ Sound)'
    BY <2>1 DEF Evaluate
  <2>2. CASE Arithmetic
    <3>1. PICK b \in Operands, y \in Ints :
             /\ Contains(b, y)
             /\ \/ Evaluate(AddVs(abs, b), val + y)
                \/ Evaluate(SubVs(abs, b), val - y)
                \/ Evaluate(MulVs(abs, b), val * y)
      BY <2>2 DEF Arithmetic
    <3>2. QED
      BY <2>0, <2>1, <3>1, AddSound, SubSound, MulSound
  <2>3. CASE Negate
    BY <2>0, <2>1, <2>3, NegSound DEF Negate
  <2>4. CASE Solve
    BY <2>0, <2>1, <2>4, DivScaleSound DEF Solve
  <2>5. CASE Compare
    <3>1. PICK c \in Ints :
             \/ Evaluate(AtMost(abs, c), Truth(val <= c))
             \/ Evaluate(NotVs(Below(abs, c)), Truth(val >= c))
             \/ Evaluate(Below(abs, c), Truth(val < c))
             \/ Evaluate(NotVs(AtMost(abs, c)), Truth(val > c))
             \/ Evaluate(EqualTo(abs, c), Truth(val = c))
             \/ Evaluate(NotVs(EqualTo(abs, c)), Truth(val # c))
      BY <2>5 DEF Compare
    <3>2. /\ Truth(val >= c) = 1 - Truth(val < c)
          /\ Truth(val > c) = 1 - Truth(val <= c)
          /\ Truth(val # c) = 1 - Truth(val = c)
      BY DEF Truth, Ints
    <3>3. /\ Contains(AtMost(abs, c), Truth(val <= c))
          /\ Contains(Below(abs, c), Truth(val < c))
          /\ Contains(EqualTo(abs, c), Truth(val = c))
      BY <2>0, ComparisonsSound, ContainsKind
    <3>4. /\ Contains(NotVs(AtMost(abs, c)), Truth(val > c))
          /\ Contains(NotVs(Below(abs, c)), Truth(val >= c))
          /\ Contains(NotVs(EqualTo(abs, c)), Truth(val # c))
      <4>1. ASSUME NEW v, NEW t, \E R \in SUBSET {0, 1} : v = FiniteVs(R) /\ t \in R
            PROVE  Contains(NotVs(v), 1 - t)
        BY <2>0, <4>1, NotSound
      <4>2. Contains(NotVs(AtMost(abs, c)), 1 - Truth(val <= c))
        BY <2>0, <4>1, ComparisonsSound
      <4>3. Contains(NotVs(Below(abs, c)), 1 - Truth(val < c))
        BY <2>0, <4>1, ComparisonsSound
      <4>4. Contains(NotVs(EqualTo(abs, c)), 1 - Truth(val = c))
        BY <2>0, <4>1, ComparisonsSound
      <4>5. QED
        BY <3>2, <4>2, <4>3, <4>4
    <3>5. QED
      BY <2>1, <3>1, <3>3, <3>4
  <2>6. CASE Join
    BY <2>0, <2>1, <2>6, JoinSound DEF Join
  <2>7. CASE Meet
    BY <2>0, <2>1, <2>7, MeetSound DEF Meet
  <2>8. CASE Box
    BY <2>0, <2>1, <2>8, BoxSound DEF Box
  <2>9. CASE UNCHANGED vars
    BY <2>9 DEF vars
  <2>10. QED
    BY <2>2, <2>3, <2>4, <2>5, <2>6, <2>7, <2>8, <2>9 DEF Next
<1>3. QED
  BY <1>1, <1>2, PTL DEF Spec

-----------------------------------------------------------------------------
(* The order *)

\* smaller_equals is reflexive.
LEMMA LeqReflexive ==
  ASSUME NEW a, IsWide(a)
  PROVE  Leq(a, a)
<1>1. ASSUME NEW S \in Bounded, S # {}, a = FiniteVs(S) PROVE Leq(a, a)
  <2>1. Min(S) \in Int /\ Max(S) \in Int
    BY <1>1, Extremes
  <2>2. QED
    BY <1>1, <2>1, LeqKinds
<1>2. ASSUME NEW dir \in Dir, NEW k \in Int, a = OpenVs(dir, k) PROVE Leq(a, a)
  BY <1>2, LeqKinds DEF Dir
<1>3. QED
  BY <1>1, <1>2, KindsApart, LeqKinds

\* The join of a finite and an open value set lies above both.
LEMMA JoinFiniteOpenAbove ==
  ASSUME NEW S \in Bounded, NEW dir \in Dir, NEW k \in Int
  PROVE  /\ Leq(FiniteVs(S), JoinFiniteOpen(S, OpenVs(dir, k)))
         /\ Leq(OpenVs(dir, k), JoinFiniteOpen(S, OpenVs(dir, k)))
<1>1. k \in Int
  OBVIOUS
<1>2. CASE S = {}
  <2>1. JoinFiniteOpen(S, OpenVs(dir, k)) = OpenVs(dir, k)
    BY <1>2 DEF JoinFiniteOpen
  <2>2. QED
    BY <1>1, <1>2, <2>1, LeqKinds DEF BottomVs, Dir
<1>3. CASE S # {}
  <2>1. JoinFiniteOpen(S, OpenVs(dir, k)) = OpenVs(dir, Outer(dir, k, Extreme(dir, S)))
    BY <1>3 DEF JoinFiniteOpen, OpenVs
  <2>2. Min(S) \in Int /\ Max(S) \in Int
    BY <1>3, Extremes
  <2>3. CASE dir = "UPWARD"
    <3>1. Outer(dir, k, Extreme(dir, S)) <= k /\ Outer(dir, k, Extreme(dir, S)) <= Min(S)
      BY <1>1, <2>2, <2>3 DEF Outer, Extreme
    <3>2. QED
      BY <1>3, <2>1, <2>3, <3>1, LeqKinds
  <2>4. CASE dir = "DOWNWARD"
    <3>1. k <= Outer(dir, k, Extreme(dir, S)) /\ Max(S) <= Outer(dir, k, Extreme(dir, S))
      BY <1>1, <2>2, <2>4 DEF Outer, Extreme
    <3>2. QED
      BY <1>3, <2>1, <2>4, <3>1, LeqKinds
  <2>5. QED
    BY <2>3, <2>4 DEF Dir
<1>4. QED
  BY <1>2, <1>3

\* join lies above both operands.
LEMMA JoinAbove ==
  ASSUME NEW a, NEW b, IsWide(a), IsWide(b)
  PROVE  Leq(a, JoinVs(a, b)) /\ Leq(b, JoinVs(a, b))
<1>1. CASE a = TopVs \/ b = TopVs
  BY <1>1, LeqKinds DEF JoinVs, TopVs
<1>2. ASSUME NEW S \in Bounded, NEW T \in Bounded, a = FiniteVs(S), b = FiniteVs(T)
      PROVE  Leq(a, JoinVs(a, b)) /\ Leq(b, JoinVs(a, b))
  <2>1. JoinVs(a, b) = FiniteVs(S \cup T)
    BY <1>2 DEF JoinVs, FiniteVs
  <2>2. ASSUME NEW R \in SUBSET (S \cup T)
        PROVE  Leq(FiniteVs(R), FiniteVs(S \cup T))
    <3>0. S \cup T \in Bounded /\ R \in Bounded
      BY UnionBounded, BoundedIs
    <3>1. CASE R = {}
      BY <3>1, LeqKinds DEF BottomVs
    <3>2. CASE R # {}
      <4>1. Min(R) \in R /\ Max(R) \in R
        BY <3>0, <3>2, Extremes
      <4>2. S \cup T # {} /\ Min(S \cup T) <= Min(R) /\ Max(R) <= Max(S \cup T)
        BY <3>0, <4>1, Extremes
      <4>3. QED
        BY <3>2, <4>2, LeqKinds
    <3>3. QED
      BY <3>1, <3>2
  <2>3. QED
    BY <1>2, <2>1, <2>2
<1>3. ASSUME NEW S \in Bounded, NEW dir \in Dir, NEW k \in Int,
             \/ a = FiniteVs(S) /\ b = OpenVs(dir, k)
             \/ b = FiniteVs(S) /\ a = OpenVs(dir, k)
      PROVE  Leq(a, JoinVs(a, b)) /\ Leq(b, JoinVs(a, b))
  <2>1. JoinVs(a, b) = JoinFiniteOpen(S, OpenVs(dir, k))
    BY <1>3 DEF JoinVs, FiniteVs, OpenVs
  <2>2. QED
    BY <1>3, <2>1, JoinFiniteOpenAbove
<1>4. ASSUME NEW d \in Dir, NEW k \in Int, NEW e \in Dir, NEW l \in Int,
             a = OpenVs(d, k), b = OpenVs(e, l)
      PROVE  Leq(a, JoinVs(a, b)) /\ Leq(b, JoinVs(a, b))
  <2>1. JoinVs(a, b) = IF d = e THEN OpenVs(d, Outer(d, k, l)) ELSE TopVs
    BY <1>4 DEF JoinVs, OpenVs
  <2>2. k \in Int /\ l \in Int
    OBVIOUS
  <2>3. d = "UPWARD" => Outer(d, k, l) <= k /\ Outer(d, k, l) <= l
    BY <2>2 DEF Outer
  <2>4. d = "DOWNWARD" => k <= Outer(d, k, l) /\ l <= Outer(d, k, l)
    BY <2>2 DEF Outer
  <2>5. QED
    BY <1>4, <2>1, <2>3, <2>4, LeqKinds DEF Dir
<1>5. QED
  BY <1>1, <1>2, <1>3, <1>4, Kinds

\* widen lies above the new value set, unless that is empty.
LEMMA WidenAbove ==
  ASSUME NEW a, NEW b, IsWide(a), IsWide(b), b # BottomVs
  PROVE  Leq(b, WidenVs(a, b))
<1>1. CASE a = TopVs \/ b = TopVs
  BY <1>1, LeqKinds DEF WidenVs, TopVs
<1>2. CASE a = BottomVs /\ b # TopVs
  <2>1. WidenVs(a, b) = b
    BY <1>2, Kinds DEF WidenVs, BottomVs, FiniteVs, OpenVs
  <2>2. QED
    BY <2>1, LeqReflexive
<1>3. ASSUME NEW S \in Bounded, NEW T \in Bounded, S # {}, T # {},
             a = FiniteVs(S), b = FiniteVs(T)
      PROVE  Leq(b, WidenVs(a, b))
  <2>1. WidenVs(a, b) = IF S = T THEN a
                        ELSE IF Min(S) <= Min(T) THEN OpenVs("UPWARD", Min(S))
                        ELSE IF Max(S) >= Max(T) THEN OpenVs("DOWNWARD", Max(S))
                        ELSE TopVs
    BY <1>3 DEF WidenVs, FiniteVs, BottomVs
  <2>2. Max(S) \in Int /\ Max(T) \in Int
    BY <1>3, Extremes
  <2>3. QED
    BY <1>3, <2>1, <2>2, LeqKinds, LeqReflexive
<1>4. ASSUME NEW S \in Bounded, S # {}, NEW dir \in Dir, NEW k \in Int,
             a = FiniteVs(S), b = OpenVs(dir, k)
      PROVE  Leq(b, WidenVs(a, b))
  <2>1. WidenVs(a, b) \in {b, TopVs}
    BY <1>4 DEF WidenVs, FiniteVs, OpenVs, BottomVs
  <2>2. QED
    BY <2>1, LeqKinds, LeqReflexive
<1>5. ASSUME NEW d \in Dir, NEW k \in Int, a = OpenVs(d, k), b # TopVs
      PROVE  Leq(b, WidenVs(a, b))
  <2>1. WidenVs(a, b) = IF Leq(b, a) THEN a ELSE TopVs
    BY <1>5, Kinds DEF WidenVs, FiniteVs, OpenVs
  <2>2. QED
    BY <2>1, LeqKinds
<1>6. QED
  BY <1>1, <1>2, <1>3, <1>4, <1>5, KindsApart

\* box lies above the new value set.
LEMMA BoxAbove ==
  ASSUME NEW a, NEW b, IsWide(a), IsWide(b)
  PROVE  Leq(b, BoxVs(a, b))
<1>1. CASE ~Leq(b, a)
  <2>1. b # BottomVs
    BY <1>1, LeqKinds
  <2>2. QED
    BY <1>1, <2>1, WidenAbove DEF BoxVs
<1>2. CASE Leq(b, a)
  BY <1>2, NarrowIsNew, LeqReflexive DEF BoxVs
<1>3. QED
  BY <1>1, <1>2

\* In the order stability is decided with, a join lies above both of its
\* operands and a box or a widening above the new one (value_set::join, widen,
\* summy::box): the fixpoint engine never goes on with a state it has left.
THEOREM OperationsBound == Spec => []BoundsHold
<1>1. TypeInv => BoundsHold
  BY ConstantAssumption, ValueSetIsWide, JoinAbove, BoxAbove, WidenAbove DEF TypeInv, BoundsHold
<1>2. QED
  BY <1>1, Soundness, PTL

\* The rank of each form.
LEMMA Ranks ==
  /\ Rank(TopVs) = 3
  /\ Rank(BottomVs) = 0
  /\ \A S : S # {} => Rank(FiniteVs(S)) = 1
  /\ \A d, k : Rank(OpenVs(d, k)) = 2
BY DEF Rank, TopVs, BottomVs, FiniteVs, OpenVs

\* widen climbs when the new value set does not lie below the old one.
LEMMA WidenRank ==
  ASSUME NEW a, NEW b, IsWide(a), IsWide(b), ~Leq(b, a)
  PROVE  Rank(WidenVs(a, b)) > Rank(a)
<1>1. b # BottomVs /\ a # TopVs /\ a # b
  BY LeqKinds, LeqReflexive
<1>2. CASE b = TopVs
  <2>1. WidenVs(a, b) = TopVs
    BY <1>2 DEF WidenVs, TopVs
  <2>2. QED
    BY <1>1, <2>1, Kinds, Ranks DEF BottomVs
<1>3. CASE a = BottomVs /\ b # TopVs
  <2>1. WidenVs(a, b) = b
    BY <1>3, Kinds DEF WidenVs, BottomVs, FiniteVs, OpenVs
  <2>2. QED
    BY <1>1, <1>3, <2>1, Kinds, Ranks DEF BottomVs
<1>4. ASSUME NEW S \in Bounded, NEW T \in Bounded, S # {}, T # {},
             a = FiniteVs(S), b = FiniteVs(T)
      PROVE  Rank(WidenVs(a, b)) > Rank(a)
  <2>1. WidenVs(a, b) \in {OpenVs("UPWARD", Min(S)), OpenVs("DOWNWARD", Max(S)), TopVs}
    BY <1>1, <1>4 DEF WidenVs, FiniteVs, BottomVs
  <2>2. QED
    BY <1>4, <2>1, Ranks
<1>5. ASSUME NEW S \in Bounded, S # {}, NEW dir \in Dir, NEW k \in Int,
             a = FiniteVs(S), b = OpenVs(dir, k)
      PROVE  Rank(WidenVs(a, b)) > Rank(a)
  <2>1. WidenVs(a, b) \in {b, TopVs}
    BY <1>5 DEF WidenVs, FiniteVs, OpenVs, BottomVs
  <2>2. QED
    BY <1>5, <2>1, Ranks
<1>6. ASSUME NEW d \in Dir, NEW k \in Int, a = OpenVs(d, k), b # TopVs
      PROVE  Rank(WidenVs(a, b)) > Rank(a)
  <2>1. WidenVs(a, b) = TopVs
    BY <1>1, <1>6, Kinds DEF WidenVs, FiniteVs, OpenVs
  <2>2. QED
    BY <1>6, <2>1, Ranks
<1>7. QED
  BY <1>1, <1>2, <1>3, <1>4, <1>5, <1>6, Kinds, KindsApart

\* Widening climbs (value_set::widen, under summy::box): three times at most,
\* so that a loop head is boxed upwards only finitely often.
THEOREM WideningTerminates == Spec => []WideningClimbs
<1>1. TypeInv => WideningClimbs
  <2>1. ASSUME TypeInv, NEW b \in Operands, ~Leq(b, abs)
        PROVE  Rank(BoxVs(abs, b)) > Rank(abs)
    BY <2>1, ConstantAssumption, ValueSetIsWide, WidenRank DEF TypeInv, BoxVs
  <2>2. QED
    BY <2>1 DEF WideningClimbs
<1>2. QED
  BY <1>1, Soundness, PTL

-----------------------------------------------------------------------------
(* Folds *)

\* A set of numbers that has 0 and each successor has every number.
LEMMA EveryNumber ==
  ASSUME NEW S, 0 \in S, \A k \in Nat : k \in S => k + 1 \in S
  PROVE  Nat \subseteq S
<1> DEFINE T == Nat \ S
<1>1. SUFFICES ASSUME T # {} PROVE FALSE
  OBVIOUS
<1>2. PICK m \in T : \A n \in T : ~(<<n, m>> \in OpToRel(<, Nat))
  <2>1. T \subseteq Nat
    OBVIOUS
  <2> HIDE DEF T
  <2>2. QED
    BY <1>1, <2>1, NatLessThanWellFounded, WFMin, Zenon
<1>3. m \in Nat /\ m # 0
  BY <1>2
<1>4. m - 1 \in Nat /\ m - 1 < m /\ (m - 1) + 1 = m
  BY <1>3
<1>5. m - 1 \notin T
  BY <1>2, <1>3, <1>4, Zenon DEF OpToRel
<1>6. m \in S
  BY <1>3, <1>4, <1>5
<1>7. QED
  BY <1>2, <1>6

\* How a set is worked off: an element of each set that is not empty.
Picks(pick, S) == \A s \in (SUBSET S) \ {{}} : pick[s] \in s

\* F is the fold over the subsets of S.
IsFold(F, S, pick, base, Op) ==
  F = [s \in SUBSET S |-> IF s = {} THEN base ELSE Op[<<pick[s], F[s \ {pick[s]}]>>]]

\* What the empty set has and every step keeps, all sets have.
LEMMA FoldStays ==
  ASSUME NEW S, IsFiniteSet(S), NEW pick, Picks(pick, S), NEW G, NEW Fam,
         G[{}] \in Fam[{}],
         \A s \in (SUBSET S) \ {{}} : G[s \ {pick[s]}] \in Fam[s \ {pick[s]}] => G[s] \in Fam[s]
  PROVE  \A s \in SUBSET S : G[s] \in Fam[s]
<1> DEFINE Ns == {n \in Nat : \A s \in SUBSET S : Cardinality(s) = n => G[s] \in Fam[s]}
<1>1. \A s \in SUBSET S : IsFiniteSet(s) /\ Cardinality(s) \in Nat
  BY FS_Subset, FS_CardinalityType
<1>2. 0 \in Ns
  BY <1>1, FS_EmptySet
<1>3. ASSUME NEW k \in Nat, k \in Ns PROVE k + 1 \in Ns
  <2>1. SUFFICES ASSUME NEW s \in SUBSET S, Cardinality(s) = k + 1 PROVE G[s] \in Fam[s]
    OBVIOUS
  <2>2. s # {}
    BY <1>1, <2>1, FS_EmptySet
  <2>3. pick[s] \in s
    BY <2>2 DEF Picks
  <2>4. Cardinality(s \ {pick[s]}) = k /\ s \ {pick[s]} \in SUBSET S
    <3>1. Cardinality(s \ {pick[s]}) = Cardinality(s) - 1
      BY <1>1, <2>3, FS_RemoveElement
    <3>2. QED
      BY <2>1, <3>1
  <2>5. G[s \ {pick[s]}] \in Fam[s \ {pick[s]}]
    BY <1>3, <2>4
  <2>6. QED
    BY <2>2, <2>5
<1>4. Nat \subseteq Ns
  <2> HIDE DEF Ns
  <2> QED BY <1>2, <1>3, EveryNumber
<1>5. QED
  BY <1>1, <1>4

\* The equation of a fold has a solution.
LEMMA FoldExists ==
  ASSUME NEW S, IsFiniteSet(S), NEW pick, Picks(pick, S), NEW base, NEW Op
  PROVE  \E F : IsFold(F, S, pick, base, Op)
<1> DEFINE Body(F, s) == IF s = {} THEN base ELSE Op[<<pick[s], F[s \ {pick[s]}]>>]
           Upto(F, n) == /\ F = [s \in SUBSET S |-> F[s]]
                         /\ \A s \in SUBSET S : Cardinality(s) <= n => F[s] = Body(F, s)
           Ns == {n \in Nat : \E F : Upto(F, n)}
<1>1. \A s \in SUBSET S : IsFiniteSet(s) /\ Cardinality(s) \in Nat /\ Cardinality(s) <= Cardinality(S)
  BY FS_Subset, FS_CardinalityType
<1>2. \A s \in SUBSET S : s # {} => pick[s] \in s /\ Cardinality(s \ {pick[s]}) = Cardinality(s) - 1
  <2>1. ASSUME NEW s \in SUBSET S, s # {}
        PROVE pick[s] \in s /\ Cardinality(s \ {pick[s]}) = Cardinality(s) - 1
    <3>1. pick[s] \in s
      BY <2>1 DEF Picks
    <3>2. IsFiniteSet(s)
      BY <1>1
    <3>3. QED
      BY <3>1, <3>2, FS_RemoveElement
  <2>2. QED
    BY <2>1
<1>3. 0 \in Ns
  <2> DEFINE F == [s \in SUBSET S |-> base]
  <2>1. F = [s \in SUBSET S |-> F[s]]
    OBVIOUS
  <2>2. ASSUME NEW s \in SUBSET S, Cardinality(s) <= 0 PROVE F[s] = Body(F, s)
    <3>1. s = {}
      BY <1>1, <2>2, FS_EmptySet
    <3>2. QED
      BY <3>1
  <2>3. Upto(F, 0)
    <3> HIDE DEF F, Body
    <3> QED BY <2>1, <2>2
  <2> HIDE DEF Upto, F
  <2>4. QED
    BY <2>3
<1>4. ASSUME NEW k \in Nat, k \in Ns PROVE k + 1 \in Ns
  <2>1. PICK F : Upto(F, k)
    BY <1>4
  <2> DEFINE G == [s \in SUBSET S |-> IF Cardinality(s) <= k THEN F[s] ELSE Body(F, s)]
  <2>2. G = [s \in SUBSET S |-> G[s]]
    OBVIOUS
  <2>3. ASSUME NEW s \in SUBSET S, Cardinality(s) <= k + 1 PROVE G[s] = Body(G, s)
    <3>1. G[s] = Body(F, s)
      BY <2>1
    <3>2. CASE s = {}
      BY <3>1, <3>2
    <3>3. CASE s # {}
      <4>1. s \ {pick[s]} \in SUBSET S /\ Cardinality(s \ {pick[s]}) <= k
        BY <1>1, <1>2, <2>3, <3>3
      <4>2. G[s \ {pick[s]}] = F[s \ {pick[s]}]
        BY <4>1
      <4> HIDE DEF G
      <4>3. QED
        BY <3>1, <3>3, <4>2
    <3>4. QED
      BY <3>2, <3>3
  <2>4. Upto(G, k + 1)
    <3> HIDE DEF G, Body
    <3> QED BY <2>2, <2>3
  <2>5. \E E : Upto(E, k + 1)
    <3> HIDE DEF Upto, G
    <3> QED BY <2>4, Zenon
  <2> HIDE DEF Upto
  <2>6. QED
    BY <2>5
<1>5. Cardinality(S) \in Ns
  <2>1. Nat \subseteq Ns
    <3> HIDE DEF Ns
    <3> QED BY <1>3, <1>4, EveryNumber
  <2>2. QED
    BY <1>1, <2>1
<1>6. PICK F : Upto(F, Cardinality(S))
  BY <1>5
<1>7. F = [s \in SUBSET S |-> Body(F, s)]
  <2> HIDE DEF Body
  <2>1. \A s \in SUBSET S : F[s] = Body(F, s)
    BY <1>1, <1>6
  <2>2. QED
    BY <1>6, <2>1
<1>8. QED
  BY <1>7, Zenon DEF IsFold

\* It stays in a set that is closed under the operation.
LEMMA FoldIn ==
  ASSUME NEW S, IsFiniteSet(S), NEW pick, Picks(pick, S), NEW M, NEW base \in M,
         NEW Op, \A x \in S, m \in M : Op[<<x, m>>] \in M
  PROVE  \E F : IsFold(F, S, pick, base, Op) /\ \A s \in SUBSET S : F[s] \in M
<1>1. PICK F : IsFold(F, S, pick, base, Op)
  BY FoldExists
<1> DEFINE Fam == [s \in SUBSET S |-> M]
<1>2. \A s \in SUBSET S : F[s] = IF s = {} THEN base ELSE Op[<<pick[s], F[s \ {pick[s]}]>>]
  BY <1>1 DEF IsFold
<1>3. \A s \in SUBSET S : F[s] \in Fam[s]
  <2>1. F[{}] \in Fam[{}]
    BY <1>2
  <2>2. ASSUME NEW s \in (SUBSET S) \ {{}}, F[s \ {pick[s]}] \in Fam[s \ {pick[s]}] PROVE F[s] \in Fam[s]
    <3>1. pick[s] \in S /\ F[s \ {pick[s]}] \in M
      BY <2>2 DEF Picks
    <3>2. QED
      BY <1>2, <3>1
  <2> HIDE DEF Fam
  <2>3. QED
    BY <2>1, <2>2, FoldStays
<1>4. \A s \in SUBSET S : F[s] \in M
  BY <1>3
<1>5. QED
  BY <1>1, <1>4

\* The fold over S itself.
LEMMA FoldEnds ==
  ASSUME NEW S, IsFiniteSet(S), NEW pick, Picks(pick, S), NEW G, NEW M, G[{}] \in M,
         \A s \in (SUBSET S) \ {{}} : G[s \ {pick[s]}] \in M => G[s] \in M
  PROVE  G[S] \in M
<1> DEFINE Fam == [s \in SUBSET S |-> M]
<1>1. G[{}] \in Fam[{}]
  OBVIOUS
<1>2. ASSUME NEW s \in (SUBSET S) \ {{}}, G[s \ {pick[s]}] \in Fam[s \ {pick[s]}] PROVE G[s] \in Fam[s]
  BY <1>2
<1>3. \A s \in SUBSET S : G[s] \in Fam[s]
  <2> HIDE DEF Fam
  <2> QED BY <1>1, <1>2, FoldStays
<1>4. QED
  BY <1>3

\* The element a fold over a set begins with.
LEMMA MinPicks ==
  ASSUME NEW S \in SUBSET Nat
  PROVE  Picks([s \in SUBSET S |-> Min(s)], S)
<1> DEFINE pick == [s \in SUBSET S |-> Min(s)]
<1>1. ASSUME NEW s \in (SUBSET S) \ {{}} PROVE pick[s] \in s
  <2>1. \E m \in s : \A n \in s : m =< n
    BY LeastNatural
  <2>2. Min(s) \in s
    BY <2>1, Zenon DEF Min
  <2>3. QED
    BY <2>2
<1>2. Picks(pick, S)
  <2> HIDE DEF pick
  <2> QED BY <1>1 DEF Picks
<1>3. QED
  BY <1>2

LEMMA MaxPicks ==
  ASSUME NEW N \in Nat
  PROVE  Picks([s \in SUBSET (1 .. N) |-> Max(s)], 1 .. N)
<1> DEFINE pick == [s \in SUBSET (1 .. N) |-> Max(s)]
<1>1. ASSUME NEW s \in (SUBSET (1 .. N)) \ {{}} PROVE pick[s] \in s
  <2> DEFINE T == {N - x : x \in s}
  <2>1. T \in SUBSET Nat /\ T # {}
    OBVIOUS
  <2>2. PICK k \in T : \A n \in T : k <= n
    <3> HIDE DEF T
    <3> QED BY <2>1, LeastNatural
  <2>3. PICK m \in s : k = N - m
    OBVIOUS
  <2>4. ASSUME NEW n \in s PROVE m >= n
    <3>1. N - n \in T /\ n \in Nat /\ m \in Nat
      OBVIOUS
    <3>2. N - m <= N - n
      BY <2>2, <2>3, <3>1
    <3> HIDE DEF T
    <3>3. QED
      BY <3>1, <3>2
  <2>5. Max(s) \in s
    BY <2>4, Zenon DEF Max
  <2>6. QED
    BY <2>5
<1>2. Picks(pick, 1 .. N)
  <2> HIDE DEF pick
  <2> QED BY <1>1 DEF Picks
<1>3. QED
  BY <1>2

\* What holds at the end and goes on to the front, holds everywhere.
LEMMA Downward ==
  ASSUME NEW n \in Nat, NEW P, n + 1 \in P, \A i \in 1 .. n : i + 1 \in P => i \in P
  PROVE  \A i \in 1 .. n + 1 : i \in P
<1> DEFINE Ks == {k \in Nat : k <= n => n + 1 - k \in P}
<1>1. 0 \in Ks
  OBVIOUS
<1>2. ASSUME NEW k \in Nat, k \in Ks PROVE k + 1 \in Ks
  <2>1. SUFFICES ASSUME k + 1 <= n PROVE n + 1 - (k + 1) \in P
    OBVIOUS
  <2>2. n + 1 - (k + 1) \in 1 .. n /\ n + 1 - (k + 1) + 1 = n + 1 - k /\ k <= n
    BY <2>1
  <2>3. n + 1 - k \in P
    BY <1>2, <2>2
  <2>4. QED
    BY <2>2, <2>3
<1>3. Nat \subseteq Ks
  <2> HIDE DEF Ks
  <2> QED BY <1>1, <1>2, EveryNumber
<1>4. ASSUME NEW i \in 1 .. n + 1 PROVE i \in P
  <2>1. n + 1 - i \in Nat /\ n + 1 - i <= n /\ n + 1 - (n + 1 - i) = i
    OBVIOUS
  <2>2. QED
    BY <1>3, <2>1
<1>5. QED
  BY <1>4

\* A fold that begins with the least index has a value for each rest of a sequence.
IsLeastFold(H, n, base, Op) ==
  /\ H[{}] = base
  /\ \A s \in (SUBSET (1 .. n)) \ {{}} : H[s] = Op[<<Min(s), H[s \ {Min(s)}]>>]

LEMMA Suffixes ==
  ASSUME NEW n \in Nat, NEW base, NEW H, NEW Op, IsLeastFold(H, n, base, Op)
  PROVE  \E G : /\ G[1] = H[1 .. n] /\ G[n + 1] = base
                /\ \A i \in 1 .. n : G[i] = Op[<<i, G[i + 1]>>]
                /\ \A i \in 1 .. n + 1 : G[i] = H[i .. n]
<1> USE DEF IsLeastFold
<1> DEFINE G == [i \in 1 .. n + 1 |-> H[i .. n]]
<1>1. ASSUME NEW i \in 1 .. n PROVE G[i] = Op[<<i, G[i + 1]>>]
  <2> DEFINE s == i .. n
  <2>1. s \in SUBSET (1 .. n) /\ s # {} /\ i \in s /\ \A x \in s : i <= x
    OBVIOUS
  <2>2. Min(s) = i
    <3>1. \A m \in s : (\A x \in s : m <= x) => m = i
      BY <2>1
    <3> HIDE DEF s
    <3>2. QED
      BY <2>1, <3>1 DEF Min
  <2>3. s \ {i} = i + 1 .. n /\ i \in Int /\ i + 1 \in 1 .. n + 1 /\ i \in 1 .. n + 1
    OBVIOUS
  <2> HIDE DEF s
  <2>4. H[s] = Op[<<i, H[s \ {i}]>>]
    BY <2>1, <2>2
  <2>5. G[i] = H[s] /\ G[i + 1] = H[s \ {i}]
    BY <2>3 DEF s
  <2> HIDE DEF G
  <2>6. QED
    BY <2>4, <2>5
<1>2. G[n + 1] = base
  <2>1. n + 1 .. n = {} /\ n + 1 \in 1 .. n + 1
    OBVIOUS
  <2>2. QED
    BY <2>1
<1>3. G[1] = H[1 .. n] /\ \A i \in 1 .. n + 1 : G[i] = H[i .. n]
  <2>1. 1 \in 1 .. n + 1
    OBVIOUS
  <2>2. QED
    BY <2>1
<1> HIDE DEF G
<1>4. QED
  BY <1>1, <1>2, <1>3

-----------------------------------------------------------------------------
(* What the operations on value sets are closed under *)

LEMMA FiniteIsWide == ASSUME NEW S \in Bounded PROVE IsWide(FiniteVs(S))
BY DEF IsWide

LEMMA OpenIsWide == ASSUME NEW dir \in Dir, NEW k \in Int PROVE IsWide(OpenVs(dir, k))
BY DEF IsWide

LEMMA TopIsWide == IsWide(TopVs)
BY DEF IsWide

LEMMA SingleIsWide == ASSUME NEW x \in Int PROVE IsWide(Single(x))
BY SmallBounded, FiniteIsWide DEF Single

LEMMA BottomIsWide == IsWide(BottomVs)
BY SmallBounded, FiniteIsWide DEF BottomVs

LEMMA ExtremeIs ==
  ASSUME NEW S \in Bounded, S # {}, NEW dir \in Dir
  PROVE  Extreme(dir, S) \in Int /\ Min(S) \in Int /\ Max(S) \in Int
BY Extremes DEF Extreme

LEMMA SumsBounded ==
  ASSUME NEW S \in Bounded, NEW T \in Bounded
  PROVE  {x + y : x \in S, y \in T} \in Bounded
<1>1. PICK m \in Nat : S \subseteq -m .. m
  BY DEF Bounded
<1>2. PICK n \in Nat : T \subseteq -n .. n
  BY DEF Bounded
<1>3. ASSUME NEW x \in S, NEW y \in T PROVE x + y \in Int /\ x + y \in -(m + n) .. (m + n)
  BY <1>1, <1>2
<1> DEFINE R == {x + y : x \in S, y \in T}
           N == m + n
<1>4. R \in SUBSET Int /\ R \subseteq -N .. N
  BY <1>3
<1>5. N \in Nat
  OBVIOUS
<1> HIDE DEF R, N
<1>6. R \in Bounded
  BY <1>4, <1>5 DEF Bounded
<1>7. QED
  BY <1>6 DEF R

LEMMA ProductsBounded ==
  ASSUME NEW S \in Bounded, NEW T \in Bounded
  PROVE  {x * y : x \in S, y \in T} \in Bounded
<1>1. PICK m \in Nat : S \subseteq -m .. m
  BY DEF Bounded
<1>2. PICK n \in Nat : T \subseteq -n .. n
  BY DEF Bounded
<1>3. ASSUME NEW x \in S, NEW y \in T PROVE x * y \in Int /\ x * y \in -(m * n) .. (m * n)
  <2>1. x \in Int /\ y \in Int /\ -m <= x /\ x <= m /\ -n <= y /\ y <= n
    BY <1>1, <1>2
  <2>2. 0 <= y => x * y <= m * y /\ (-m) * y <= x * y
    BY <2>1, TimesMonotone
  <2>3. y <= 0 => m * y <= x * y /\ x * y <= (-m) * y
    BY <2>1, TimesMonotone
  <2>4. m * y <= m * n /\ m * (-n) <= m * y
    BY <2>1, TimesMonotone
  <2>5. (-m) * y = -(m * y) /\ m * (-n) = -(m * n) /\ x * y \in Int /\ m * y \in Int /\ m * n \in Int
    BY <2>1
  <2>6. QED
    BY <2>1, <2>2, <2>3, <2>4, <2>5
<1> DEFINE R == {x * y : x \in S, y \in T}
           N == m * n
<1>4. R \in SUBSET Int /\ R \subseteq -N .. N
  BY <1>3
<1>5. N \in Nat
  OBVIOUS
<1> HIDE DEF R, N
<1>6. R \in Bounded
  BY <1>4, <1>5 DEF Bounded
<1>7. QED
  BY <1>6 DEF R

LEMMA AddFiniteOpenWide ==
  ASSUME NEW S \in Bounded, NEW dir \in Dir, NEW k \in Int
  PROVE  IsWide(AddFiniteOpen(S, OpenVs(dir, k)))
<1>1. CASE S = {}
  BY <1>1, BottomIsWide DEF AddFiniteOpen
<1>2. CASE S # {}
  <2>1. AddFiniteOpen(S, OpenVs(dir, k)) = OpenVs(dir, Extreme(dir, S) + k)
    BY <1>2 DEF AddFiniteOpen, OpenVs
  <2>2. Extreme(dir, S) + k \in Int
    BY <1>2, ExtremeIs
  <2>3. QED
    BY <2>1, <2>2, OpenIsWide
<1>3. QED
  BY <1>1, <1>2

LEMMA AddWide ==
  ASSUME NEW a, NEW b, IsWide(a), IsWide(b)
  PROVE  IsWide(AddVs(a, b))
<1>1. CASE a = TopVs \/ b = TopVs
  BY <1>1, TopIsWide DEF AddVs, TopVs
<1>2. ASSUME NEW S \in Bounded, NEW T \in Bounded, a = FiniteVs(S), b = FiniteVs(T)
      PROVE  IsWide(AddVs(a, b))
  <2>1. AddVs(a, b) = FiniteVs({x + y : x \in S, y \in T})
    BY <1>2 DEF AddVs, FiniteVs
  <2>2. QED
    BY <2>1, SumsBounded, FiniteIsWide
<1>3. ASSUME NEW S \in Bounded, NEW dir \in Dir, NEW k \in Int,
             \/ a = FiniteVs(S) /\ b = OpenVs(dir, k)
             \/ b = FiniteVs(S) /\ a = OpenVs(dir, k)
      PROVE  IsWide(AddVs(a, b))
  <2>1. AddVs(a, b) = AddFiniteOpen(S, OpenVs(dir, k))
    BY <1>3 DEF AddVs, FiniteVs, OpenVs
  <2>2. QED
    BY <2>1, AddFiniteOpenWide
<1>4. ASSUME NEW d \in Dir, NEW k \in Int, NEW e \in Dir, NEW l \in Int,
             a = OpenVs(d, k), b = OpenVs(e, l)
      PROVE  IsWide(AddVs(a, b))
  <2>1. AddVs(a, b) = IF d = e THEN OpenVs(d, k + l) ELSE TopVs
    BY <1>4 DEF AddVs, OpenVs
  <2>2. k + l \in Int
    OBVIOUS
  <2>3. QED
    BY <2>1, <2>2, OpenIsWide, TopIsWide
<1>5. QED
  BY <1>1, <1>2, <1>3, <1>4, Kinds

LEMMA MulNonNegativeWide ==
  ASSUME NEW S \in Bounded, S # {}, NEW dir \in Dir, NEW k \in Int
  PROVE  IsWide(MulNonNegative(S, OpenVs(dir, k)))
<1> DEFINE m == IF (k < 0) = (dir = "DOWNWARD") THEN Min(S) ELSE Max(S)
<1>1. MulNonNegative(S, OpenVs(dir, k)) = OpenVs(dir, m * k)
  BY DEF MulNonNegative, OpenVs
<1>2. m \in Int
  BY ExtremeIs
<1>3. m * k \in Int
  <2> HIDE DEF m
  <2> QED BY <1>2
<1>4. QED
  BY <1>1, <1>3, OpenIsWide

LEMMA MulFiniteOpenWide ==
  ASSUME NEW S \in Bounded, NEW dir \in Dir, NEW k \in Int
  PROVE  IsWide(MulFiniteOpen(S, OpenVs(dir, k)))
<1> DEFINE o == OpenVs(dir, k)
           T == {-x : x \in S}
<1>1. CASE S = {}
  BY <1>1, BottomIsWide DEF MulFiniteOpen
<1>2. CASE S = {0}
  <2>1. MulFiniteOpen(S, o) = Single(0)
    BY <1>2 DEF MulFiniteOpen
  <2>2. QED
    BY <2>1, SingleIsWide
<1>3. CASE S \notin {{}, {0}}
  <2>1. MulFiniteOpen(S, o) \in {TopVs, MulNonNegative(T, NegVs(o)), MulNonNegative(S, o)}
    BY <1>3 DEF MulFiniteOpen
  <2>2. T \in Bounded /\ T # {}
    BY <1>3, NegBounded
  <2>3. PICK d \in Dir : NegVs(o) = OpenVs(d, -k)
    BY DEF NegVs, OpenVs, Dir
  <2>4. -k \in Int
    OBVIOUS
  <2> HIDE DEF T
  <2>5. IsWide(MulNonNegative(T, NegVs(o))) /\ IsWide(MulNonNegative(S, o))
    BY <1>3, <2>2, <2>3, <2>4, MulNonNegativeWide
  <2>6. QED
    BY <2>1, <2>5, TopIsWide
<1>4. QED
  BY <1>1, <1>2, <1>3

LEMMA MulWide ==
  ASSUME NEW a, NEW b, IsWide(a), IsWide(b)
  PROVE  IsWide(MulVs(a, b))
<1>1. CASE a = TopVs \/ b = TopVs
  BY <1>1, TopIsWide DEF MulVs, TopVs
<1>2. ASSUME NEW S \in Bounded, NEW T \in Bounded, a = FiniteVs(S), b = FiniteVs(T)
      PROVE  IsWide(MulVs(a, b))
  <2>1. MulVs(a, b) = FiniteVs({x * y : x \in S, y \in T})
    BY <1>2 DEF MulVs, FiniteVs
  <2>2. QED
    BY <2>1, ProductsBounded, FiniteIsWide
<1>3. ASSUME NEW S \in Bounded, NEW dir \in Dir, NEW k \in Int,
             \/ a = FiniteVs(S) /\ b = OpenVs(dir, k)
             \/ b = FiniteVs(S) /\ a = OpenVs(dir, k)
      PROVE  IsWide(MulVs(a, b))
  <2>1. MulVs(a, b) = MulFiniteOpen(S, OpenVs(dir, k))
    BY <1>3 DEF MulVs, FiniteVs, OpenVs
  <2>2. QED
    BY <2>1, MulFiniteOpenWide
<1>4. ASSUME NEW d \in Dir, NEW k \in Int, NEW e \in Dir, NEW l \in Int,
             a = OpenVs(d, k), b = OpenVs(e, l)
      PROVE  IsWide(MulVs(a, b))
  <2>1. MulVs(a, b) \in {OpenVs("UPWARD", k * l), OpenVs("DOWNWARD", k * l), TopVs}
    BY <1>4 DEF MulVs, OpenVs
  <2>2. k * l \in Int
    OBVIOUS
  <2>3. QED
    BY <2>1, <2>2, OpenIsWide, TopIsWide DEF Dir
<1>5. QED
  BY <1>1, <1>2, <1>3, <1>4, Kinds

LEMMA JoinWide ==
  ASSUME NEW a, NEW b, IsWide(a), IsWide(b)
  PROVE  IsWide(JoinVs(a, b))
<1>1. CASE a = TopVs \/ b = TopVs
  BY <1>1, TopIsWide DEF JoinVs, TopVs
<1>2. ASSUME NEW S \in Bounded, NEW T \in Bounded, a = FiniteVs(S), b = FiniteVs(T)
      PROVE  IsWide(JoinVs(a, b))
  <2>1. JoinVs(a, b) = FiniteVs(S \cup T)
    BY <1>2 DEF JoinVs, FiniteVs
  <2>2. QED
    BY <2>1, UnionBounded, FiniteIsWide
<1>3. ASSUME NEW S \in Bounded, NEW dir \in Dir, NEW k \in Int,
             \/ a = FiniteVs(S) /\ b = OpenVs(dir, k)
             \/ b = FiniteVs(S) /\ a = OpenVs(dir, k)
      PROVE  IsWide(JoinVs(a, b))
  <2>1. JoinVs(a, b) = JoinFiniteOpen(S, OpenVs(dir, k))
    BY <1>3 DEF JoinVs, FiniteVs, OpenVs
  <2>2. CASE S = {}
    BY <2>1, <2>2, OpenIsWide DEF JoinFiniteOpen
  <2>3. CASE S # {}
    <3>1. JoinVs(a, b) = OpenVs(dir, Outer(dir, k, Extreme(dir, S)))
      BY <2>1, <2>3 DEF JoinFiniteOpen, OpenVs
    <3>2. Outer(dir, k, Extreme(dir, S)) \in Int
      BY <2>3, ExtremeIs DEF Outer
    <3>3. QED
      BY <3>1, <3>2, OpenIsWide
  <2>4. QED
    BY <2>2, <2>3
<1>4. ASSUME NEW d \in Dir, NEW k \in Int, NEW e \in Dir, NEW l \in Int,
             a = OpenVs(d, k), b = OpenVs(e, l)
      PROVE  IsWide(JoinVs(a, b))
  <2>1. JoinVs(a, b) = IF d = e THEN OpenVs(d, Outer(d, k, l)) ELSE TopVs
    BY <1>4 DEF JoinVs, OpenVs
  <2>2. Outer(d, k, l) \in Int
    BY DEF Outer
  <2>3. QED
    BY <2>1, <2>2, OpenIsWide, TopIsWide
<1>5. QED
  BY <1>1, <1>2, <1>3, <1>4, Kinds

LEMMA MeetWide ==
  ASSUME NEW a, NEW b, IsWide(a), IsWide(b)
  PROVE  IsWide(MeetVs(a, b))
<1>1. CASE a = TopVs \/ b = TopVs
  BY <1>1, Kinds DEF MeetVs, TopVs, FiniteVs, OpenVs
<1>2. ASSUME NEW S \in Bounded, NEW c, IsWide(c), c # TopVs,
             \/ a = FiniteVs(S) /\ b = c
             \/ b = FiniteVs(S) /\ a = c /\ \A T \in Bounded : c # FiniteVs(T)
      PROVE  IsWide(MeetVs(a, b))
  <2>1. c.kind # "top" /\ FiniteVs(S).kind = "finite" /\ FiniteVs(S).elements = S
    BY <1>2, Kinds DEF FiniteVs, OpenVs, TopVs
  <2>2. (\A T \in Bounded : c # FiniteVs(T)) => c.kind = "open"
    BY <1>2, Kinds DEF OpenVs
  <2>3. MeetVs(a, b) = FiniteVs({m \in S : Contains(c, m)})
    BY <1>2, <2>1, <2>2 DEF MeetVs
  <2>4. {m \in S : Contains(c, m)} \in Bounded
    <3>1. {m \in S : Contains(c, m)} \in SUBSET S
      OBVIOUS
    <3>2. QED
      BY <3>1, BoundedIs, Zenon
  <2>5. QED
    BY <2>3, <2>4, FiniteIsWide
<1>3. ASSUME NEW d \in Dir, NEW k \in Int, NEW e \in Dir, NEW l \in Int,
             a = OpenVs(d, k), b = OpenVs(e, l)
      PROVE  IsWide(MeetVs(a, b))
  <2>1. ASSUME NEW down, NEW up, NEW u \in Int, NEW v \in Int,
               down = OpenVs("DOWNWARD", v), up = OpenVs("UPWARD", u)
        PROVE  IsWide(MeetFacing(down, up))
    <3>1. MeetFacing(down, up) \in {BottomVs, FiniteVs(u .. v), down}
      BY <2>1 DEF MeetFacing, OpenVs
    <3>2. u .. v \in Bounded
      BY SmallBounded
    <3>3. QED
      BY <2>1, <3>1, <3>2, BottomIsWide, FiniteIsWide, OpenIsWide DEF Dir
  <2>2. CASE d = e
    <3>1. MeetVs(a, b) = OpenVs(d, Inner(d, k, l))
      BY <1>3, <2>2 DEF MeetVs, OpenVs
    <3>2. Inner(d, k, l) \in Int
      BY DEF Inner
    <3>3. QED
      BY <3>1, <3>2, OpenIsWide
  <2>3. CASE d = "DOWNWARD" /\ e = "UPWARD"
    <3>1. MeetVs(a, b) = MeetFacing(a, b)
      BY <1>3, <2>3 DEF MeetVs, OpenVs
    <3>2. QED
      BY <1>3, <2>1, <2>3, <3>1
  <2>4. CASE d = "UPWARD" /\ e = "DOWNWARD"
    <3>1. MeetVs(a, b) = MeetFacing(b, a)
      BY <1>3, <2>4 DEF MeetVs, OpenVs
    <3>2. QED
      BY <1>3, <2>1, <2>4, <3>1
  <2>5. QED
    BY <2>2, <2>3, <2>4 DEF Dir
<1>4. QED
  <2>1. a # TopVs /\ b # TopVs /\ (\E S \in Bounded : a = FiniteVs(S)) => IsWide(MeetVs(a, b))
    BY <1>2
  <2>2. a # TopVs /\ b # TopVs /\ (\A S \in Bounded : a # FiniteVs(S)) /\ (\E S \in Bounded : b = FiniteVs(S))
        => IsWide(MeetVs(a, b))
    BY <1>2
  <2>3. QED
    BY <1>1, <1>3, <2>1, <2>2, Kinds

\* Division by one number.
LEMMA DivSingle ==
  ASSUME NEW a, IsWide(a), MaxInt \in Nat, NEW s \in Int \ {0}
  PROVE  /\ IsWide(DivVs(a, Single(s)))
         /\ \A x \in Ints : Contains(a, s * x) => Contains(DivVs(a, Single(s)), x)
<1>1. CASE a = TopVs
  BY <1>1, TopIsWide, ContainsKind DEF DivVs, TopVs
<1>2. ASSUME NEW S \in Bounded, a = FiniteVs(S)
      PROVE  /\ IsWide(DivVs(a, Single(s)))
             /\ \A x \in Ints : Contains(a, s * x) => Contains(DivVs(a, Single(s)), x)
  <2> DEFINE T == {q \in Ints : \E x \in S, y \in {s} : IF y = 0 THEN q = 0 ELSE q * y = x}
  <2>1. DivVs(a, Single(s)) = FiniteVs(T)
    BY <1>2 DEF DivVs, FiniteVs, Single
  <2>2. T \in Bounded
    <3>1. T \in SUBSET Ints
      OBVIOUS
    <3> HIDE DEF T
    <3>2. QED
      BY <3>1, ValueSetIsWide
  <2>3. ASSUME NEW x \in Ints, Contains(a, s * x) PROVE x \in T
    <3>1. s * x \in S
      BY <1>2, <2>3, ContainsKind
    <3>2. x * s = s * x
      BY ValueSetIsWide
    <3>3. QED
      BY <3>1, <3>2
  <2> HIDE DEF T
  <2>4. QED
    BY <2>1, <2>2, <2>3, FiniteIsWide, ContainsKind
<1>3. ASSUME NEW dir \in Dir, NEW k \in Int, a = OpenVs(dir, k)
      PROVE  /\ IsWide(DivVs(a, Single(s)))
             /\ \A x \in Ints : Contains(a, s * x) => Contains(DivVs(a, Single(s)), x)
  <2> DEFINE d == IF s < 0 THEN IF dir = "UPWARD" THEN "DOWNWARD" ELSE "UPWARD" ELSE dir
  <2>1. Min({s}) = s /\ Max({s}) = s
    <3>1. {s} \in Bounded
      BY SmallBounded
    <3>2. Min({s}) \in {s} /\ Max({s}) \in {s}
      BY <3>1, Extremes
    <3>3. QED
      BY <3>2
  <2>2. DivVs(a, Single(s)) = DivOpenByFinite(a, {s})
    BY <1>3 DEF DivVs, OpenVs, Single, FiniteVs
  <2>3. DivOpenByFinite(a, {s}) = OpenVs(d, Quotient(k, s))
    BY <1>3, <2>1 DEF DivOpenByFinite, OpenVs, Sign
  <2>4. Quotient(k, s) \in Int
    <3> DEFINE n == IF k >= 0 THEN k ELSE -k
               m == IF s > 0 THEN s ELSE -s
    <3>1. n \in Nat /\ m \in Nat /\ m > 0
      OBVIOUS
    <3>2. n \div m \in Int
      <4> HIDE DEF n, m
      <4> QED BY <3>1
    <3>3. Quotient(k, s) \in {n \div m, -(n \div m)}
      BY DEF Quotient
    <3> HIDE DEF n, m
    <3>4. QED
      BY <3>2, <3>3
  <2>5. ASSUME NEW x \in Ints, Contains(a, s * x) PROVE Contains(OpenVs(d, Quotient(k, s)), x)
    <3>1. x \in Int /\ s \in Int /\ s # 0 /\ s * x = x * s /\ x * s \in Int
      BY ValueSetIsWide
    <3>2. /\ dir = "UPWARD" => k <= x * s
          /\ dir = "DOWNWARD" => x * s <= k
      BY <1>3, <2>5, <3>1, ContainsKind
    <3>3. /\ s > 0 /\ k <= x * s => Quotient(k, s) <= x
          /\ s > 0 /\ x * s <= k => x <= Quotient(k, s)
          /\ s < 0 /\ k <= x * s => x <= Quotient(k, s)
          /\ s < 0 /\ x * s <= k => Quotient(k, s) <= x
      BY <3>1, QuotientBounds
    <3>4. s > 0 \/ s < 0
      BY <3>1
    <3>5. QED
      BY <3>2, <3>3, <3>4, ContainsKind DEF Dir
  <2>6. d \in Dir
    BY DEF Dir
  <2> HIDE DEF d
  <2>7. QED
    BY <2>2, <2>3, <2>4, <2>5, <2>6, OpenIsWide
<1>4. QED
  BY <1>1, <1>2, <1>3, Kinds

-----------------------------------------------------------------------------
(* States of value sets *)

LEMMA StateMade ==
  ASSUME NEW b \in BOOLEAN, NEW D \in SUBSET Var, NEW f, f = [v \in D |-> f[v]],
         \A v \in D : IsValueSet(f[v]) /\ f[v] # BottomVs
  PROVE  IsState([bottom |-> b, elements |-> f])
<1>1. DOMAIN f = D
  OBVIOUS
<1>2. QED
  BY <1>1 DEF IsState

LEMMA StateIs ==
  ASSUME NEW e, IsState(e)
  PROVE  /\ e.bottom \in BOOLEAN /\ DOMAIN e.elements \in SUBSET Var
         /\ e = [bottom |-> e.bottom, elements |-> e.elements]
         /\ e.elements = [v \in DOMAIN e.elements |-> e.elements[v]]
         /\ \A v \in DOMAIN e.elements : IsValueSet(e.elements[v]) /\ e.elements[v] # BottomVs
BY DEF IsState

LEMMA TopIsState == IsState(State(<<>>)) /\ IsState(Bottom) /\ Bottom.bottom /\ ~State(<<>>).bottom
<1>1. <<>> = [v \in {} |-> <<>>[v]] /\ {} \in SUBSET Var
  OBVIOUS
<1>2. QED
  BY <1>1, StateMade DEF State, Bottom

\* One element is replaced.
LEMMA SetIs ==
  ASSUME NEW e, IsState(e), NEW v \in Var, NEW vs
  PROVE  /\ Set(e, v, vs).bottom = e.bottom
         /\ DOMAIN Set(e, v, vs).elements = DOMAIN e.elements \cup {v}
         /\ Set(e, v, vs).elements[v] = vs
         /\ \A w \in DOMAIN e.elements \ {v} : Set(e, v, vs).elements[w] = e.elements[w]
         /\ (IsValueSet(vs) /\ vs # BottomVs => IsState(Set(e, v, vs)))
<1> DEFINE D == DOMAIN e.elements
           f == [w \in D \cup {v} |-> IF w = v THEN vs ELSE e.elements[w]]
<1>1. e = [bottom |-> e.bottom, elements |-> e.elements] /\ e.bottom \in BOOLEAN /\ D \in SUBSET Var
  BY StateIs
<1>2. Set(e, v, vs) = [bottom |-> e.bottom, elements |-> f]
  BY <1>1 DEF Set
<1>3. /\ DOMAIN f = D \cup {v} /\ f[v] = vs /\ \A w \in D \ {v} : f[w] = e.elements[w]
      /\ f = [w \in D \cup {v} |-> f[w]]
  OBVIOUS
<1>4. \A w \in D : IsValueSet(e.elements[w]) /\ e.elements[w] # BottomVs
  BY StateIs
<1> HIDE DEF f, D
<1>5. IsValueSet(vs) /\ vs # BottomVs => IsState([bottom |-> e.bottom, elements |-> f])
  <2>1. ASSUME IsValueSet(vs), vs # BottomVs, NEW w \in D \cup {v} PROVE IsValueSet(f[w]) /\ f[w] # BottomVs
    BY <1>3, <1>4, <2>1
  <2>2. D \cup {v} \in SUBSET Var
    BY <1>1
  <2>3. QED
    BY <1>1, <1>3, <2>1, <2>2, StateMade
<1>6. QED
  BY <1>2, <1>3, <1>5 DEF D

LEMMA WithoutIs ==
  ASSUME NEW e, IsState(e), NEW ids
  PROVE  /\ IsState(Without(e, ids)) /\ Without(e, ids).bottom = e.bottom
         /\ DOMAIN Without(e, ids).elements = DOMAIN e.elements \ ids
         /\ \A v \in DOMAIN e.elements \ ids : Without(e, ids).elements[v] = e.elements[v]
<1> DEFINE D == DOMAIN e.elements \ ids
           f == [v \in D |-> e.elements[v]]
<1>1. e = [bottom |-> e.bottom, elements |-> e.elements] /\ e.bottom \in BOOLEAN /\ D \in SUBSET Var
  BY StateIs
<1>2. Without(e, ids) = [bottom |-> e.bottom, elements |-> f]
  BY <1>1 DEF Without
<1>3. DOMAIN f = D /\ \A v \in D : f[v] = e.elements[v]
  OBVIOUS
<1>4. \A v \in D : IsValueSet(f[v]) /\ f[v] # BottomVs
  BY StateIs
<1>5. f = [v \in D |-> f[v]]
  OBVIOUS
<1> HIDE DEF f
<1>6. IsState([bottom |-> e.bottom, elements |-> f])
  BY <1>1, <1>4, <1>5, StateMade
<1>7. QED
  BY <1>2, <1>3, <1>6

LEMMA LookupIs ==
  ASSUME NEW e, IsState(e), NEW v
  PROVE  IsValueSet(Lookup(e, v)) /\ Lookup(e, v) # BottomVs
<1>1. IsValueSet(TopVs) /\ TopVs # BottomVs
  BY DEF IsValueSet, TopVs, BottomVs, FiniteVs
<1>2. QED
  BY <1>1, StateIs DEF Lookup

\* What lies below the empty set is empty.
LEMMA BelowBottom ==
  ASSUME NEW a, IsWide(a), Leq(a, BottomVs)
  PROVE  a = BottomVs
<1>1. ~Leq(TopVs, BottomVs) /\ \A d, k : ~Leq(OpenVs(d, k), BottomVs)
  BY LeqKinds DEF BottomVs
<1>2. \A S : S # {} => ~Leq(FiniteVs(S), BottomVs)
  BY LeqKinds DEF BottomVs
<1>3. QED
  BY <1>1, <1>2, KindsApart

LEMMA NotEmptied ==
  ASSUME NEW a, NEW b, IsWide(a), IsWide(b), b # BottomVs
  PROVE  JoinVs(a, b) # BottomVs /\ WidenVs(a, b) # BottomVs
<1>1. Leq(b, JoinVs(a, b)) /\ Leq(b, WidenVs(a, b))
  BY JoinAbove, WidenAbove
<1>2. QED
  BY <1>1, BelowBottom

LEMMA NarrowedValue ==
  ASSUME NEW a, NEW b, IsWide(a), IsWide(b), b # BottomVs, Leq(b, a)
  PROVE  NarrowVs(a, b) # BottomVs /\ Leq(b, NarrowVs(a, b))
<1>1. Leq(b, b) /\ \A d, k : OpenVs(d, k) # BottomVs
  BY LeqReflexive DEF OpenVs, BottomVs, FiniteVs
<1>2. QED
  BY <1>1, NarrowIsNew

\* The order, element by element.
LEMMA GreaterEqIs ==
  ASSUME NEW a, NEW b, IsState(a), IsState(b), ~b.bottom
  PROVE  GreaterEq(a, b) <=> ~a.bottom /\ \A v \in DOMAIN a.elements : Leq(Lookup(b, v), a.elements[v])
<1>1. ASSUME NEW v \in DOMAIN a.elements, v \notin DOMAIN b.elements
      PROVE  a.elements[v] = TopVs <=> Leq(Lookup(b, v), a.elements[v])
  <2>1. Lookup(b, v) = TopVs
    BY <1>1 DEF Lookup
  <2>2. Leq(TopVs, a.elements[v]) => a.elements[v] = TopVs
    <3>1. IsValueSet(a.elements[v]) /\ MaxInt \in Nat
      BY StateIs, VsdAssumption
    <3>2. IsWide(a.elements[v])
      BY <3>1, ValueSetIsWide
    <3>3. QED
      BY <3>2, Kinds, LeqKinds
  <2>3. QED
    BY <2>1, <2>2, LeqKinds
<1>2. ASSUME NEW v \in DOMAIN a.elements, v \in DOMAIN b.elements PROVE Lookup(b, v) = b.elements[v]
  BY <1>2 DEF Lookup
<1>3. QED
  BY <1>1, <1>2, StateIs DEF GreaterEq

LEMMA WideElements ==
  ASSUME NEW e, IsState(e)
  PROVE  /\ \A v : IsWide(Lookup(e, v))
         /\ \A v \in DOMAIN e.elements : IsWide(e.elements[v])
BY StateIs, LookupIs, VsdAssumption, ValueSetIsWide

LEMMA JoinedIs ==
  ASSUME NEW a, NEW b, IsState(a), IsState(b)
  PROVE  /\ b.bottom => Joined(a, b) = a
         /\ ~b.bottom /\ a.bottom => Joined(a, b) = b
         /\ ~a.bottom /\ ~b.bottom =>
              /\ ~Joined(a, b).bottom
              /\ DOMAIN Joined(a, b).elements = DOMAIN a.elements \cap DOMAIN b.elements
              /\ \A v \in DOMAIN a.elements \cap DOMAIN b.elements :
                   Joined(a, b).elements[v] = JoinVs(a.elements[v], b.elements[v])
         /\ Representable(Joined(a, b)) => IsState(Joined(a, b))
<1>1. b.bottom => Joined(a, b) = a
  BY DEF Joined
<1>2. ~b.bottom /\ a.bottom => Joined(a, b) = b
  BY DEF Joined
<1>3. ASSUME ~a.bottom, ~b.bottom
      PROVE  /\ ~Joined(a, b).bottom
             /\ DOMAIN Joined(a, b).elements = DOMAIN a.elements \cap DOMAIN b.elements
             /\ \A v \in DOMAIN a.elements \cap DOMAIN b.elements :
                  Joined(a, b).elements[v] = JoinVs(a.elements[v], b.elements[v])
             /\ Representable(Joined(a, b)) => IsState(Joined(a, b))
  <2> DEFINE D == DOMAIN a.elements \cap DOMAIN b.elements
             f == [v \in D |-> JoinVs(a.elements[v], b.elements[v])]
  <2>1. Joined(a, b) = [bottom |-> FALSE, elements |-> f]
    BY <1>3 DEF Joined, State
  <2>2. ~Joined(a, b).bottom /\ Joined(a, b).elements = f
    BY <2>1
  <2>3. DOMAIN f = D /\ f = [v \in D |-> f[v]] /\ \A v \in D : f[v] = JoinVs(a.elements[v], b.elements[v])
    OBVIOUS
  <2>4. D \in SUBSET Var
    BY StateIs
  <2>5. ASSUME NEW v \in D PROVE f[v] # BottomVs
    <3>1. IsWide(a.elements[v]) /\ IsWide(b.elements[v]) /\ b.elements[v] # BottomVs
      BY WideElements, StateIs
    <3>2. JoinVs(a.elements[v], b.elements[v]) # BottomVs
      BY <3>1, NotEmptied
    <3> HIDE DEF f
    <3>3. QED
      BY <2>3, <3>2
  <2> HIDE DEF f, D
  <2>6. Representable(Joined(a, b)) => IsState(Joined(a, b))
    <3>1. Representable(Joined(a, b)) => \A v \in D : IsValueSet(f[v])
      BY <2>2, <2>3 DEF Representable
    <3>2. QED
      BY <2>1, <2>3, <2>4, <2>5, <3>1, StateMade
  <2>7. QED
    BY <2>2, <2>3, <2>6 DEF D
<1>4. a.bottom \in BOOLEAN /\ b.bottom \in BOOLEAN
  BY StateIs
<1>5. QED
  BY <1>1, <1>2, <1>3, <1>4

LEMMA BoxedIs ==
  ASSUME NEW a, NEW b, IsState(a), IsState(b)
  PROVE  /\ b.bottom => Boxed(a, b) = a
         /\ ~b.bottom =>
              /\ ~Boxed(a, b).bottom /\ DOMAIN Boxed(a, b).elements = DOMAIN b.elements
              /\ \A v \in DOMAIN b.elements :
                   /\ Boxed(a, b).elements[v] =
                        IF GreaterEq(a, b) THEN NarrowVs(Lookup(a, v), b.elements[v])
                        ELSE WidenVs(Lookup(a, v), b.elements[v])
                   /\ GreaterEq(a, b) => Leq(b.elements[v], Lookup(a, v))
         /\ Representable(Boxed(a, b)) => IsState(Boxed(a, b))
<1>1. b.bottom => Boxed(a, b) = a
  BY DEF Boxed, Widened, Narrowed
<1>2. ASSUME ~b.bottom
      PROVE  /\ ~Boxed(a, b).bottom /\ DOMAIN Boxed(a, b).elements = DOMAIN b.elements
             /\ \A v \in DOMAIN b.elements :
                  /\ Boxed(a, b).elements[v] =
                       IF GreaterEq(a, b) THEN NarrowVs(Lookup(a, v), b.elements[v])
                       ELSE WidenVs(Lookup(a, v), b.elements[v])
                  /\ GreaterEq(a, b) => Leq(b.elements[v], Lookup(a, v))
             /\ Representable(Boxed(a, b)) => IsState(Boxed(a, b))
  <2> DEFINE D == DOMAIN b.elements
             N == [v \in D |-> NarrowVs(Lookup(a, v), b.elements[v])]
             W == [v \in D |-> WidenVs(Lookup(a, v), b.elements[v])]
             f == IF GreaterEq(a, b) THEN N ELSE W
  <2>1. Boxed(a, b) = [bottom |-> FALSE, elements |-> f]
    BY <1>2 DEF Boxed, Narrowed, Widened, State
  <2>2. ~Boxed(a, b).bottom /\ Boxed(a, b).elements = f
    BY <2>1
  <2>3. /\ DOMAIN f = D /\ f = [v \in D |-> f[v]]
        /\ \A v \in D : f[v] = IF GreaterEq(a, b) THEN NarrowVs(Lookup(a, v), b.elements[v])
                               ELSE WidenVs(Lookup(a, v), b.elements[v])
    <3>1. CASE GreaterEq(a, b)
      BY <3>1
    <3>2. CASE ~GreaterEq(a, b)
      BY <3>2
    <3>3. QED
      BY <3>1, <3>2
  <2> HIDE DEF f, N, W
  <2>4. D \in SUBSET Var
    BY StateIs
  <2>5. ASSUME GreaterEq(a, b), NEW v \in D PROVE Leq(b.elements[v], Lookup(a, v))
    <3>1. Lookup(b, v) = b.elements[v]
      BY <2>5 DEF Lookup
    <3>2. CASE v \in DOMAIN a.elements
      BY <1>2, <2>5, <3>1, <3>2, GreaterEqIs DEF Lookup
    <3>3. CASE v \notin DOMAIN a.elements
      BY <3>3, LeqKinds DEF Lookup
    <3>4. QED
      BY <3>2, <3>3
  <2>6. ASSUME NEW v \in D PROVE f[v] # BottomVs
    <3>1. IsWide(Lookup(a, v)) /\ IsWide(b.elements[v]) /\ b.elements[v] # BottomVs
      BY WideElements, StateIs
    <3>2. CASE GreaterEq(a, b)
      BY <2>3, <2>5, <3>1, <3>2, NarrowedValue
    <3>3. CASE ~GreaterEq(a, b)
      BY <2>3, <3>1, <3>3, NotEmptied
    <3>4. QED
      BY <3>2, <3>3
  <2>7. Representable(Boxed(a, b)) => IsState(Boxed(a, b))
    <3>1. Representable(Boxed(a, b)) => \A v \in D : IsValueSet(f[v])
      BY <2>2, <2>3 DEF Representable
    <3>2. QED
      BY <2>1, <2>3, <2>4, <2>6, <3>1, StateMade
  <2>8. QED
    BY <2>2, <2>3, <2>5, <2>7 DEF D
<1>3. b.bottom \in BOOLEAN
  BY StateIs
<1>4. QED
  BY <1>1, <1>2, <1>3

-----------------------------------------------------------------------------
(* Queries *)

Wides == {FiniteVs(S) : S \in Bounded} \cup {OpenVs(z[1], z[2]) : z \in Dir \X Int} \cup {TopVs}

LEMMA WidesAre == \A v : v \in Wides <=> IsWide(v)
<1>1. ASSUME NEW v, v \in Wides PROVE IsWide(v)
  BY <1>1, FiniteIsWide, OpenIsWide, TopIsWide DEF Wides
<1>2. ASSUME NEW v, IsWide(v) PROVE v \in Wides
  <2>1. ASSUME NEW dir \in Dir, NEW k \in Int, v = OpenVs(dir, k) PROVE v \in Wides
    <3>1. <<dir, k>> \in Dir \X Int /\ v = OpenVs(<<dir, k>>[1], <<dir, k>>[2])
      BY <2>1
    <3>2. QED
      BY <3>1 DEF Wides
  <2>2. QED
    BY <1>2, <2>1, Kinds DEF Wides
<1>3. QED
  BY <1>1, <1>2

\* The least of a set is the same for the module of the sequences.
LEMMA SqPicks == \A S : (Sq!Min(S)) = Min(S) /\ (Sq!Max(S)) = Max(S)
BY Zenon DEF Sq!Min, Sq!Max, Min, Max

\* A linear expression as it occurs in the loop of assume.
IsWideLin(lin, ids) == lin.terms \in Seq([scale : Int \ {0}, var : ids]) /\ IsWide(lin.vs)

LEMMA LinIsWide ==
  ASSUME NEW lin, NEW ids, IsLin(lin, ids)
  PROVE  IsWideLin(lin, ids)
BY VsdAssumption, ValueSetIsWide DEF IsLin, IsWideLin

LEMMA TermsIs ==
  ASSUME NEW lin, NEW ids, IsWideLin(lin, ids)
  PROVE  /\ Len(lin.terms) \in Nat /\ DOMAIN lin.terms = 1 .. Len(lin.terms)
         /\ \A i \in 1 .. Len(lin.terms) :
              lin.terms[i].scale \in Int \ {0} /\ lin.terms[i].var \in ids
<1> DEFINE ts == lin.terms
           T == [scale : Int \ {0}, var : ids]
<1>1. ts \in Seq(T)
  BY DEF IsWideLin
<1> HIDE DEF ts, T
<1>2. Len(ts) \in Nat /\ DOMAIN ts = 1 .. Len(ts) /\ \A i \in 1 .. Len(ts) : ts[i] \in T
  BY <1>1
<1>3. QED
  BY <1>2 DEF ts, T

LEMMA QueryVarIs ==
  ASSUME NEW e, IsState(e), NEW v \in Ids
  PROVE  IsValueSet(QueryVar(e, v)) /\ IsWide(QueryVar(e, v)) /\ QueryVar(e, v) # BottomVs
<1>1. \A x \in Ints : IsValueSet(Single(x)) /\ Single(x) # BottomVs
  BY DEF IsValueSet, Single, FiniteVs, BottomVs
<1>2. IsValueSet(TopVs) /\ TopVs # BottomVs /\ 0 \in Ints
  BY VsdAssumption DEF IsValueSet, TopVs, FiniteVs, BottomVs, Ints
<1>3. CASE v \in DOMAIN Address
  <2>1. QueryVar(e, v) = Single(Address[v]) /\ Address[v] \in Ints
    BY <1>3, VsdAssumption DEF QueryVar
  <2>2. QED
    BY <1>1, <2>1, VsdAssumption, ValueSetIsWide
<1>4. CASE v = "null"
  <2>1. QueryVar(e, v) = Single(0)
    BY <1>4, VsdAssumption DEF QueryVar
  <2>2. QED
    BY <1>1, <1>2, <2>1, VsdAssumption, ValueSetIsWide
<1>5. CASE v = "bad"
  <2>1. QueryVar(e, v) = TopVs
    BY <1>5, VsdAssumption DEF QueryVar
  <2>2. QED
    BY <1>2, <2>1, VsdAssumption, ValueSetIsWide
<1>6. CASE v \in Var
  <2>1. QueryVar(e, v) = Lookup(e, v)
    BY <1>6, VsdAssumption DEF QueryVar
  <2>2. QED
    BY <2>1, LookupIs, VsdAssumption, ValueSetIsWide
<1>7. QED
  BY <1>3, <1>4, <1>5, <1>6 DEF Ids

LEMMA QueryVarOfVar ==
  ASSUME NEW e, NEW v \in Var PROVE QueryVar(e, v) = Lookup(e, v)
BY VsdAssumption DEF QueryVar

\* What a linear expression is evaluated to, term by term from the end.
LEMMA QueryLinIs ==
  ASSUME NEW e, IsState(e), NEW lin, IsWideLin(lin, Ids)
  PROVE  \E G : /\ QueryLin(e, lin) = G[1] /\ G[Len(lin.terms) + 1] = lin.vs
                /\ \A i \in 1 .. Len(lin.terms) :
                     G[i] = AddVs(MulVs(Single(lin.terms[i].scale), QueryVar(e, lin.terms[i].var)), G[i + 1])
                /\ \A i \in 1 .. Len(lin.terms) + 1 : IsWide(G[i])
<1> DEFINE ts == lin.terms
           c == lin.vs
           S == DOMAIN ts
           n == Len(ts)
           pick == [s \in SUBSET S |-> Min(s)]
           step(i, w) == AddVs(MulVs(Single(ts[i].scale), QueryVar(e, ts[i].var)), w)
           Op == [z \in S \X Wides |-> step(z[1], z[2])]
           Body(F, s) == IF s = {} THEN c ELSE step(Sq!Min(s), F[s \ {Sq!Min(s)}])
           iter == CHOOSE F : F = [s \in SUBSET S |-> Body(F, s)]
<1>1. QueryLin(e, lin) = iter[S]
  BY Zenon DEF QueryLin, Sq!FoldRight, Sq!MapThenFoldSet
<1>2. n \in Nat /\ S = 1 .. n /\ c \in Wides
  BY TermsIs, WidesAre DEF IsWideLin
<1>3. \A i \in S : ts[i].scale \in Int /\ ts[i].var \in Ids
  BY TermsIs
<1> HIDE DEF ts, c, n
<1>4. IsFiniteSet(S) /\ Picks(pick, S)
  <2>1. S \in SUBSET Nat
    BY <1>2
  <2>2. IsFiniteSet(1 .. n)
    BY <1>2, FS_Interval
  <2>3. IsFiniteSet(S)
    BY <1>2, <2>2
  <2> HIDE DEF S
  <2>4. QED
    BY <2>1, <2>3, MinPicks
<1>5. ASSUME NEW i \in S, NEW w \in Wides PROVE step(i, w) \in Wides
  <2>1. IsWide(Single(ts[i].scale)) /\ IsWide(QueryVar(e, ts[i].var)) /\ IsWide(w)
    BY <1>3, SingleIsWide, QueryVarIs, WidesAre
  <2>2. IsWide(MulVs(Single(ts[i].scale), QueryVar(e, ts[i].var)))
    BY <2>1, MulWide
  <2>3. IsWide(step(i, w))
    BY <2>1, <2>2, AddWide
  <2> HIDE DEF step
  <2>4. QED
    BY <2>3, WidesAre
<1>6. \A i \in S, w \in Wides : Op[<<i, w>>] = step(i, w)
  <2> HIDE DEF step, S
  <2> QED OBVIOUS
<1>7. PICK F : IsFold(F, S, pick, c, Op) /\ \A s \in SUBSET S : F[s] \in Wides
  <2>1. \A i \in S, w \in Wides : Op[<<i, w>>] \in Wides
    BY <1>5, <1>6
  <2> HIDE DEF pick, Op, S
  <2>2. QED
    BY <1>2, <1>4, <2>1, FoldIn
<1>8. F = [s \in SUBSET S |-> Body(F, s)]
  <2>1. F = [s \in SUBSET S |-> IF s = {} THEN c ELSE Op[<<pick[s], F[s \ {pick[s]}]>>]]
    BY <1>7 DEF IsFold
  <2>2. ASSUME NEW s \in SUBSET S, s # {} PROVE Op[<<pick[s], F[s \ {pick[s]}]>>] = Body(F, s)
    <3>1. pick[s] = (Sq!Min(s)) /\ pick[s] \in S
      BY <1>4, <2>2, SqPicks DEF Picks
    <3>2. F[s \ {pick[s]}] \in Wides
      BY <1>7
    <3> HIDE DEF Op, pick, step, S
    <3>3. QED
      BY <1>6, <2>2, <3>1, <3>2
  <2> HIDE DEF Op, pick, step, S
  <2>3. QED
    BY <2>1, <2>2
<1>9. iter = [s \in SUBSET S |-> Body(iter, s)]
  <2> DEFINE Eq(X) == X = [s \in SUBSET S |-> Body(X, s)]
  <2>1. Eq(F)
    BY <1>8, Zenon
  <2>2. iter = CHOOSE X : Eq(X)
    BY Zenon
  <2> HIDE DEF Eq, iter
  <2>3. Eq(iter)
    BY <2>1, <2>2, Zenon
  <2>4. QED
    BY <2>3, Zenon DEF Eq
<1> HIDE DEF iter
<1>10. /\ iter[{}] = c
       /\ \A s \in (SUBSET S) \ {{}} : iter[s] = step(pick[s], iter[s \ {pick[s]}])
  <2>1. \A s \in (SUBSET S) \ {{}} : pick[s] = (Sq!Min(s))
    BY SqPicks
  <2> HIDE DEF step, pick
  <2>2. QED
    BY <1>9, <2>1
<1>11. \A s \in SUBSET S : iter[s] \in Wides
  <2> DEFINE Fam == [s \in SUBSET S |-> Wides]
  <2>1. ASSUME NEW s \in (SUBSET S) \ {{}}, iter[s \ {pick[s]}] \in Fam[s \ {pick[s]}]
        PROVE  iter[s] \in Fam[s]
    <3>1. pick[s] \in S
      BY <1>4 DEF Picks
    <3>2. iter[s \ {pick[s]}] \in Wides
      BY <2>1
    <3> HIDE DEF pick, step, S
    <3>3. QED
      BY <1>5, <1>10, <3>1, <3>2
  <2>2. iter[{}] \in Fam[{}]
    BY <1>2, <1>10
  <2>3. \A s \in SUBSET S : iter[s] \in Fam[s]
    <3> HIDE DEF Fam, pick, step, S
    <3>1. QED
      BY <1>4, <2>1, <2>2, FoldStays
  <2>4. QED
    BY <2>3
<1>12. PICK G : /\ G[1] = iter[1 .. n] /\ G[n + 1] = c
                /\ \A i \in 1 .. n : G[i] = Op[<<i, G[i + 1]>>]
                /\ \A i \in 1 .. n + 1 : G[i] = iter[i .. n]
  <2>1. ASSUME NEW s \in (SUBSET (1 .. n)) \ {{}} PROVE iter[s] = Op[<<Min(s), iter[s \ {Min(s)}]>>]
    <3>1. pick[s] = Min(s) /\ pick[s] \in S
      BY <1>2, <1>4 DEF Picks
    <3>2. iter[s \ {Min(s)}] \in Wides
      BY <1>2, <1>11
    <3> HIDE DEF pick, Op, step, S
    <3>3. QED
      BY <1>2, <1>6, <1>10, <3>1, <3>2
  <2>2. iter[{}] = c /\ n \in Nat
    BY <1>2, <1>10
  <2> HIDE DEF Op, S, step, pick
  <2>3. IsLeastFold(iter, n, c, Op)
    BY <2>1, <2>2, Zenon DEF IsLeastFold
  <2>4. QED
    BY <2>2, <2>3, Suffixes
<1>13. \A i \in 1 .. n + 1 : G[i] \in Wides
  <2>1. ASSUME NEW i \in 1 .. n + 1 PROVE i .. n \in SUBSET S
    BY <1>2
  <2>2. QED
    BY <1>11, <1>12, <2>1
<1>14. \A i \in 1 .. n : G[i] = step(i, G[i + 1])
  <2>1. ASSUME NEW i \in 1 .. n PROVE i \in S /\ i + 1 \in 1 .. n + 1
    BY <1>2
  <2> HIDE DEF Op, S, step
  <2>2. QED
    BY <1>6, <1>12, <1>13, <2>1
<1>15. \A i \in 1 .. n + 1 : IsWide(G[i])
  BY <1>13, WidesAre
<1>16. QueryLin(e, lin) = G[1]
  BY <1>1, <1>2, <1>12
<1>17. QED
  BY <1>12, <1>14, <1>15, <1>16 DEF ts, c, n

-----------------------------------------------------------------------------
(* Value sets of whatever expression *)

IsShaped(v) == v = TopVs \/ (\E S : v = FiniteVs(S)) \/ \E dir, k : v = OpenVs(dir, k)

LEMMA WideIsShaped == ASSUME NEW v, IsWide(v) PROVE IsShaped(v)
BY Kinds DEF IsShaped

LEMMA DivShaped ==
  ASSUME NEW a, NEW b, IsWide(a), IsWide(b)
  PROVE  IsShaped(DivVs(a, b))
<1>1. IsShaped(TopVs) /\ IsShaped(BottomVs) /\ (\A S : IsShaped(FiniteVs(S))) /\ \A d, k : IsShaped(OpenVs(d, k))
  BY DEF IsShaped, BottomVs
<1>2. CASE a = TopVs
  BY <1>1, <1>2 DEF DivVs, TopVs
<1>3. ASSUME NEW S, a = FiniteVs(S) PROVE IsShaped(DivVs(a, b))
  <2>1. CASE \E T : b = FiniteVs(T)
    BY <1>1, <1>3, <2>1 DEF DivVs, FiniteVs
  <2>2. CASE b = TopVs \/ \E d, k : b = OpenVs(d, k)
    <3>1. DivVs(a, b) = DivFiniteByMany(S, b)
      BY <1>3, <2>2 DEF DivVs, FiniteVs, TopVs, OpenVs
    <3>2. IsShaped(DivFiniteByMany(S, b))
      BY <1>1, Zenon DEF DivFiniteByMany
    <3>3. QED
      BY <3>1, <3>2
  <2>3. QED
    BY <2>1, <2>2, Kinds
<1>4. ASSUME NEW d, NEW k, a = OpenVs(d, k) PROVE IsShaped(DivVs(a, b))
  <2>1. CASE b = TopVs
    BY <1>1, <1>4, <2>1 DEF DivVs, OpenVs, TopVs
  <2>2. ASSUME NEW T, b = FiniteVs(T) PROVE IsShaped(DivVs(a, b))
    <3>1. DivVs(a, b) = DivOpenByFinite(a, T)
      BY <1>4, <2>2 DEF DivVs, OpenVs, FiniteVs
    <3>2. IsShaped(DivOpenByFinite(a, T))
      BY <1>1, Zenon DEF DivOpenByFinite
    <3>3. QED
      BY <3>1, <3>2
  <2>3. CASE \E e, l : b = OpenVs(e, l)
    <3>1. DivVs(a, b) = DivOpenByOpen(a, b)
      BY <1>4, <2>3 DEF DivVs, OpenVs
    <3>2. IsShaped(NegVs(a)) /\ IsShaped(a)
      BY <1>1, <1>4 DEF NegVs, OpenVs
    <3>3. IsShaped(DivOpenByOpen(a, b))
      BY <1>1, <3>2, Zenon DEF DivOpenByOpen
    <3>4. QED
      BY <3>1, <3>3
  <2>4. QED
    BY <2>1, <2>2, <2>3, Kinds
<1>5. QED
  BY <1>2, <1>3, <1>4, Kinds

LEMMA CompareIs ==
  ASSUME NEW a, IsWide(a), NEW op \in CmpOps
  PROVE  CompareVs(a, op) \in {TrueVs, FalseVs, BottomVs, TrueFalseVs}
<1>1. a.kind \in {"finite", "open", "top"}
  BY Kinds DEF TopVs, FiniteVs, OpenVs
<1>2. AtMost(a, 0) \in {TrueVs, FalseVs, BottomVs, TrueFalseVs}
  BY <1>1 DEF AtMost
<1>3. Below(a, 0) \in {TrueVs, FalseVs, BottomVs, TrueFalseVs}
  BY <1>1 DEF Below
<1>4. EqualTo(a, 0) \in {TrueVs, FalseVs, BottomVs, TrueFalseVs}
  BY <1>1 DEF EqualTo
<1>5. \A v : NotVs(v) \in {TrueVs, FalseVs, TrueFalseVs}
  BY DEF NotVs
<1>6. QED
  BY <1>2, <1>3, <1>4, <1>5 DEF CompareVs, CmpOps

LEMMA CompareWide ==
  ASSUME NEW a, IsWide(a), NEW op \in CmpOps
  PROVE  IsWide(CompareVs(a, op))
<1>1. {0, 1} = 0 .. 1 /\ 0 \in Int /\ 1 \in Int
  OBVIOUS
<1>2. {0, 1} \in Bounded
  BY <1>1, SmallBounded
<1>3. IsWide(TrueVs) /\ IsWide(FalseVs) /\ IsWide(BottomVs) /\ IsWide(TrueFalseVs)
  BY <1>1, <1>2, SingleIsWide, BottomIsWide, FiniteIsWide DEF TrueVs, FalseVs, TrueFalseVs
<1>4. QED
  BY <1>3, CompareIs

LEMMA LinShaped ==
  ASSUME NEW e, IsState(e), NEW lin, IsLin(lin, Ids)
  PROVE  IsWide(QueryLin(e, lin)) /\ IsShaped(QueryLin(e, lin))
<1>1. IsWideLin(lin, Ids)
  BY LinIsWide
<1>2. Len(lin.terms) \in Nat
  BY <1>1, TermsIs
<1>3. 1 \in 1 .. Len(lin.terms) + 1
  BY <1>2
<1>4. QED
  BY <1>1, <1>3, QueryLinIs, WideIsShaped

LEMMA ExprShaped ==
  ASSUME NEW e, IsState(e), NEW exp \in Exprs
  PROVE  IsShaped(InnerVs(e, exp)) /\ IsShaped(QueryExpr(e, exp))
<1>1. IsExp(exp)
  BY VsdAssumption
<1>2. IsShaped(InnerVs(e, exp))
  <2>1. CASE exp.kind = "cmp" /\ IsLin(exp.opnd, Ids) /\ exp.op \in CmpOps
    BY <2>1, LinShaped, CompareWide, WideIsShaped DEF InnerVs
  <2>2. CASE exp.kind = "lin" /\ IsLin(exp.inner, Ids)
    BY <2>2, LinShaped DEF InnerVs
  <2>3. CASE exp.kind = "bin" /\ IsLin(exp.opnd1, Ids) /\ IsLin(exp.opnd2, Ids) /\ exp.op \in BinOps
    <3>1. IsWide(QueryLin(e, exp.opnd1)) /\ IsWide(QueryLin(e, exp.opnd2))
      BY <2>3, LinShaped
    <3>2. /\ IsShaped(MulVs(QueryLin(e, exp.opnd1), QueryLin(e, exp.opnd2)))
          /\ IsShaped(DivVs(QueryLin(e, exp.opnd1), QueryLin(e, exp.opnd2)))
      BY <3>1, MulWide, WideIsShaped, DivShaped
    <3>3. IsShaped(Single(0)) /\ IsShaped(TopVs)
      BY DEF IsShaped, Single
    <3>4. IsShaped(BinaryVs(e, exp))
      BY <2>3, <3>2, <3>3 DEF BinaryVs, BinOps
    <3>5. QED
      BY <2>3, <3>4 DEF InnerVs
  <2>4. QED
    BY <1>1, <2>1, <2>2, <2>3 DEF IsExp
<1>3. IsShaped(WithSignSize(InnerVs(e, exp), exp.unsigned, exp.size))
  <2> DEFINE v == InnerVs(e, exp)
  <2>1. IsShaped(v)
    BY <1>2
  <2> HIDE DEF v
  <2>2. IsShaped(WithSignSize(v, exp.unsigned, exp.size))
    <3>1. CASE v = TopVs
      BY <3>1 DEF WithSignSize, IsShaped, TopVs
    <3>2. ASSUME NEW S, v = FiniteVs(S) PROVE IsShaped(WithSignSize(v, exp.unsigned, exp.size))
      BY <3>2, Zenon DEF WithSignSize, IsShaped, FiniteVs
    <3>3. ASSUME NEW d, NEW k, v = OpenVs(d, k) PROVE IsShaped(WithSignSize(v, exp.unsigned, exp.size))
      <4>1. WithSignSize(v, exp.unsigned, exp.size) = OpenVs(d, Wrapped(k, TRUE, exp.size))
        BY <3>3 DEF WithSignSize, OpenVs
      <4>2. QED
        BY <4>1, Zenon DEF IsShaped
    <3>4. QED
      BY <2>1, <3>1, <3>2, <3>3 DEF IsShaped
  <2>3. QED
    BY <2>2 DEF v
<1>4. QED
  BY <1>2, <1>3 DEF QueryExpr

LEMMA JoinNotEmpty ==
  ASSUME NEW a, IsWide(a), a # BottomVs, NEW b, IsShaped(b)
  PROVE  JoinVs(a, b) # BottomVs
<1>1. \A d, k : OpenVs(d, k) # BottomVs /\ OpenVs(d, k).kind = "open"
  BY DEF OpenVs, BottomVs, FiniteVs
<1>2. CASE a = TopVs \/ b = TopVs
  BY <1>2 DEF JoinVs, TopVs, BottomVs, FiniteVs
<1>3. ASSUME NEW S, NEW T, a = FiniteVs(S), b = FiniteVs(T) PROVE JoinVs(a, b) # BottomVs
  <2>1. JoinVs(a, b) = FiniteVs(S \cup T) /\ S # {}
    BY <1>3 DEF JoinVs, FiniteVs, BottomVs
  <2>2. QED
    BY <2>1 DEF FiniteVs, BottomVs
<1>4. ASSUME NEW S, NEW d, NEW k, \/ a = FiniteVs(S) /\ b = OpenVs(d, k)
                                  \/ b = FiniteVs(S) /\ a = OpenVs(d, k)
      PROVE  JoinVs(a, b) # BottomVs
  <2>1. JoinVs(a, b) = JoinFiniteOpen(S, OpenVs(d, k))
    BY <1>4 DEF JoinVs, FiniteVs, OpenVs
  <2>2. QED
    BY <1>1, <2>1 DEF JoinFiniteOpen
<1>5. ASSUME NEW d, NEW k, NEW e, NEW l, a = OpenVs(d, k), b = OpenVs(e, l)
      PROVE  JoinVs(a, b) # BottomVs
  BY <1>1, <1>5 DEF JoinVs, TopVs, OpenVs, FiniteVs, BottomVs
<1>6. QED
  BY <1>2, <1>3, <1>4, <1>5, WideIsShaped DEF IsShaped

-----------------------------------------------------------------------------
(* The types *)

LEMMA SetIsState ==
  ASSUME NEW e, IsState(e), NEW v \in Var, NEW vs, vs # BottomVs, Representable(Set(e, v, vs))
  PROVE  IsState(Set(e, v, vs))
<1>1. v \in DOMAIN Set(e, v, vs).elements /\ Set(e, v, vs).elements[v] = vs
  BY SetIs
<1>2. IsValueSet(vs)
  BY <1>1 DEF Representable
<1>3. QED
  BY <1>2, SetIs

LEMMA BottomSet ==
  ASSUME NEW e, IsState(e)
  PROVE  IsState([e EXCEPT !.bottom = TRUE]) /\ [e EXCEPT !.bottom = TRUE].bottom
<1>1. [e EXCEPT !.bottom = TRUE] = [bottom |-> TRUE, elements |-> e.elements]
  <2>1. ASSUME NEW b, NEW f, e = [bottom |-> b, elements |-> f]
        PROVE  \A t : [e EXCEPT !.bottom = t] = [bottom |-> t, elements |-> f]
    BY <2>1
  <2>2. e = [bottom |-> e.bottom, elements |-> e.elements]
    BY StateIs
  <2>3. \A t : [e EXCEPT !.bottom = t] = [bottom |-> t, elements |-> e.elements]
    BY <2>1, <2>2
  <2>4. QED
    BY <2>3
<1>2. IsState([bottom |-> TRUE, elements |-> e.elements])
  BY StateIs, StateMade
<1>3. QED
  BY <1>1, <1>2

LEMMA ValuationsIs ==
  ASSUME NEW w \in Valuations, NEW f, DOMAIN f = Var, f = [v \in Var |-> f[v]],
         f # Dead => \A x \in Var : f[x] \in Ints
  PROVE  f \in Valuations \cup {Dead}
BY DEF Valuations

LEMMA CoveredIs ==
  ASSUME NEW e, NEW w \in CoveredBy(e)
  PROVE  w \in Valuations \cup {Dead} /\ Covers(e, w)
BY DEF CoveredBy, Covers

LEMMA EquationsIs ==
  ASSUME NEW cmp \in Cmps
  PROVE  /\ IsLin(cmp.opnd, Var) /\ cmp.op \in CmpOps
         /\ Len(cmp.opnd.terms) \in Nat /\ DOMAIN cmp.opnd.terms = 1 .. Len(cmp.opnd.terms)
         /\ \A i \in DOMAIN cmp.opnd.terms : cmp.opnd.terms[i].var \in Var
         /\ Equations(cmp)[1].terms = cmp.opnd.terms
<1>1. IsLin(cmp.opnd, Var) /\ cmp.op \in CmpOps
  BY VsdAssumption
<1>2. IsWideLin(cmp.opnd, Var)
  BY <1>1, LinIsWide
<1>3. \A vs : AddToLin(cmp.opnd, vs).terms = cmp.opnd.terms
  BY <1>1 DEF IsLin, AddToLin
<1>4. Equations(cmp)[1].terms = cmp.opnd.terms
  BY <1>1, <1>3 DEF Equations, CmpOps
<1>5. QED
  BY <1>1, <1>2, <1>4, TermsIs

IsLoop(a, cmp) ==
  /\ a = [lins |-> a.lins, i |-> a.i, change |-> a.change, passes |-> a.passes, refined |-> a.refined]
  /\ a.lins = Equations(cmp) /\ a.i \in 1 .. Len(cmp.opnd.terms) + 1
  /\ DOMAIN a.refined = DOMAIN cmp.opnd.terms

VsdTypes ==
  /\ IsState(env)
  /\ valuation \in Valuations \cup {Dead}
  /\ Idle \/ \E cmp \in Cmps : IsLoop(assuming, cmp)

LEMMA VsdInitTyped == VsdInit => VsdTypes
BY TopIsState DEF VsdInit, VsdTypes, Idle

\* The steps outside of assume.
Outside ==
  \/ \E lhs \in Var, exp \in Exprs : Assign(lhs, exp) \/ WeakAssign(lhs, exp)
  \/ \E v \in Var : Kill(v) \/ Cleanup(v)
  \/ \E ids \in SUBSET Var : Project(ids)
  \/ \E a, b \in Var : EquateKill(a, b)
  \/ \E other \in Others :
       \/ JoinOther(other) \/ BoxOther(other)
       \/ \E to, from \in Var : CopyPaste(to, from, other)

LEMMA OutsideTyped ==
  ASSUME VsdTypes, Outside
  PROVE  IsState(env)' /\ valuation' \in Valuations \cup {Dead} /\ UNCHANGED assuming
<1>1. IsState(env) /\ valuation \in Valuations \cup {Dead}
  BY DEF VsdTypes
<1>2. Alive => valuation \in Valuations
  BY <1>1 DEF Alive
\* a valuation with other numbers for some variables
<1>3. ASSUME NEW w \in Valuations, NEW v \in Var, NEW x, NEW e,
             Continue(e, [w EXCEPT ![v] = x])
      PROVE  valuation' \in Valuations \cup {Dead}
  <2> DEFINE f == [w EXCEPT ![v] = x]
  <2>1. DOMAIN f = Var /\ f = [z \in Var |-> f[z]]
    BY DEF Valuations
  <2>2. valuation' = f /\ (f # Dead => \A z \in Var : f[z] \in Ints)
    BY <1>3 DEF Continue
  <2> HIDE DEF f
  <2>3. QED
    BY <2>1, <2>2, ValuationsIs
<1>4. ASSUME NEW e, Continue(e, Dead)
      PROVE  valuation' \in Valuations \cup {Dead}
  BY <1>4 DEF Continue
<1>5. \A other \in Others : IsState(other)
  BY VsdAssumption
<1>6. ASSUME NEW lhs \in Var, NEW exp \in Exprs, Assign(lhs, exp)
      PROVE  IsState(env)' /\ valuation' \in Valuations \cup {Dead} /\ UNCHANGED assuming
  <2> DEFINE er == QueryExpr(env, exp)
             e == IF er = BottomVs THEN Bottom ELSE IF env.bottom THEN env ELSE Set(env, lhs, er)
  <2>1. UNCHANGED assuming
    BY <1>6 DEF Assign
  <2>2. \/ Alive /\ \E x \in ExprValues(exp) : Continue(e, [valuation EXCEPT ![lhs] = x])
        \/ ~Alive /\ Continue(e, Dead)
    BY <1>6 DEF Assign
  <2>3. env' = e /\ Representable(e)
    <3> HIDE DEF e
    <3> QED BY <2>2 DEF Continue
  <2>4. IsState(e)
    <3> HIDE DEF er
    <3>1. QED
      BY <1>1, <2>3, TopIsState, SetIsState
  <2>5. valuation' \in Valuations \cup {Dead}
    <3> HIDE DEF e
    <3> QED BY <1>2, <1>3, <1>4, <2>2
  <2> HIDE DEF e
  <2>6. QED
    BY <2>1, <2>3, <2>4, <2>5
<1>7. ASSUME NEW lhs \in Var, NEW exp \in Exprs, WeakAssign(lhs, exp)
      PROVE  IsState(env)' /\ valuation' \in Valuations \cup {Dead} /\ UNCHANGED assuming
  <2> DEFINE er == QueryExpr(env, exp)
             e == IF env.bottom \/ er = BottomVs THEN [env EXCEPT !.bottom = TRUE]
                  ELSE Set(env, lhs, JoinVs(QueryVar(env, lhs), er))
  <2>1. UNCHANGED assuming
    BY <1>7 DEF WeakAssign
  <2>2. \/ Alive /\ \E x \in {valuation[lhs]} \cup ExprValues(exp) : Continue(e, [valuation EXCEPT ![lhs] = x])
        \/ ~Alive /\ Continue(e, Dead)
    BY <1>7 DEF WeakAssign
  <2>3. env' = e /\ Representable(e)
    <3> HIDE DEF e
    <3> QED BY <2>2 DEF Continue
  <2>4. JoinVs(QueryVar(env, lhs), er) # BottomVs
    <3>1. lhs \in Ids
      BY DEF Ids
    <3>2. IsWide(QueryVar(env, lhs)) /\ QueryVar(env, lhs) # BottomVs
      BY <1>1, <3>1, QueryVarIs
    <3>3. IsShaped(er)
      BY <1>1, ExprShaped
    <3> HIDE DEF er
    <3>4. QED
      BY <3>2, <3>3, JoinNotEmpty
  <2>5. IsState(e)
    <3> HIDE DEF er
    <3>1. CASE env.bottom \/ er = BottomVs
      BY <1>1, <3>1, BottomSet
    <3>2. CASE ~(env.bottom \/ er = BottomVs)
      BY <1>1, <2>3, <2>4, <3>2, SetIsState
    <3>3. QED
      BY <3>1, <3>2
  <2>6. valuation' \in Valuations \cup {Dead}
    <3> HIDE DEF e
    <3> QED BY <1>2, <1>3, <1>4, <2>2
  <2> HIDE DEF e
  <2>7. QED
    BY <2>1, <2>3, <2>5, <2>6
<1>8. ASSUME NEW v \in Var, Kill(v)
      PROVE  IsState(env)' /\ valuation' \in Valuations \cup {Dead} /\ UNCHANGED assuming
  <2>1. UNCHANGED assuming
    BY <1>8 DEF Kill
  <2>2. \/ Alive /\ \E x \in Ints : Continue(Without(env, {v}), [valuation EXCEPT ![v] = x])
        \/ ~Alive /\ Continue(Without(env, {v}), Dead)
    BY <1>8 DEF Kill
  <2>3. env' = Without(env, {v})
    BY <2>2 DEF Continue
  <2>4. valuation' \in Valuations \cup {Dead}
    BY <1>2, <1>3, <1>4, <2>2
  <2>5. QED
    BY <1>1, <2>1, <2>3, <2>4, WithoutIs
<1>9. ASSUME NEW v \in Var, Cleanup(v)
      PROVE  IsState(env)' /\ valuation' \in Valuations \cup {Dead} /\ UNCHANGED assuming
  <2>1. UNCHANGED <<valuation, assuming>> /\ env' \in {Without(env, {v}), env}
    BY <1>9 DEF Cleanup
  <2>2. QED
    BY <1>1, <2>1, WithoutIs
<1>10. ASSUME NEW ids \in SUBSET Var, Project(ids)
       PROVE  IsState(env)' /\ valuation' \in Valuations \cup {Dead} /\ UNCHANGED assuming
  <2>1. UNCHANGED <<valuation, assuming>> /\ env' = Without(env, Var \ ids)
    BY <1>10 DEF Project
  <2>2. QED
    BY <1>1, <2>1, WithoutIs
<1>11. ASSUME NEW a \in Var, NEW b \in Var, EquateKill(a, b)
       PROVE  IsState(env)' /\ valuation' \in Valuations \cup {Dead} /\ UNCHANGED assuming
  <2> DEFINE e == IF b \in DOMAIN env.elements
                  THEN Without(Set(env, a, env.elements[b]), {b}) ELSE env
  <2>1. UNCHANGED assuming
    BY <1>11 DEF EquateKill
  <2>2. \/ Alive /\ \E x \in Ints : Continue(e, [valuation EXCEPT ![a] = valuation[b], ![b] = x])
        \/ ~Alive /\ Continue(e, Dead)
    BY <1>11 DEF EquateKill
  <2>3. env' = e
    <3> HIDE DEF e
    <3> QED BY <2>2 DEF Continue
  <2>4. IsState(e)
    <3>1. ASSUME b \in DOMAIN env.elements PROVE IsState(Set(env, a, env.elements[b]))
      <4> DEFINE vs == env.elements[b]
      <4>1. IsValueSet(vs) /\ vs # BottomVs
        BY <1>1, <3>1, StateIs
      <4> HIDE DEF vs
      <4>2. IsState(Set(env, a, vs))
        BY <1>1, <4>1, SetIs
      <4>3. QED
        BY <4>2 DEF vs
    <3>2. QED
      BY <1>1, <3>1, WithoutIs
  <2>5. ASSUME Alive, NEW x, Continue(e, [valuation EXCEPT ![a] = valuation[b], ![b] = x])
        PROVE  valuation' \in Valuations \cup {Dead}
    <3> DEFINE w == [valuation EXCEPT ![a] = valuation[b]]
    <3>1. w \in Valuations
      BY <1>2, <2>5 DEF Valuations
    <3>2. [valuation EXCEPT ![a] = valuation[b], ![b] = x] = [w EXCEPT ![b] = x]
      OBVIOUS
    <3> HIDE DEF w, e
    <3>3. QED
      BY <1>3, <2>5, <3>1, <3>2
  <2>6. valuation' \in Valuations \cup {Dead}
    <3> HIDE DEF e
    <3> QED BY <1>4, <2>2, <2>5
  <2> HIDE DEF e
  <2>7. QED
    BY <2>1, <2>3, <2>4, <2>6
<1>12. ASSUME NEW other \in Others, JoinOther(other)
       PROVE  IsState(env)' /\ valuation' \in Valuations \cup {Dead} /\ UNCHANGED assuming
  <2>1. PICK v \in {valuation} \cup CoveredBy(other) : Continue(Joined(env, other), v)
    BY <1>12 DEF JoinOther
  <2>2. UNCHANGED assuming
    BY <1>12 DEF JoinOther
  <2>3. QED
    BY <1>1, <1>5, <2>1, <2>2, JoinedIs, CoveredIs DEF Continue
<1>13. ASSUME NEW other \in Others, BoxOther(other)
       PROVE  IsState(env)' /\ valuation' \in Valuations \cup {Dead} /\ UNCHANGED assuming
  <2>1. PICK v \in CoveredBy(other) : Continue(Boxed(env, other), v)
    BY <1>13 DEF BoxOther
  <2>2. UNCHANGED assuming
    BY <1>13 DEF BoxOther
  <2>3. QED
    BY <1>1, <1>5, <2>1, <2>2, BoxedIs, CoveredIs DEF Continue
<1>14. ASSUME NEW other \in Others, NEW to \in Var, NEW from \in Var, CopyPaste(to, from, other)
       PROVE  IsState(env)' /\ valuation' \in Valuations \cup {Dead} /\ UNCHANGED assuming
  <2> DEFINE e == IF from \in DOMAIN other.elements THEN Set(env, to, other.elements[from]) ELSE env
  <2>1. UNCHANGED assuming
    BY <1>14 DEF CopyPaste
  <2>2. \/ Alive /\ \E v \in CoveredBy(other) \ {Dead} : Continue(e, [valuation EXCEPT ![to] = v[from]])
        \/ ~Alive /\ Continue(e, Dead)
    BY <1>14 DEF CopyPaste
  <2>3. env' = e
    <3> HIDE DEF e
    <3> QED BY <2>2 DEF Continue
  <2>4. IsState(e)
    <3> DEFINE vs == other.elements[from]
    <3>1. from \in DOMAIN other.elements => IsValueSet(vs) /\ vs # BottomVs
      BY <1>5, StateIs
    <3> HIDE DEF vs
    <3>2. from \in DOMAIN other.elements => IsState(Set(env, to, vs))
      BY <1>1, <3>1, SetIs
    <3>3. QED
      BY <1>1, <3>2 DEF vs
  <2>5. valuation' \in Valuations \cup {Dead}
    <3> HIDE DEF e
    <3> QED BY <1>2, <1>3, <1>4, <2>2
  <2> HIDE DEF e
  <2>6. QED
    BY <2>1, <2>3, <2>4, <2>5
<1>15. QED
  BY <1>6, <1>7, <1>8, <1>9, <1>10, <1>11, <1>12, <1>13, <1>14 DEF Outside

\* The loop of assume goes on with the condition it began with.
LEMMA LoopGoesOn ==
  ASSUME NEW cmp \in Cmps, IsLoop(assuming, cmp)
  PROVE  /\ Refine => IsLoop(assuming', cmp) /\ assuming.i \in 1 .. Len(cmp.opnd.terms)
         /\ EndPass => assuming' = None \/ IsLoop(assuming', cmp)
<1> DEFINE a == assuming
           n == Len(cmp.opnd.terms)
<1>1. a = [lins |-> a.lins, i |-> a.i, change |-> a.change, passes |-> a.passes, refined |-> a.refined]
  BY DEF IsLoop
<1>2. a.lins = Equations(cmp) /\ DOMAIN a.refined = DOMAIN cmp.opnd.terms
  BY DEF IsLoop
<1>3. n \in Nat /\ DOMAIN cmp.opnd.terms = 1 .. n
  BY EquationsIs
<1>4. ASSUME Refine PROVE IsLoop(assuming', cmp) /\ a.i \in 1 .. n
  <2> DEFINE i == assuming.i
             r == Refined(env, assuming.lins, assuming.i)
             changed == ~Leq(assuming.refined[i], r)
  <2>1. assuming' = [assuming EXCEPT !.i = @ + 1, !.change = @ \/ changed,
                                     !.refined[i] = IF changed THEN r ELSE @]
    BY <1>4, Zenon DEF Refine
  <2>2. i \in 1 .. n
    BY <1>2, <1>3, <1>4 DEF Refine
  <2> DEFINE c == a.change \/ changed
             f == [a.refined EXCEPT ![i] = IF changed THEN r ELSE @]
  <2> HIDE DEF r, changed
  <2>3. assuming' = [lins |-> a.lins, i |-> a.i + 1, change |-> c, passes |-> a.passes, refined |-> f]
    BY <1>1, <2>1
  <2>4. DOMAIN f = DOMAIN a.refined
    OBVIOUS
  <2>5. a.i + 1 \in 1 .. n + 1
    BY <1>3, <2>2
  <2> HIDE DEF c, f, a, i
  <2>6. QED
    BY <1>2, <2>2, <2>3, <2>4, <2>5 DEF IsLoop, a, i
<1>5. ASSUME EndPass, assuming.change PROVE IsLoop(assuming', cmp)
  <2>1. assuming' = [a EXCEPT !.i = 1, !.change = FALSE, !.passes = @ + 1]
    BY <1>5 DEF EndPass
  <2>2. assuming' = [lins |-> a.lins, i |-> 1, change |-> FALSE, passes |-> a.passes + 1, refined |-> a.refined]
    BY <1>1, <2>1
  <2>3. 1 \in 1 .. n + 1
    BY <1>3
  <2> HIDE DEF a
  <2>4. QED
    BY <1>2, <2>2, <2>3 DEF IsLoop
<1>6. EndPass /\ ~assuming.change => assuming' = None
  BY DEF EndPass
<1>7. QED
  BY <1>4, <1>5, <1>6

LEMMA VsdNextTyped ==
  ASSUME VsdTypes, [VsdNext]_vsd_vars
  PROVE  VsdTypes'
<1>1. IsState(env) /\ valuation \in Valuations \cup {Dead} /\ (Idle \/ \E cmp \in Cmps : IsLoop(assuming, cmp))
  BY DEF VsdTypes
<1>2. CASE Outside
  <2>1. IsState(env)' /\ valuation' \in Valuations \cup {Dead} /\ UNCHANGED assuming
    BY <1>2, OutsideTyped
  <2>2. QED
    BY <1>1, <2>1 DEF VsdTypes, Idle
<1>3. ASSUME NEW cmp \in Cmps, Assume(cmp) PROVE VsdTypes'
  <2>1. env' = env /\ valuation' \in {valuation, Dead}
    BY <1>3 DEF Assume
  <2>2. IsLoop(assuming', cmp)
    <3>1. assuming' = [lins |-> Equations(cmp), i |-> 1, change |-> FALSE, passes |-> 0,
                       refined |-> [i \in DOMAIN cmp.opnd.terms |-> TopVs]]
      BY <1>3 DEF Assume
    <3>2. 1 \in 1 .. Len(cmp.opnd.terms) + 1
      BY EquationsIs
    <3> HIDE DEF Equations
    <3>3. QED
      BY <3>1, <3>2 DEF IsLoop
  <2>3. QED
    BY <1>1, <2>1, <2>2 DEF VsdTypes
<1>4. CASE Refine
  <2>1. PICK cmp \in Cmps : IsLoop(assuming, cmp)
    BY <1>1, <1>4 DEF Refine
  <2> DEFINE i == assuming.i
  <2>2. assuming.lins[1].terms[i].var \in Var
    BY <1>4, <2>1, LoopGoesOn, EquationsIs DEF IsLoop
  <2> DEFINE r == Refined(env, assuming.lins, assuming.i)
             changed == ~Leq(assuming.refined[i], r)
  <2>3. Continue(IF ~changed THEN env
                 ELSE IF r = BottomVs THEN Bottom
                 ELSE IF env.bottom THEN env
                 ELSE Set(env, assuming.lins[1].terms[i].var, r), valuation)
    BY <1>4, Zenon DEF Refine
  <2> HIDE DEF r, changed
  <2>4. IsState(env)' /\ valuation' = valuation
    BY <1>1, <2>2, <2>3, TopIsState, SetIsState DEF Continue
  <2>5. QED
    BY <1>1, <1>4, <2>1, <2>4, LoopGoesOn DEF VsdTypes
<1>5. CASE EndPass
  <2>1. PICK cmp \in Cmps : IsLoop(assuming, cmp)
    BY <1>1, <1>5 DEF EndPass
  <2>2. env' = env /\ valuation' = valuation
    BY <1>5 DEF EndPass
  <2>3. QED
    BY <1>1, <1>5, <2>1, <2>2, LoopGoesOn DEF VsdTypes, Idle
<1>6. CASE UNCHANGED vsd_vars
  BY <1>1, <1>6 DEF vsd_vars, VsdTypes, Idle
<1>7. QED
  BY <1>2, <1>3, <1>4, <1>5, <1>6 DEF VsdNext, Outside

\* Types of the value set domain state: an element is a representable value set
\* of a variable, the loop of assume stands at a term of the condition, and no
\* element of a state that is not bottom is empty (widen would throw).
THEOREM VsdTyped == VsdSpec => [](TypeOK /\ NoEmptyValue)
<1>1. VsdInit => VsdTypes
  BY VsdInitTyped
<1>2. VsdTypes /\ [VsdNext]_vsd_vars => VsdTypes'
  BY VsdNextTyped
<1>3. VsdTypes => TypeOK /\ NoEmptyValue
  <2>1. ASSUME VsdTypes, NEW cmp \in Cmps, IsLoop(assuming, cmp)
        PROVE  assuming.i \in 1 .. Len(assuming.lins[1].terms) + 1
    BY <2>1, EquationsIs DEF IsLoop
  <2>2. QED
    BY <2>1, StateIs DEF VsdTypes, TypeOK, NoEmptyValue
<1>4. QED
  BY <1>1, <1>2, <1>3, PTL DEF VsdSpec

-----------------------------------------------------------------------------
(* Bounds, and what climbs *)

LEMMA JoinedAbove ==
  ASSUME NEW a, NEW b, IsState(a), IsState(b)
  PROVE  GreaterEq(Joined(a, b), a) /\ GreaterEq(Joined(a, b), b)
<1>1. ASSUME NEW e, IsState(e) PROVE GreaterEq(e, e)
  <2>1. \A v \in DOMAIN e.elements : Leq(e.elements[v], e.elements[v])
    BY <1>1, WideElements, LeqReflexive
  <2>2. QED
    BY <1>1, <2>1, StateIs DEF GreaterEq
<1>2. CASE b.bottom
  BY <1>1, <1>2, JoinedIs DEF GreaterEq
<1>3. CASE ~b.bottom /\ a.bottom
  BY <1>1, <1>3, JoinedIs DEF GreaterEq
<1>4. CASE ~b.bottom /\ ~a.bottom
  <2> DEFINE j == Joined(a, b)
  <2>1. /\ ~j.bottom /\ DOMAIN j.elements = DOMAIN a.elements \cap DOMAIN b.elements
        /\ \A v \in DOMAIN j.elements : j.elements[v] = JoinVs(a.elements[v], b.elements[v])
    BY <1>4, JoinedIs
  <2>2. \A v \in DOMAIN j.elements : IsWide(a.elements[v]) /\ IsWide(b.elements[v])
    BY <2>1, WideElements
  <2>3. \A v \in DOMAIN j.elements : Leq(a.elements[v], j.elements[v]) /\ Leq(b.elements[v], j.elements[v])
    BY <2>1, <2>2, JoinAbove
  <2> HIDE DEF j
  <2>4. GreaterEq(j, a) /\ GreaterEq(j, b)
    BY <2>1, <2>3 DEF GreaterEq
  <2>5. QED
    BY <2>4 DEF j
<1>5. QED
  BY <1>2, <1>3, <1>4

LEMMA BoxedAbove ==
  ASSUME NEW a, NEW b, IsState(a), IsState(b)
  PROVE  GreaterEq(Boxed(a, b), b)
<1>1. CASE b.bottom
  BY <1>1 DEF GreaterEq
<1>2. CASE ~b.bottom
  <2> DEFINE x == Boxed(a, b)
  <2>1. /\ ~x.bottom /\ DOMAIN x.elements = DOMAIN b.elements
        /\ \A v \in DOMAIN b.elements :
             /\ x.elements[v] = IF GreaterEq(a, b) THEN NarrowVs(Lookup(a, v), b.elements[v])
                                ELSE WidenVs(Lookup(a, v), b.elements[v])
             /\ GreaterEq(a, b) => Leq(b.elements[v], Lookup(a, v))
    BY <1>2, BoxedIs
  <2>2. ASSUME NEW v \in DOMAIN b.elements PROVE Leq(b.elements[v], x.elements[v])
    <3>1. IsWide(Lookup(a, v)) /\ IsWide(b.elements[v]) /\ b.elements[v] # BottomVs
      BY WideElements, StateIs
    <3> HIDE DEF x
    <3>2. CASE GreaterEq(a, b)
      BY <2>1, <3>1, <3>2, NarrowedValue
    <3>3. CASE ~GreaterEq(a, b)
      BY <2>1, <3>1, <3>3, WidenAbove
    <3>4. QED
      BY <3>2, <3>3
  <2> HIDE DEF x
  <2>3. GreaterEq(x, b)
    BY <2>1, <2>2 DEF GreaterEq
  <2>4. QED
    BY <2>3 DEF x
<1>3. QED
  BY <1>1, <1>2

\* How high a value set is, by its kind.
LEMMA RankKind ==
  ASSUME NEW v, IsWide(v)
  PROVE  /\ v.kind = "top" <=> Rank(v) = 3
         /\ v.kind = "open" <=> Rank(v) = 2
         /\ Rank(v) \in 0 .. 3
         /\ Rank(v) = 0 => v = BottomVs
<1>1. CASE v = TopVs
  BY <1>1, Ranks DEF TopVs
<1>2. CASE v = BottomVs
  BY <1>2, Ranks DEF BottomVs, FiniteVs
<1>3. ASSUME NEW S, S # {}, v = FiniteVs(S) PROVE v.kind = "finite" /\ Rank(v) = 1
  BY <1>3, Ranks DEF FiniteVs
<1>4. ASSUME NEW d, NEW k, v = OpenVs(d, k) PROVE v.kind = "open" /\ Rank(v) = 2
  BY <1>4, Ranks DEF OpenVs
<1>5. QED
  BY <1>1, <1>2, <1>3, <1>4, KindsApart

LEMMA WidenWide ==
  ASSUME NEW a, NEW b, IsWide(a), IsWide(b), b # BottomVs
  PROVE  IsWide(WidenVs(a, b))
<1>1. CASE a = TopVs \/ b = TopVs
  BY <1>1, TopIsWide DEF WidenVs, TopVs
<1>2. CASE a = BottomVs /\ b # TopVs
  <2>1. b.kind # "top" /\ a.kind = "finite"
    BY <1>2, Kinds DEF FiniteVs, OpenVs, BottomVs
  <2>2. WidenVs(a, b) = b
    BY <1>2, <2>1 DEF WidenVs
  <2>3. QED
    BY <2>2
<1>3. ASSUME NEW S \in Bounded, S # {}, a = FiniteVs(S), b # TopVs PROVE IsWide(WidenVs(a, b))
  <2>1. a # BottomVs /\ a.kind = "finite" /\ a.elements = S
    BY <1>3 DEF FiniteVs, BottomVs
  <2>2. b.kind \in {"finite", "open"}
    BY <1>3, Kinds DEF FiniteVs, OpenVs
  <2>3. WidenVs(a, b) \in {a, b, TopVs, OpenVs("UPWARD", Min(S)), OpenVs("DOWNWARD", Max(S))}
    BY <2>1, <2>2 DEF WidenVs
  <2>4. Min(S) \in Int /\ Max(S) \in Int
    BY <1>3, ExtremeIs DEF Dir
  <2>5. QED
    BY <2>3, <2>4, TopIsWide, OpenIsWide DEF Dir
<1>4. ASSUME NEW d \in Dir, NEW k \in Int, a = OpenVs(d, k), b # TopVs PROVE IsWide(WidenVs(a, b))
  <2>1. a # BottomVs /\ a.kind = "open" /\ b.kind # "top"
    BY <1>4, Kinds DEF FiniteVs, OpenVs, BottomVs
  <2>2. WidenVs(a, b) \in {a, TopVs}
    BY <2>1 DEF WidenVs
  <2>3. QED
    BY <2>2, TopIsWide
<1>5. QED
  BY <1>1, <1>2, <1>3, <1>4, KindsApart

LEMMA WidenKeeps ==
  ASSUME NEW a, NEW b, IsWide(a), IsWide(b), b # BottomVs
  PROVE  /\ Rank(a) = 3 => Rank(WidenVs(a, b)) = 3
         /\ Rank(a) = 2 => Rank(WidenVs(a, b)) \in {2, 3}
<1>1. CASE a.kind = "top"
  <2>1. a = TopVs
    BY <1>1, Kinds DEF FiniteVs, OpenVs
  <2>2. a # BottomVs
    BY <1>1 DEF BottomVs, FiniteVs
  <2>3. WidenVs(a, b) = TopVs
    BY <1>1, <2>2 DEF WidenVs
  <2>4. QED
    BY <2>3, Ranks
<1>2. CASE a.kind = "open"
  <2>1. a # BottomVs
    BY <1>2 DEF BottomVs, FiniteVs
  <2>2. WidenVs(a, b) \in {a, TopVs}
    BY <1>2, <2>1 DEF WidenVs
  <2>3. QED
    BY <1>2, <2>2, Ranks, RankKind
<1>3. QED
  BY <1>1, <1>2, RankKind

\* Sets that grow, and one of them strictly.
LEMMA CountsClimb ==
  ASSUME NEW V, IsFiniteSet(V), NEW O \in SUBSET V, NEW T \in SUBSET V, NEW P \in SUBSET V, NEW U \in SUBSET V,
         O \cap T = {}, P \cap U = {}, T \subseteq U, O \cup T \subseteq P \cup U,
         NEW v \in V, (v \in U /\ v \notin T) \/ (v \in P \cup U /\ v \notin O \cup T)
  PROVE  /\ 1 + Cardinality(P) + 2 * Cardinality(U) > 1 + Cardinality(O) + 2 * Cardinality(T)
         /\ 1 + Cardinality(P) + 2 * Cardinality(U) > 0
<1>1. \A S \in SUBSET V : IsFiniteSet(S) /\ Cardinality(S) \in Nat
  BY FS_Subset, FS_CardinalityType
<1>2. ASSUME NEW S \in SUBSET V, NEW R \in SUBSET V, S \subseteq R
      PROVE  Cardinality(S) <= Cardinality(R) /\ (Cardinality(R) = Cardinality(S) => R = S)
  BY <1>1, <1>2, FS_Subset
<1>3. Cardinality(O \cup T) = Cardinality(O) + Cardinality(T)
  <2>1. Cardinality(O \cup T) = Cardinality(O) + Cardinality(T) - Cardinality(O \cap T)
    BY <1>1, FS_Union
  <2>2. QED
    BY <1>1, <2>1, FS_EmptySet
<1>4. Cardinality(P \cup U) = Cardinality(P) + Cardinality(U)
  <2>1. Cardinality(P \cup U) = Cardinality(P) + Cardinality(U) - Cardinality(P \cap U)
    BY <1>1, FS_Union
  <2>2. QED
    BY <1>1, <2>1, FS_EmptySet
<1>5. O \cup T \in SUBSET V /\ P \cup U \in SUBSET V
  OBVIOUS
<1>6. /\ Cardinality(T) <= Cardinality(U)
      /\ Cardinality(O \cup T) <= Cardinality(P \cup U)
      /\ Cardinality(T) # Cardinality(U) \/ Cardinality(O \cup T) # Cardinality(P \cup U)
  BY <1>2, <1>5
<1>7. Cardinality(O) \in Nat /\ Cardinality(T) \in Nat /\ Cardinality(P) \in Nat /\ Cardinality(U) \in Nat
  BY <1>1
<1>8. QED
  BY <1>3, <1>4, <1>6, <1>7

LEMMA BoxedClimbs ==
  ASSUME NEW a, NEW b, IsState(a), IsState(b), ~GreaterEq(a, b)
  PROVE  Height(Boxed(a, b)) > Height(a)
<1> DEFINE x == Boxed(a, b)
           T == OfKind(a, "top")
           O == OfKind(a, "open")
           U == OfKind(x, "top")
           P == OfKind(x, "open")
<1>1. ~b.bottom /\ b.bottom \in BOOLEAN
  BY StateIs DEF GreaterEq
<1>2. /\ ~x.bottom /\ DOMAIN x.elements = DOMAIN b.elements
      /\ \A v \in DOMAIN b.elements : x.elements[v] = WidenVs(Lookup(a, v), b.elements[v])
  BY <1>1, BoxedIs
<1>3. /\ T \in SUBSET Var /\ O \in SUBSET Var /\ U \in SUBSET Var /\ P \in SUBSET Var
      /\ \A v \in Var : /\ v \in T <=> Lookup(a, v).kind = "top"
                        /\ v \in O <=> Lookup(a, v).kind = "open"
                        /\ v \in U <=> Lookup(x, v).kind = "top"
                        /\ v \in P <=> Lookup(x, v).kind = "open"
  BY DEF OfKind
<1>4. Height(x) = 1 + Cardinality(P) + 2 * Cardinality(U)
  BY <1>2 DEF Height
<1>5. CASE a.bottom
  <2>1. Cardinality(P) \in Nat /\ Cardinality(U) \in Nat
    <3> HIDE DEF P, U
    <3> QED BY <1>3, VsdAssumption, FS_Subset, FS_CardinalityType
  <2>2. Height(a) = 0
    BY <1>5 DEF Height
  <2> HIDE DEF P, U, x
  <2>3. Height(x) > Height(a)
    BY <1>4, <2>1, <2>2
  <2>4. QED
    BY <2>3 DEF x
<1>6. CASE ~a.bottom
  <2>1. Height(a) = 1 + Cardinality(O) + 2 * Cardinality(T)
    BY <1>6 DEF Height
  <2> HIDE DEF P, U, T, O, x
  <2>2. \A v : IsWide(Lookup(a, v))
    BY WideElements
  <2>3. ASSUME NEW v \in Var
        PROVE  /\ v \in T => v \in U
               /\ v \in O => v \in P \cup U
    <3>1. CASE v \in DOMAIN b.elements
      <4> DEFINE w == WidenVs(Lookup(a, v), b.elements[v])
      <4>1. Lookup(x, v) = w
        BY <1>2, <3>1 DEF Lookup
      <4>2. IsWide(Lookup(a, v)) /\ IsWide(b.elements[v]) /\ b.elements[v] # BottomVs
        BY <2>2, <3>1, WideElements, StateIs
      <4>3. /\ Rank(Lookup(a, v)) = 3 => Rank(w) = 3
            /\ Rank(Lookup(a, v)) = 2 => Rank(w) \in {2, 3}
        BY <4>2, WidenKeeps
      <4>4. IsWide(w)
        BY <4>2, WidenWide
      <4> HIDE DEF w
      <4>5. QED
        BY <1>3, <4>1, <4>2, <4>3, <4>4, RankKind
    <3>2. CASE v \notin DOMAIN b.elements
      BY <1>2, <1>3, <3>2 DEF Lookup, TopVs
    <3>3. QED
      BY <3>1, <3>2
  <2>4. PICK v \in DOMAIN a.elements : ~Leq(Lookup(b, v), a.elements[v])
    BY <1>1, <1>6, GreaterEqIs
  <2>5. v \in Var /\ Lookup(a, v) = a.elements[v] /\ a.elements[v] # BottomVs
    BY StateIs DEF Lookup
  <2>6. (v \in U /\ v \notin T) \/ (v \in P \cup U /\ v \notin O \cup T)
    <3>1. IsWide(Lookup(a, v)) /\ Lookup(a, v) # BottomVs
      BY <2>2, <2>5
    <3>2. CASE v \in DOMAIN b.elements
      <4> DEFINE w == WidenVs(Lookup(a, v), b.elements[v])
      <4>1. Lookup(x, v) = w /\ Lookup(b, v) = b.elements[v]
        BY <1>2, <3>2 DEF Lookup
      <4>2. IsWide(b.elements[v]) /\ b.elements[v] # BottomVs
        BY <3>2, WideElements, StateIs
      <4>3. Rank(w) > Rank(Lookup(a, v)) /\ IsWide(w)
        BY <2>4, <2>5, <3>1, <4>1, <4>2, WidenRank, WidenWide
      <4> HIDE DEF w
      <4>4. QED
        BY <1>3, <2>5, <3>1, <4>1, <4>3, RankKind
    <3>3. CASE v \notin DOMAIN b.elements
      <4>1. Lookup(x, v) = TopVs /\ Lookup(b, v) = TopVs
        BY <1>2, <3>3 DEF Lookup
      <4>2. a.elements[v] # TopVs
        BY <2>4, <4>1, LeqKinds
      <4>3. Lookup(a, v).kind # "top"
        BY <2>5, <3>1, <4>2, Kinds DEF FiniteVs, OpenVs
      <4>4. QED
        BY <1>3, <2>5, <4>1, <4>3 DEF TopVs
    <3>4. QED
      BY <3>2, <3>3
  <2>7. O \cap T = {} /\ P \cap U = {}
    BY <1>3
  <2>8. IsFiniteSet(Var)
    BY VsdAssumption
  <2>9. T \subseteq U /\ O \cup T \subseteq P \cup U
    BY <1>3, <2>3
  <2>10. 1 + Cardinality(P) + 2 * Cardinality(U) > 1 + Cardinality(O) + 2 * Cardinality(T)
    BY <1>3, <2>5, <2>6, <2>7, <2>8, <2>9, CountsClimb
  <2>11. Height(x) > Height(a)
    BY <1>4, <2>1, <2>10
  <2>12. QED
    BY <2>11 DEF x
<1>7. a.bottom \in BOOLEAN
  BY StateIs
<1>8. QED
  BY <1>5, <1>6, <1>7

\* What fixpoint::iterate relies on: a join of vsd_state lies above both states
\* and a box above the new one, and a state that had to be widened has climbed;
\* its height is bounded by the number of variables.
THEOREM VsdBounds == VsdSpec => []EngineBounds
<1>1. VsdInit => VsdTypes
  BY VsdInitTyped
<1>2. VsdTypes /\ [VsdNext]_vsd_vars => VsdTypes'
  BY VsdNextTyped
<1>3. VsdTypes => EngineBounds
  <2>1. ASSUME VsdTypes, NEW b \in Others
        PROVE  /\ GreaterEq(Joined(env, b), env) /\ GreaterEq(Joined(env, b), b)
               /\ GreaterEq(Boxed(env, b), b)
               /\ ~GreaterEq(env, b) => Height(Boxed(env, b)) > Height(env)
    <3>1. IsState(env) /\ IsState(b)
      BY <2>1, VsdAssumption DEF VsdTypes
    <3>2. QED
      BY <3>1, JoinedAbove, BoxedAbove, BoxedClimbs
  <2>2. QED
    BY <2>1 DEF EngineBounds
<1>4. QED
  BY <1>1, <1>2, <1>3, PTL DEF VsdSpec

-----------------------------------------------------------------------------
(* What the program may compute *)

Numbers == SUBSET Int

LEMMA ValuesIs ==
  ASSUME NEW v \in Ids, valuation \in Valuations
  PROVE  /\ ValuesOf(v) \in SUBSET Int
         /\ v \in Var => ValuesOf(v) = {valuation[v]} /\ valuation[v] \in Ints
         /\ v \notin Var => \A e, x : x \in ValuesOf(v) => Contains(QueryVar(e, v), x)
<1>1. v \in Var => ValuesOf(v) = {valuation[v]} /\ valuation[v] \in Ints
  BY DEF ValuesOf, Valuations
<1>2. Members(QueryVar(Bottom, v)) \in SUBSET Int
  BY VsdAssumption, ValueSetIsWide DEF Members
<1>3. v \notin Var => \A e : QueryVar(e, v) = QueryVar(Bottom, v)
  BY VsdAssumption DEF QueryVar, Ids
<1>4. QED
  BY <1>1, <1>2, <1>3, VsdAssumption, ValueSetIsWide DEF ValuesOf, Members

\* The values of a linear expression, term by term from the end.
LEMMA LinValuesIs ==
  ASSUME NEW lin, IsWideLin(lin, Ids), valuation \in Valuations
  PROVE  \E G : /\ LinValues(lin) = G[1] /\ G[Len(lin.terms) + 1] = Members(lin.vs)
                /\ \A i \in 1 .. Len(lin.terms) :
                     G[i] = Added(lin.terms[i], G[i + 1])
                /\ \A i \in 1 .. Len(lin.terms) + 1 : G[i] \in Numbers
<1> DEFINE ts == lin.terms
           c == Members(lin.vs)
           S == DOMAIN ts
           n == Len(ts)
           pick == [s \in SUBSET S |-> Min(s)]
           step(i, w) == Added(ts[i], w)
           Op == [z \in S \X Numbers |-> step(z[1], z[2])]
           Body(F, s) == IF s = {} THEN c ELSE step(Sq!Min(s), F[s \ {Sq!Min(s)}])
           iter == CHOOSE F : F = [s \in SUBSET S |-> Body(F, s)]
<1>1. LinValues(lin) = iter[S]
  BY Zenon DEF LinValues, Sq!FoldRight, Sq!MapThenFoldSet
<1>2. n \in Nat /\ S = 1 .. n /\ c \in Numbers
  BY TermsIs, VsdAssumption, ValueSetIsWide DEF Members, Numbers
<1>3. \A i \in S : ts[i].scale \in Int /\ ts[i].var \in Ids
  BY TermsIs
<1> HIDE DEF ts, c, n
<1>4. IsFiniteSet(S) /\ Picks(pick, S)
  <2>1. S \in SUBSET Nat
    BY <1>2
  <2>2. IsFiniteSet(1 .. n)
    BY <1>2, FS_Interval
  <2>3. IsFiniteSet(S)
    BY <1>2, <2>2
  <2> HIDE DEF S
  <2>4. QED
    BY <2>1, <2>3, MinPicks
<1>5. ASSUME NEW i \in S, NEW w \in Numbers PROVE step(i, w) \in Numbers
  <2>1. ts[i].scale \in Int /\ ValuesOf(ts[i].var) \in SUBSET Int
    BY <1>3, ValuesIs
  <2>2. QED
    BY <2>1 DEF Added, Numbers
<1>6. \A i \in S, w \in Numbers : Op[<<i, w>>] = step(i, w)
  <2> HIDE DEF step, S
  <2> QED OBVIOUS
<1>7. PICK F : IsFold(F, S, pick, c, Op) /\ \A s \in SUBSET S : F[s] \in Numbers
  <2>1. \A i \in S, w \in Numbers : Op[<<i, w>>] \in Numbers
    BY <1>5, <1>6
  <2> HIDE DEF pick, Op, S
  <2>2. QED
    BY <1>2, <1>4, <2>1, FoldIn
<1>8. F = [s \in SUBSET S |-> Body(F, s)]
  <2>1. F = [s \in SUBSET S |-> IF s = {} THEN c ELSE Op[<<pick[s], F[s \ {pick[s]}]>>]]
    BY <1>7 DEF IsFold
  <2>2. ASSUME NEW s \in SUBSET S, s # {} PROVE Op[<<pick[s], F[s \ {pick[s]}]>>] = Body(F, s)
    <3>1. pick[s] = (Sq!Min(s)) /\ pick[s] \in S
      BY <1>4, <2>2, SqPicks DEF Picks
    <3>2. F[s \ {pick[s]}] \in Numbers
      BY <1>7
    <3> HIDE DEF Op, pick, step, S
    <3>3. QED
      BY <1>6, <2>2, <3>1, <3>2
  <2> HIDE DEF Op, pick, step, S
  <2>3. QED
    BY <2>1, <2>2
<1>9. iter = [s \in SUBSET S |-> Body(iter, s)]
  <2> DEFINE Eq(X) == X = [s \in SUBSET S |-> Body(X, s)]
  <2>1. Eq(F)
    BY <1>8, Zenon
  <2>2. iter = CHOOSE X : Eq(X)
    BY Zenon
  <2> HIDE DEF Eq, iter
  <2>3. Eq(iter)
    BY <2>1, <2>2, Zenon
  <2>4. QED
    BY <2>3, Zenon DEF Eq
<1> HIDE DEF iter
<1>10. /\ iter[{}] = c
       /\ \A s \in (SUBSET S) \ {{}} : iter[s] = step(pick[s], iter[s \ {pick[s]}])
  <2>1. \A s \in (SUBSET S) \ {{}} : pick[s] = (Sq!Min(s))
    BY SqPicks
  <2> HIDE DEF step, pick
  <2>2. QED
    BY <1>9, <2>1
<1>11. \A s \in SUBSET S : iter[s] \in Numbers
  <2> DEFINE Fam == [s \in SUBSET S |-> Numbers]
  <2>1. ASSUME NEW s \in (SUBSET S) \ {{}}, iter[s \ {pick[s]}] \in Fam[s \ {pick[s]}]
        PROVE  iter[s] \in Fam[s]
    <3>1. pick[s] \in S
      BY <1>4 DEF Picks
    <3>2. iter[s \ {pick[s]}] \in Numbers
      BY <2>1
    <3> HIDE DEF pick, step, S
    <3>3. QED
      BY <1>5, <1>10, <3>1, <3>2
  <2>2. iter[{}] \in Fam[{}]
    BY <1>2, <1>10
  <2>3. \A s \in SUBSET S : iter[s] \in Fam[s]
    <3> HIDE DEF Fam, pick, step, S
    <3>1. QED
      BY <1>4, <2>1, <2>2, FoldStays
  <2>4. QED
    BY <2>3
<1>12. PICK G : /\ G[1] = iter[1 .. n] /\ G[n + 1] = c
                /\ \A i \in 1 .. n : G[i] = Op[<<i, G[i + 1]>>]
                /\ \A i \in 1 .. n + 1 : G[i] = iter[i .. n]
  <2>1. ASSUME NEW s \in (SUBSET (1 .. n)) \ {{}} PROVE iter[s] = Op[<<Min(s), iter[s \ {Min(s)}]>>]
    <3>1. pick[s] = Min(s) /\ pick[s] \in S
      BY <1>2, <1>4 DEF Picks
    <3>2. iter[s \ {Min(s)}] \in Numbers
      BY <1>2, <1>11
    <3> HIDE DEF pick, Op, step, S
    <3>3. QED
      BY <1>2, <1>6, <1>10, <3>1, <3>2
  <2>2. iter[{}] = c /\ n \in Nat
    BY <1>2, <1>10
  <2> HIDE DEF Op, S, step, pick
  <2>3. IsLeastFold(iter, n, c, Op)
    BY <2>1, <2>2, Zenon DEF IsLeastFold
  <2>4. QED
    BY <2>2, <2>3, Suffixes
<1>13. \A i \in 1 .. n + 1 : G[i] \in Numbers
  <2>1. ASSUME NEW i \in 1 .. n + 1 PROVE i .. n \in SUBSET S
    BY <1>2
  <2>2. QED
    BY <1>11, <1>12, <2>1
<1>14. \A i \in 1 .. n : G[i] = step(i, G[i + 1])
  <2>1. ASSUME NEW i \in 1 .. n PROVE i \in S /\ i + 1 \in 1 .. n + 1
    BY <1>2
  <2> HIDE DEF Op, S, step
  <2>2. QED
    BY <1>6, <1>12, <1>13, <2>1
<1>15. LinValues(lin) = G[1]
  BY <1>1, <1>2, <1>12
<1>16. QED
  BY <1>12, <1>13, <1>14, <1>15 DEF ts, c, n

-----------------------------------------------------------------------------
(* Expressions *)

\* What a state says of a valuation.
Fits(e, w) == ~e.bottom /\ \A v \in DOMAIN e.elements : Contains(e.elements[v], w[v])

LEMMA QueryVarSound ==
  ASSUME NEW e, IsState(e), valuation \in Valuations, Fits(e, valuation),
         NEW v \in Ids, NEW x \in ValuesOf(v)
  PROVE  x \in Int /\ Contains(QueryVar(e, v), x)
<1>1. x \in Int
  BY ValuesIs
<1>2. CASE v \in Var
  <2>1. x = valuation[v] /\ QueryVar(e, v) = Lookup(e, v)
    BY <1>2, ValuesIs, QueryVarOfVar
  <2>2. QED
    BY <1>1, <2>1, ContainsKind DEF Fits, Lookup
<1>3. CASE v \notin Var
  BY <1>1, <1>3, ValuesIs
<1>4. QED
  BY <1>2, <1>3

\* Every value of a linear expression lies in its value set.
LEMMA QueryLinSound ==
  ASSUME NEW e, IsState(e), valuation \in Valuations, Fits(e, valuation),
         NEW lin, IsWideLin(lin, Ids), NEW x \in LinValues(lin)
  PROVE  x \in Int /\ Contains(QueryLin(e, lin), x)
<1> DEFINE n == Len(lin.terms)
           ts == lin.terms
<1>1. n \in Nat /\ \A i \in 1 .. n : ts[i].scale \in Int /\ ts[i].var \in Ids
  BY TermsIs
<1>2. PICK G : /\ QueryLin(e, lin) = G[1] /\ G[n + 1] = lin.vs
               /\ \A i \in 1 .. n :
                    G[i] = AddVs(MulVs(Single(ts[i].scale), QueryVar(e, ts[i].var)), G[i + 1])
               /\ \A i \in 1 .. n + 1 : IsWide(G[i])
  BY QueryLinIs
<1>3. PICK H : /\ LinValues(lin) = H[1] /\ H[n + 1] = Members(lin.vs)
               /\ \A i \in 1 .. n : H[i] = Added(ts[i], H[i + 1])
               /\ \A i \in 1 .. n + 1 : H[i] \in Numbers
  BY LinValuesIs
<1> DEFINE P == {i \in 1 .. n + 1 : \A y \in H[i] : Contains(G[i], y)}
<1> HIDE DEF n, ts
<1>4. n + 1 \in P
  BY <1>1, <1>2, <1>3 DEF Members
<1>5. ASSUME NEW i \in 1 .. n, i + 1 \in P PROVE i \in P
  <2>1. i \in 1 .. n + 1 /\ i + 1 \in 1 .. n + 1
    BY <1>1
  <2>2. ASSUME NEW y \in H[i] PROVE Contains(G[i], y)
    <3>1. PICK z \in ValuesOf(ts[i].var), r \in H[i + 1] : y = ts[i].scale * z + r
      BY <1>3, <2>2 DEF Added
    <3>2. z \in Int /\ Contains(QueryVar(e, ts[i].var), z) /\ IsWide(QueryVar(e, ts[i].var))
      BY <1>1, QueryVarSound, QueryVarIs
    <3>3. r \in Int /\ Contains(G[i + 1], r) /\ IsWide(G[i + 1])
      BY <1>2, <1>3, <1>5, <2>1 DEF Numbers
    <3>4. ts[i].scale \in Int /\ IsWide(Single(ts[i].scale)) /\ Contains(Single(ts[i].scale), ts[i].scale)
      BY <1>1, SingleIsWide, ContainsKind DEF Single
    <3> DEFINE s == ts[i].scale
               q == MulVs(Single(s), QueryVar(e, ts[i].var))
    <3>5. Contains(q, s * z) /\ IsWide(q) /\ s * z \in Int
      BY <3>2, <3>4, MulSound, MulWide
    <3> HIDE DEF q
    <3>6. Contains(AddVs(q, G[i + 1]), s * z + r)
      BY <3>3, <3>5, AddSound
    <3>7. QED
      BY <1>2, <3>1, <3>6 DEF q
  <2>3. QED
    BY <2>1, <2>2
<1>6. 1 \in P
  <2>1. \A i \in 1 .. n + 1 : i \in P
    <3> HIDE DEF P
    <3> QED BY <1>1, <1>4, <1>5, Downward
  <2>2. QED
    BY <1>1, <2>1
<1>7. QED
  BY <1>2, <1>3, <1>6 DEF Numbers

\* A linear expression of variables, of symbols and of one number.
KnownLin(lin) ==
  /\ \E c : lin.vs = Single(c)
  /\ \A i \in DOMAIN lin.terms : lin.terms[i].var # "bad"

LEMMA KnownValue ==
  ASSUME valuation \in Valuations, NEW lin, IsLin(lin, Ids), KnownLin(lin)
  PROVE  \E z \in Int : LinValues(lin) = {z}
<1> DEFINE n == Len(lin.terms)
           ts == lin.terms
<1>1. IsWideLin(lin, Ids)
  BY LinIsWide
<1>2. n \in Nat /\ \A i \in 1 .. n : ts[i].scale \in Int /\ ts[i].var \in Ids /\ ts[i].var # "bad"
  BY <1>1, TermsIs DEF KnownLin
<1>3. PICK H : /\ LinValues(lin) = H[1] /\ H[n + 1] = Members(lin.vs)
               /\ \A i \in 1 .. n : H[i] = Added(ts[i], H[i + 1])
  BY <1>1, LinValuesIs
<1> DEFINE P == {i \in 1 .. n + 1 : \E z \in Int : H[i] = {z}}
<1> HIDE DEF n, ts
<1>4. \A c \in Ints : Members(Single(c)) = {c} /\ c \in Int
  BY ContainsKind, VsdAssumption, ValueSetIsWide DEF Members, Single
<1>5. n + 1 \in P
  <2>1. PICK c : lin.vs = Single(c)
    BY DEF KnownLin
  <2>2. c \in Ints
    BY <2>1 DEF IsLin, IsValueSet, Single, FiniteVs, TopVs, OpenVs
  <2>3. QED
    BY <1>2, <1>3, <1>4, <2>1, <2>2
<1>6. ASSUME NEW v \in Ids, v # "bad" PROVE \E z \in Int : ValuesOf(v) = {z}
  <2>1. CASE v \in Var
    BY <2>1, ValuesIs
  <2>2. CASE v \notin Var
    <3>1. ValuesOf(v) = Members(QueryVar(Bottom, v))
      BY <2>2 DEF ValuesOf
    <3>2. \E c \in Ints : QueryVar(Bottom, v) = Single(c)
      <4>1. CASE v \in DOMAIN Address
        BY <4>1, VsdAssumption DEF QueryVar
      <4>2. CASE v = "null"
        <5>1. QueryVar(Bottom, v) = Single(0) /\ 0 \in Ints
          BY <4>2, VsdAssumption DEF QueryVar, Ints
        <5>2. QED
          BY <5>1
      <4>3. QED
        BY <1>6, <2>2, <4>1, <4>2 DEF Ids
    <3>3. QED
      BY <1>4, <3>1, <3>2
  <2>3. QED
    BY <2>1, <2>2
<1>7. ASSUME NEW i \in 1 .. n, i + 1 \in P PROVE i \in P
  <2>1. PICK r \in Int : H[i + 1] = {r}
    BY <1>7
  <2>2. PICK z \in Int : ValuesOf(ts[i].var) = {z}
    BY <1>2, <1>6
  <2>3. H[i] = {ts[i].scale * z + r} /\ ts[i].scale \in Int
    BY <1>2, <1>3, <2>1, <2>2 DEF Added
  <2>4. i \in 1 .. n + 1 /\ ts[i].scale * z + r \in Int
    BY <1>2, <2>3
  <2>5. QED
    BY <2>3, <2>4
<1>8. 1 \in P
  <2>1. \A i \in 1 .. n + 1 : i \in P
    <3> HIDE DEF P
    <3> QED BY <1>2, <1>5, <1>7, Downward
  <2>2. 1 \in 1 .. n + 1
    BY <1>2
  <2> HIDE DEF P
  <2>3. QED
    BY <2>1, <2>2
<1>9. QED
  BY <1>3, <1>8

LEMMA SameLinIs ==
  ASSUME NEW a, NEW b, IsLin(a, Ids), IsLin(b, Ids), KnownLin(a), KnownLin(b), SameLin(a, b)
  PROVE  a = b
<1>1. PICK c, d : a.vs = Single(c) /\ b.vs = Single(d)
  BY DEF KnownLin
<1>2. c \in Ints /\ d \in Ints
  BY <1>1 DEF IsLin, IsValueSet, Single, FiniteVs, TopVs, OpenVs
<1>3. c \in Int /\ d \in Int
  BY <1>2, VsdAssumption, ValueSetIsWide
<1>4. {c} \in Bounded /\ {d} \in Bounded
  BY <1>3, SmallBounded
<1>5. Min({c}) = c /\ Min({d}) = d
  BY <1>4, Bounds
<1>6. Leq(Single(c), Single(d)) /\ Leq(Single(d), Single(c))
  BY <1>1 DEF SameLin
<1>7. d <= c /\ c <= d
  BY <1>5, <1>6, LeqKinds DEF Single
<1>8. a.vs = b.vs /\ a.terms = b.terms
  BY <1>1, <1>3, <1>7 DEF SameLin
<1>9. QED
  BY <1>8 DEF IsLin

LEMMA CompareSound ==
  ASSUME NEW a, IsWide(a), NEW x \in Int, Contains(a, x), NEW op \in CmpOps
  PROVE  Contains(CompareVs(a, op), IF Holds(x, op) THEN 1 ELSE 0)
<1>1. PICK R \in SUBSET {0, 1} : AtMost(a, 0) = FiniteVs(R) /\ Truth(x <= 0) \in R
  BY ComparisonsSound
<1>2. PICK S \in SUBSET {0, 1} : Below(a, 0) = FiniteVs(S) /\ Truth(x < 0) \in S
  BY ComparisonsSound
<1>3. PICK T \in SUBSET {0, 1} : EqualTo(a, 0) = FiniteVs(T) /\ Truth(x = 0) \in T
  BY ComparisonsSound
<1>4. /\ Contains(AtMost(a, 0), Truth(x <= 0)) /\ Contains(NotVs(AtMost(a, 0)), 1 - Truth(x <= 0))
      /\ Contains(Below(a, 0), Truth(x < 0)) /\ Contains(NotVs(Below(a, 0)), 1 - Truth(x < 0))
      /\ Contains(EqualTo(a, 0), Truth(x = 0)) /\ Contains(NotVs(EqualTo(a, 0)), 1 - Truth(x = 0))
  <2>1. ASSUME NEW vs, NEW u, \E Q \in SUBSET {0, 1} : vs = FiniteVs(Q) /\ u \in Q
        PROVE  Contains(vs, u) /\ Contains(NotVs(vs), 1 - u)
    BY <2>1, ContainsKind, NotSound
  <2>2. QED
    BY <1>1, <1>2, <1>3, <2>1
<1> DEFINE t == IF Holds(x, op) THEN 1 ELSE 0
<1>5. /\ op = "LE" => CompareVs(a, op) = AtMost(a, 0) /\ t = Truth(x <= 0)
      /\ op = "LT" => CompareVs(a, op) = Below(a, 0) /\ t = Truth(x < 0)
      /\ op = "GE" => CompareVs(a, op) = NotVs(Below(a, 0)) /\ t = 1 - Truth(x < 0)
      /\ op = "GT" => CompareVs(a, op) = NotVs(AtMost(a, 0)) /\ t = 1 - Truth(x <= 0)
      /\ op = "EQ" => CompareVs(a, op) = EqualTo(a, 0) /\ t = Truth(x = 0)
      /\ op = "NEQ" => CompareVs(a, op) = NotVs(EqualTo(a, 0)) /\ t = 1 - Truth(x = 0)
  <2>1. /\ x <= 0 <=> ~(x > 0)
        /\ x < 0 <=> ~(x >= 0)
    OBVIOUS
  <2>2. CASE op = "LE"
    BY <2>2 DEF CompareVs, Holds, Truth
  <2>3. CASE op = "LT"
    BY <2>3 DEF CompareVs, Holds, Truth
  <2>4. CASE op = "GE"
    BY <2>1, <2>4 DEF CompareVs, Holds, Truth
  <2>5. CASE op = "GT"
    BY <2>1, <2>5 DEF CompareVs, Holds, Truth
  <2>6. CASE op = "EQ"
    BY <2>6 DEF CompareVs, Holds, Truth
  <2>7. CASE op = "NEQ"
    BY <2>7 DEF CompareVs, Holds, Truth
  <2>8. QED
    BY <2>2, <2>3, <2>4, <2>5, <2>6, <2>7
<1> HIDE DEF t
<1>6. Contains(CompareVs(a, op), t)
  BY <1>4, <1>5 DEF CmpOps
<1>7. QED
  BY <1>6 DEF t

\* The expressions whose value sets hold every value: no division, and an
\* exclusive or only of operands that have one value.
Reliable(exp) ==
  exp.kind = "bin" => /\ exp.op # "DIV"
                      /\ exp.op = "XOR" => KnownLin(exp.opnd1) /\ KnownLin(exp.opnd2)

LEMMA BinarySound ==
  ASSUME NEW e, IsState(e), NEW exp \in Exprs, exp.kind = "bin", Reliable(exp),
         IsLin(exp.opnd1, Ids), IsLin(exp.opnd2, Ids), exp.op \in BinOps
  PROVE  /\ IsWide(BinaryVs(e, exp))
         /\ valuation \in Valuations /\ Fits(e, valuation) =>
              \A x \in BinaryValues(exp) : x \in Int /\ Contains(BinaryVs(e, exp), x)
<1> DEFINE a == QueryLin(e, exp.opnd1)
           b == QueryLin(e, exp.opnd2)
           xs == LinValues(exp.opnd1)
           ys == LinValues(exp.opnd2)
           products == {x * y : x \in xs, y \in ys}
           eors == UNION {IF x = y THEN {0} ELSE Ints \ {0} : x \in xs, y \in ys}
           shifts == UNION {IF x = 0 THEN {0} ELSE Ints : x \in xs}
<1>1. IsWide(a) /\ IsWide(b)
  BY LinShaped
<1>2. IsWideLin(exp.opnd1, Ids) /\ IsWideLin(exp.opnd2, Ids)
  BY LinIsWide
<1>3. valuation \in Valuations /\ Fits(e, valuation) =>
        /\ \A x \in xs : x \in Int /\ Contains(a, x)
        /\ \A y \in ys : y \in Int /\ Contains(b, y)
  BY <1>2, QueryLinSound
<1>4. /\ exp.op = "MUL" => BinaryVs(e, exp) = MulVs(a, b) /\ BinaryValues(exp) = products
      /\ exp.op = "XOR" => /\ BinaryVs(e, exp) = IF SameLin(exp.opnd1, exp.opnd2) THEN Single(0) ELSE TopVs
                           /\ BinaryValues(exp) = eors
      /\ exp.op = "SHL" => /\ BinaryVs(e, exp) = IF a = Single(0) THEN Single(0) ELSE TopVs
                           /\ BinaryValues(exp) = shifts
      /\ exp.op = "AND" => BinaryVs(e, exp) = TopVs /\ BinaryValues(exp) = Ints
  <2>1. CASE exp.op = "MUL"
    BY <2>1 DEF BinaryVs, BinaryValues
  <2>2. CASE exp.op = "XOR"
    BY <2>2 DEF BinaryVs, BinaryValues
  <2>3. CASE exp.op = "SHL"
    BY <2>3 DEF BinaryVs, BinaryValues
  <2>4. CASE exp.op = "AND"
    BY <2>4 DEF BinaryVs, BinaryValues
  <2>5. QED
    BY <2>1, <2>2, <2>3, <2>4
<1> HIDE DEF a, b, xs, ys, products, eors, shifts
<1>5. /\ IsWide(TopVs) /\ IsWide(Single(0))
      /\ \A x : Contains(TopVs, x) /\ (Contains(Single(0), x) <=> x = 0)
      /\ \A x \in Ints : x \in Int
  <2>1. IsWide(TopVs) /\ IsWide(Single(0))
    BY TopIsWide, SingleIsWide
  <2>2. \A x : Contains(TopVs, x) /\ (Contains(Single(0), x) <=> x = 0)
    BY ContainsKind DEF Single
  <2>3. \A x \in Ints : x \in Int
    BY VsdAssumption, ValueSetIsWide
  <2>4. QED
    BY <2>1, <2>2, <2>3
<1>6. CASE exp.op = "MUL"
  <2>1. BinaryVs(e, exp) = MulVs(a, b) /\ BinaryValues(exp) = products
    BY <1>4, <1>6
  <2>2. QED
    BY <1>1, <1>3, <2>1, MulWide, MulSound DEF products
<1>7. CASE exp.op = "XOR"
  <2>1. BinaryVs(e, exp) = IF SameLin(exp.opnd1, exp.opnd2) THEN Single(0) ELSE TopVs
    BY <1>4, <1>7
  <2>2. BinaryValues(exp) = eors
    BY <1>4, <1>7
  <2>3. \A z \in BinaryValues(exp) : z = 0 \/ z \in Ints
    BY <2>2 DEF eors
  <2>4. \A z \in BinaryValues(exp) : z \in Int
    BY <1>5, <2>3
  <2>5. ASSUME SameLin(exp.opnd1, exp.opnd2), valuation \in Valuations, NEW z \in BinaryValues(exp) PROVE z = 0
    <3>1. KnownLin(exp.opnd1) /\ KnownLin(exp.opnd2)
      BY <1>7 DEF Reliable
    <3>2. exp.opnd1 = exp.opnd2
      BY <2>5, <3>1, SameLinIs
    <3>3. xs = ys
      BY <3>2 DEF xs, ys
    <3>4. PICK k \in Int : xs = {k}
      BY <2>5, <3>1, KnownValue DEF xs
    <3>5. QED
      BY <2>2, <2>5, <3>3, <3>4 DEF eors
  <2>6. QED
    BY <1>5, <2>1, <2>4, <2>5
<1>8. CASE exp.op = "SHL"
  <2>1. BinaryVs(e, exp) = IF a = Single(0) THEN Single(0) ELSE TopVs
    BY <1>4, <1>8
  <2>2. BinaryValues(exp) = shifts
    BY <1>4, <1>8
  <2>3. \A z \in BinaryValues(exp) : z = 0 \/ z \in Ints
    BY <2>2 DEF shifts
  <2>4. \A z \in BinaryValues(exp) : z \in Int
    BY <1>5, <2>3
  <2>5. ASSUME a = Single(0), valuation \in Valuations, Fits(e, valuation), NEW z \in BinaryValues(exp) PROVE z = 0
    <3>1. \A x \in xs : x = 0
      BY <1>3, <1>5, <2>5
    <3>2. QED
      BY <2>2, <2>5, <3>1 DEF shifts
  <2>6. QED
    BY <1>5, <2>1, <2>4, <2>5
<1>9. CASE exp.op = "AND"
  <2>1. BinaryVs(e, exp) = TopVs /\ BinaryValues(exp) = Ints
    BY <1>4, <1>9
  <2>2. QED
    BY <1>5, <2>1
<1>10. QED
  BY <1>6, <1>7, <1>8, <1>9 DEF BinOps, Reliable

LEMMA InnerSound ==
  ASSUME NEW e, IsState(e), NEW exp \in Exprs, Reliable(exp)
  PROVE  /\ IsWide(InnerVs(e, exp))
         /\ valuation \in Valuations /\ Fits(e, valuation) =>
              \A x \in InnerValues(exp) : x \in Int /\ Contains(InnerVs(e, exp), x)
<1>1. IsExp(exp)
  BY VsdAssumption
<1>2. CASE exp.kind = "cmp" /\ IsLin(exp.opnd, Ids) /\ exp.op \in CmpOps
  <2> DEFINE a == QueryLin(e, exp.opnd)
             xs == LinValues(exp.opnd)
  <2>1. InnerVs(e, exp) = CompareVs(a, exp.op) /\ IsWide(a)
    BY <1>2, LinShaped DEF InnerVs
  <2>2. InnerValues(exp) = {IF Holds(x, exp.op) THEN 1 ELSE 0 : x \in xs}
    BY <1>2, Zenon DEF InnerValues
  <2>3. valuation \in Valuations /\ Fits(e, valuation) => \A x \in xs : x \in Int /\ Contains(a, x)
    BY <1>2, LinIsWide, QueryLinSound
  <2> HIDE DEF a, xs
  <2>4. IsWide(InnerVs(e, exp))
    BY <1>2, <2>1, CompareWide
  <2>5. ASSUME valuation \in Valuations, Fits(e, valuation), NEW y \in InnerValues(exp)
        PROVE  y \in Int /\ Contains(InnerVs(e, exp), y)
    <3>1. PICK x \in xs : y = IF Holds(x, exp.op) THEN 1 ELSE 0
      BY <2>2, <2>5
    <3>2. x \in Int /\ Contains(a, x)
      BY <2>3, <2>5
    <3>3. Contains(CompareVs(a, exp.op), y)
      BY <1>2, <2>1, <3>1, <3>2, CompareSound
    <3>4. y \in Int
      BY <3>1
    <3>5. QED
      BY <2>1, <3>3, <3>4
  <2>6. QED
    BY <2>4, <2>5
<1>3. CASE exp.kind = "lin" /\ IsLin(exp.inner, Ids)
  <2>1. InnerVs(e, exp) = QueryLin(e, exp.inner) /\ InnerValues(exp) = LinValues(exp.inner)
    BY <1>3 DEF InnerVs, InnerValues
  <2>2. QED
    BY <1>3, <2>1, LinShaped, LinIsWide, QueryLinSound
<1>4. CASE exp.kind = "bin" /\ IsLin(exp.opnd1, Ids) /\ IsLin(exp.opnd2, Ids) /\ exp.op \in BinOps
  <2>1. InnerVs(e, exp) = BinaryVs(e, exp) /\ InnerValues(exp) = BinaryValues(exp)
    BY <1>4 DEF InnerVs, InnerValues
  <2>2. QED
    BY <1>4, <2>1, BinarySound
<1>5. QED
  BY <1>1, <1>2, <1>3, <1>4 DEF IsExp

\* A finite set is taken into a number of bits element by element.
LEMMA WrapSound ==
  ASSUME NEW v, IsWide(v), v.kind # "open", NEW u, NEW size \in Nat, 2 ^ size > 0
  PROVE  /\ IsWide(WithSignSize(v, u, size))
         /\ \A x \in Int : /\ Wrapped(x, u, size) \in Int
                           /\ Contains(v, x) => Contains(WithSignSize(v, u, size), Wrapped(x, u, size))
<1> DEFINE m == 2 ^ size
<1>1. m \in Nat /\ m > 0
  <2>1. m \in Int
    OBVIOUS
  <2>2. QED
    BY <2>1
<1>2. ASSUME NEW x \in Int PROVE Wrapped(x, u, size) \in -m .. m
  <2>1. Wrapped(x, u, size) \in {x % m, (x % m) - m}
    BY Zenon DEF Wrapped
  <2> HIDE DEF m
  <2>2. x % m \in 0 .. m - 1
    BY <1>1
  <2>3. QED
    BY <1>1, <2>1, <2>2
<1> HIDE DEF m
<1>3. CASE v = TopVs
  <2>1. WithSignSize(v, u, size) = TopVs
    BY <1>3 DEF WithSignSize, TopVs
  <2>2. QED
    BY <1>1, <1>2, <2>1, TopIsWide, ContainsKind
<1>4. ASSUME NEW S \in Bounded, v = FiniteVs(S)
      PROVE  /\ IsWide(WithSignSize(v, u, size))
             /\ \A x \in Int : /\ Wrapped(x, u, size) \in Int
                               /\ Contains(v, x) => Contains(WithSignSize(v, u, size), Wrapped(x, u, size))
  <2> DEFINE T == {Wrapped(x, u, size) : x \in S}
  <2>1. WithSignSize(v, u, size) = FiniteVs(T)
    BY <1>4, Zenon DEF WithSignSize, FiniteVs
  <2>2. T \in SUBSET (-m .. m)
    BY <1>2, BoundedIs
  <2>3. \A x \in S : Wrapped(x, u, size) \in T
    OBVIOUS
  <2> HIDE DEF T
  <2>4. T \in Bounded
    <3>1. -m .. m \in Bounded
      BY <1>1, SmallBounded
    <3>2. QED
      BY <2>2, <3>1, BoundedIs
  <2>5. QED
    BY <1>1, <1>2, <1>4, <2>1, <2>3, <2>4, FiniteIsWide, ContainsKind
<1>5. QED
  <2>1. \A dir \in Dir, k \in Int : v # OpenVs(dir, k)
    BY DEF OpenVs
  <2>2. QED
    BY <1>3, <1>4, <2>1, Kinds

\* An interval is cut off.
CutOff(e, exp) == exp.size # 0 /\ InnerVs(e, exp).kind = "open"

LEMMA ExprSound ==
  ASSUME NEW e, IsState(e), NEW exp \in Exprs, Reliable(exp), ~CutOff(e, exp)
  PROVE  /\ IsWide(QueryExpr(e, exp))
         /\ valuation \in Valuations /\ Fits(e, valuation) =>
              \A x \in ExprValues(exp) : x \in Int /\ Contains(QueryExpr(e, exp), x)
<1>1. /\ IsWide(InnerVs(e, exp))
      /\ valuation \in Valuations /\ Fits(e, valuation) =>
           \A x \in InnerValues(exp) : x \in Int /\ Contains(InnerVs(e, exp), x)
  BY InnerSound
<1>2. CASE exp.size = 0
  BY <1>1, <1>2 DEF QueryExpr, ExprValues
<1>3. CASE exp.size # 0
  <2> DEFINE v == InnerVs(e, exp)
             W == WithSignSize(v, exp.unsigned, exp.size)
  <2>1. exp.size \in Nat /\ 2 ^ exp.size > 0
    BY VsdAssumption DEF IsExp
  <2>2. v.kind # "open" /\ IsWide(v)
    BY <1>1, <1>3 DEF CutOff
  <2>3. QueryExpr(e, exp) = W
    BY <1>3 DEF QueryExpr
  <2>4. \A y \in ExprValues(exp) : \E x \in InnerValues(exp) : y = Wrapped(x, exp.unsigned, exp.size)
    BY <1>3 DEF ExprValues
  <2>5. valuation \in Valuations /\ Fits(e, valuation) =>
          \A x \in InnerValues(exp) : x \in Int /\ Contains(v, x)
    BY <1>1
  <2> HIDE DEF v
  <2>6. /\ IsWide(W)
        /\ \A x \in Int : /\ Wrapped(x, exp.unsigned, exp.size) \in Int
                          /\ Contains(v, x) => Contains(W, Wrapped(x, exp.unsigned, exp.size))
    BY <2>1, <2>2, WrapSound
  <2> HIDE DEF W
  <2>7. QED
    BY <2>3, <2>4, <2>5, <2>6
<1>4. QED
  BY <1>2, <1>3

-----------------------------------------------------------------------------
(* The equations of assume *)

\* A gives a linear expression of variables its values in w, term by term.
ChainOf(lin, A, w) ==
  /\ A \in [1 .. Len(lin.terms) + 1 -> Int]
  /\ Contains(lin.vs, A[Len(lin.terms) + 1])
  /\ \A i \in 1 .. Len(lin.terms) : A[i] = lin.terms[i].scale * w[lin.terms[i].var] + A[i + 1]

LEMMA VarsAreIds == ASSUME NEW lin, IsWideLin(lin, Var) PROVE IsWideLin(lin, Ids)
<1> DEFINE T == [scale : Int \ {0}, var : Var]
           U == [scale : Int \ {0}, var : Ids]
<1>1. T \subseteq U
  BY DEF Ids
<1>2. lin.terms \in Seq(T) /\ IsWide(lin.vs)
  BY DEF IsWideLin
<1> DEFINE ts == lin.terms
<1> HIDE DEF T, U, ts
<1>3. ts \in Seq(T)
  BY <1>2 DEF ts
<1>4. Len(ts) \in Nat /\ ts = [i \in 1 .. Len(ts) |-> ts[i]] /\ \A i \in 1 .. Len(ts) : ts[i] \in T
  BY <1>3
<1>5. \A i \in 1 .. Len(ts) : ts[i] \in U
  BY <1>1, <1>4
<1>6. ts \in Seq(U)
  BY <1>4, <1>5
<1>7. QED
  BY <1>2, <1>6 DEF ts, U, IsWideLin

LEMMA ValuesChain ==
  ASSUME NEW lin, IsWideLin(lin, Var), valuation \in Valuations, NEW x \in LinValues(lin)
  PROVE  \E A : ChainOf(lin, A, valuation) /\ A[1] = x
<1> DEFINE n == Len(lin.terms)
           ts == lin.terms
           I == 1 .. n + 1
           w == valuation
<1>1. n \in Nat /\ \A i \in 1 .. n : ts[i].scale \in Int /\ ts[i].var \in Var
  BY TermsIs
<1>2. PICK H : /\ LinValues(lin) = H[1] /\ H[n + 1] = Members(lin.vs)
               /\ \A i \in 1 .. n : H[i] = Added(ts[i], H[i + 1])
               /\ \A i \in 1 .. n + 1 : H[i] \in Numbers
  BY VarsAreIds, LinValuesIs
<1> HIDE DEF n, ts
<1> DEFINE From(A, i) == /\ A \in [I -> Int] /\ Contains(lin.vs, A[n + 1])
                         /\ \A j \in i .. n : A[j] = ts[j].scale * w[ts[j].var] + A[j + 1]
           P == {i \in I : \A y \in H[i] : \E A : From(A, i) /\ A[i] = y}
<1>3. n + 1 \in P
  <2>1. ASSUME NEW y \in H[n + 1] PROVE \E A : From(A, n + 1) /\ A[n + 1] = y
    <3> DEFINE A == [j \in I |-> y]
    <3>1. y \in Int /\ Contains(lin.vs, y)
      BY <1>1, <1>2 DEF Members, Numbers
    <3>2. A \in [I -> Int] /\ A[n + 1] = y
      BY <1>1, <3>1
    <3>3. n + 1 .. n = {}
      BY <1>1
    <3> HIDE DEF A
    <3>4. From(A, n + 1)
      BY <3>1, <3>2, <3>3
    <3> HIDE DEF From
    <3>5. QED
      BY <3>2, <3>4
  <2>2. n + 1 \in I
    BY <1>1
  <2> HIDE DEF From
  <2>3. QED
    BY <2>1, <2>2
<1>4. ASSUME NEW i \in 1 .. n, i + 1 \in P PROVE i \in P
  <2>1. ASSUME NEW y \in H[i] PROVE \E A : From(A, i) /\ A[i] = y
    <3>1. PICK z \in ValuesOf(ts[i].var), r \in H[i + 1] : y = ts[i].scale * z + r
      BY <1>2, <2>1 DEF Added
    <3>2. z = w[ts[i].var]
      <4>1. ts[i].var \in Var /\ ts[i].var \in Ids
        BY <1>1 DEF Ids
      <4>2. QED
        BY <3>1, <4>1, ValuesIs
    <3>3. PICK B : From(B, i + 1) /\ B[i + 1] = r
      <4> HIDE DEF From
      <4>1. QED
        BY <1>4, <3>1
    <3> DEFINE A == [B EXCEPT ![i] = y]
    <3>4. y \in Int
      BY <1>1, <1>2, <2>1 DEF Numbers
    <3>5. i \in I /\ i + 1 \in I /\ n + 1 \in I /\ i # n + 1 /\ i # i + 1
      BY <1>1
    <3>6. A \in [I -> Int] /\ A[i] = y /\ \A j \in I \ {i} : A[j] = B[j]
      BY <3>3, <3>4, <3>5
    <3>7. ASSUME NEW j \in i .. n PROVE A[j] = ts[j].scale * w[ts[j].var] + A[j + 1]
      <4>1. j \in I /\ j + 1 \in I /\ j + 1 # i /\ (j # i => j \in i + 1 .. n)
        BY <1>1
      <4>2. A[j + 1] = B[j + 1]
        BY <3>6, <4>1
      <4> HIDE DEF A
      <4>3. CASE j = i
        BY <3>1, <3>2, <3>3, <3>6, <4>2, <4>3
      <4>4. CASE j # i
        BY <3>3, <3>6, <4>1, <4>2, <4>4
      <4>5. QED
        BY <4>3, <4>4
    <3> HIDE DEF A
    <3>8. From(A, i)
      BY <3>3, <3>5, <3>6, <3>7
    <3> HIDE DEF From
    <3>9. QED
      BY <3>6, <3>8
  <2>2. i \in I
    BY <1>1
  <2> HIDE DEF From
  <2>3. QED
    BY <2>1, <2>2
<1>5. 1 \in P
  <2>1. \A i \in 1 .. n + 1 : i \in P
    <3> HIDE DEF P
    <3> QED BY <1>1, <1>3, <1>4, Downward
  <2>2. 1 \in 1 .. n + 1
    BY <1>1
  <2> HIDE DEF P
  <2>3. QED
    BY <2>1, <2>2
<1>6. PICK A : From(A, 1) /\ A[1] = x
  <2> HIDE DEF From
  <2> QED BY <1>2, <1>5
<1>7. ChainOf(lin, A, valuation)
  BY <1>6 DEF ChainOf, n, ts
<1>8. QED
  BY <1>6, <1>7

\* A state that fits the valuation has the value of each chain.
LEMMA ChainContained ==
  ASSUME NEW e, IsState(e), NEW w \in Valuations, Fits(e, w),
         NEW lin, IsWideLin(lin, Var), NEW A, ChainOf(lin, A, w)
  PROVE  Contains(QueryLin(e, lin), A[1]) /\ IsWide(QueryLin(e, lin)) /\ A[1] \in Int
<1> DEFINE n == Len(lin.terms)
           ts == lin.terms
<1>1. n \in Nat /\ \A i \in 1 .. n : ts[i].scale \in Int /\ ts[i].var \in Var
  BY TermsIs
<1>2. PICK G : /\ QueryLin(e, lin) = G[1] /\ G[n + 1] = lin.vs
               /\ \A i \in 1 .. n :
                    G[i] = AddVs(MulVs(Single(ts[i].scale), QueryVar(e, ts[i].var)), G[i + 1])
               /\ \A i \in 1 .. n + 1 : IsWide(G[i])
  BY VarsAreIds, QueryLinIs
<1>3. /\ A \in [1 .. n + 1 -> Int] /\ Contains(lin.vs, A[n + 1])
      /\ \A i \in 1 .. n : A[i] = ts[i].scale * w[ts[i].var] + A[i + 1]
  BY DEF ChainOf
<1> DEFINE P == {i \in 1 .. n + 1 : Contains(G[i], A[i])}
<1> HIDE DEF n, ts
<1>4. n + 1 \in P
  BY <1>1, <1>2, <1>3
<1>5. ASSUME NEW i \in 1 .. n, i + 1 \in P PROVE i \in P
  <2> DEFINE v == ts[i].var
             s == ts[i].scale
             q == MulVs(Single(s), QueryVar(e, v))
  <2>1. i \in 1 .. n + 1 /\ i + 1 \in 1 .. n + 1 /\ A[i + 1] \in Int
    BY <1>1, <1>3
  <2>2. v \in Var /\ v \in Ids /\ s \in Int
    BY <1>1 DEF Ids
  <2>3. w[v] \in Int
    BY <2>2, VsdAssumption, ValueSetIsWide DEF Valuations
  <2> HIDE DEF v, s
  <2>4. Contains(QueryVar(e, v), w[v]) /\ IsWide(QueryVar(e, v))
    <3>1. Contains(Lookup(e, v), w[v])
      BY ContainsKind DEF Lookup, Fits
    <3>2. QED
      BY <2>2, <3>1, QueryVarOfVar, QueryVarIs
  <2>5. IsWide(Single(s)) /\ Contains(Single(s), s)
    BY <2>2, SingleIsWide, ContainsKind DEF Single
  <2>6. Contains(q, s * w[v]) /\ IsWide(q) /\ s * w[v] \in Int
    BY <2>2, <2>3, <2>4, <2>5, MulSound, MulWide
  <2> HIDE DEF q
  <2>7. Contains(AddVs(q, G[i + 1]), s * w[v] + A[i + 1])
    BY <1>2, <1>5, <2>1, <2>6, AddSound
  <2>8. QED
    BY <1>2, <1>3, <2>1, <2>7 DEF q, v, s
<1>6. \A i \in 1 .. n + 1 : i \in P
  <2> HIDE DEF P
  <2> QED BY <1>1, <1>4, <1>5, Downward
<1>7. 1 \in 1 .. n + 1
  BY <1>1
<1>8. Contains(G[1], A[1]) /\ IsWide(G[1]) /\ A[1] \in Int
  BY <1>2, <1>3, <1>6, <1>7
<1>9. QED
  BY <1>2, <1>8

\* A sequence without one of its elements.
LEMMA RemoveAtIs ==
  ASSUME NEW T, NEW s \in Seq(T), NEW i \in 1 .. Len(s)
  PROVE  /\ (Sq!RemoveAt(s, i)) \in Seq(T) /\ Len(Sq!RemoveAt(s, i)) = Len(s) - 1
         /\ \A m \in 1 .. Len(s) - 1 : (Sq!RemoveAt(s, i))[m] = IF m < i THEN s[m] ELSE s[m + 1]
<1> DEFINE a == SubSeq(s, 1, i - 1)
           b == SubSeq(s, i + 1, Len(s))
           n == Len(s)
<1>1. n \in Nat /\ i \in Int /\ 1 <= i /\ i <= n /\ \A m \in 1 .. n : s[m] \in T
  OBVIOUS
<1>2. a \in Seq(T) /\ Len(a) = i - 1 /\ \A m \in 1 .. i - 1 : a[m] = s[m]
  OBVIOUS
<1>3. b \in Seq(T) /\ Len(b) = n - i /\ \A m \in 1 .. n - i : b[m] = s[m + i]
  OBVIOUS
<1>4. (Sq!RemoveAt(s, i)) = a \o b
  BY Zenon DEF Sq!RemoveAt
<1> HIDE DEF a, b, n
<1>5. a \o b \in Seq(T) /\ Len(a \o b) = n - 1
  <2>1. ASSUME NEW x \in Seq(T), NEW y \in Seq(T)
        PROVE  x \o y \in Seq(T) /\ Len(x \o y) = Len(x) + Len(y)
    OBVIOUS
  <2>2. a \o b \in Seq(T) /\ Len(a \o b) = Len(a) + Len(b)
    BY <1>2, <1>3, <2>1
  <2>3. (i - 1) + (n - i) = n - 1
    BY <1>1
  <2>4. QED
    BY <1>2, <1>3, <2>2, <2>3
<1>6. ASSUME NEW m \in 1 .. n - 1 PROVE (a \o b)[m] = IF m < i THEN s[m] ELSE s[m + 1]
  <2>1. CASE m < i
    <3>1. m \in 1 .. Len(a)
      BY <1>1, <1>2, <2>1
    <3>2. (a \o b)[m] = a[m]
      BY <1>2, <1>3, <3>1
    <3>3. QED
      BY <1>2, <2>1, <3>1, <3>2
  <2>2. CASE m >= i
    <3>1. m \in Len(a) + 1 .. Len(a) + Len(b) /\ m - Len(a) = m + 1 - i /\ m + 1 - i \in 1 .. n - i
      BY <1>1, <1>2, <1>3, <2>2
    <3>2. (a \o b)[m] = b[m - Len(a)]
      BY <1>2, <1>3, <3>1
    <3>3. (m + 1 - i) + i = m + 1 /\ ~(m < i)
      BY <1>1, <2>2
    <3>4. b[m + 1 - i] = s[(m + 1 - i) + i]
      BY <1>3, <3>1
    <3>5. QED
      BY <3>1, <3>2, <3>3, <3>4
  <2>3. m < i \/ m >= i
    BY <1>1
  <2>4. QED
    BY <2>1, <2>2, <2>3
<1>7. QED
  BY <1>4, <1>5, <1>6 DEF n

LEMMA NegatedIs ==
  ASSUME NEW lin, IsWideLin(lin, Var)
  PROVE  /\ IsWideLin(NegatedLin(lin), Var)
         /\ Len(NegatedLin(lin).terms) = Len(lin.terms)
         /\ NegatedLin(lin) = [terms |-> NegatedLin(lin).terms, vs |-> NegVs(lin.vs)]
         /\ \A i \in 1 .. Len(lin.terms) :
              /\ NegatedLin(lin).terms[i].scale = -lin.terms[i].scale
              /\ NegatedLin(lin).terms[i].var = lin.terms[i].var
<1> DEFINE T == [scale : Int \ {0}, var : Var]
           ts == lin.terms
           ns == [i \in DOMAIN ts |-> [ts[i] EXCEPT !.scale = -@]]
<1>1. NegatedLin(lin) = [terms |-> ns, vs |-> NegVs(lin.vs)]
  BY DEF NegatedLin
<1>2. ts \in Seq(T) /\ IsWide(NegVs(lin.vs))
  BY NegValueSet DEF IsWideLin
<1>3. Len(ts) \in Nat /\ DOMAIN ts = 1 .. Len(ts) /\ \A i \in 1 .. Len(ts) : ts[i] \in T
  <2> HIDE DEF T, ts
  <2> QED BY <1>2
<1>4. ASSUME NEW t \in T
      PROVE  /\ [t EXCEPT !.scale = -@] \in T
             /\ [t EXCEPT !.scale = -@].scale = -t.scale /\ [t EXCEPT !.scale = -@].var = t.var
  OBVIOUS
<1>5. ns \in Seq(T) /\ Len(ns) = Len(ts) /\ \A i \in 1 .. Len(ts) : ns[i].scale = -ts[i].scale /\ ns[i].var = ts[i].var
  <2>1. \A i \in 1 .. Len(ts) : ns[i] = [ts[i] EXCEPT !.scale = -@]
    BY <1>3
  <2>2. ns = [i \in 1 .. Len(ts) |-> ns[i]]
    BY <1>3
  <2> HIDE DEF ns, T, ts
  <2>3. \A i \in 1 .. Len(ts) : ns[i] \in T /\ ns[i].scale = -ts[i].scale /\ ns[i].var = ts[i].var
    BY <1>3, <1>4, <2>1
  <2>4. ns \in Seq(T) /\ Len(ns) = Len(ts)
    BY <1>3, <2>2, <2>3
  <2>5. QED
    BY <2>3, <2>4
<1> HIDE DEF ns, T
<1>6. NegatedLin(lin).terms = ns /\ NegatedLin(lin).vs = NegVs(lin.vs)
  BY <1>1
<1>7. IsWideLin(NegatedLin(lin), Var)
  BY <1>2, <1>5, <1>6 DEF IsWideLin, T
<1>8. QED
  BY <1>1, <1>5, <1>6, <1>7

LEMMA NegChain ==
  ASSUME NEW lin, IsWideLin(lin, Var), NEW w \in Valuations, NEW A, ChainOf(lin, A, w)
  PROVE  ChainOf(NegatedLin(lin), [j \in 1 .. Len(lin.terms) + 1 |-> -A[j]], w)
<1> DEFINE n == Len(lin.terms)
           ts == lin.terms
           neg == NegatedLin(lin)
           B == [j \in 1 .. n + 1 |-> -A[j]]
<1>1. n \in Nat /\ \A i \in 1 .. n : ts[i].scale \in Int /\ ts[i].var \in Var
  BY TermsIs
<1>2. /\ A \in [1 .. n + 1 -> Int] /\ Contains(lin.vs, A[n + 1])
      /\ \A i \in 1 .. n : A[i] = ts[i].scale * w[ts[i].var] + A[i + 1]
  BY DEF ChainOf
<1>3. /\ Len(neg.terms) = n /\ neg.vs = NegVs(lin.vs)
      /\ \A i \in 1 .. n : neg.terms[i].scale = -ts[i].scale /\ neg.terms[i].var = ts[i].var
  BY NegatedIs
<1>4. IsWide(lin.vs)
  BY DEF IsWideLin
<1> HIDE DEF n, ts, neg
<1>5. B \in [1 .. n + 1 -> Int] /\ \A j \in 1 .. n + 1 : B[j] = -A[j] /\ A[j] \in Int
  BY <1>2
<1>6. n + 1 \in 1 .. n + 1
  BY <1>1
<1> HIDE DEF B
<1>7. Contains(neg.vs, B[n + 1])
  BY <1>2, <1>3, <1>4, <1>5, <1>6, NegSound
<1>8. ASSUME NEW i \in 1 .. n PROVE B[i] = neg.terms[i].scale * w[neg.terms[i].var] + B[i + 1]
  <2>1. i \in 1 .. n + 1 /\ i + 1 \in 1 .. n + 1
    BY <1>1
  <2>2. w[ts[i].var] \in Int /\ ts[i].scale \in Int
    BY <1>1, VsdAssumption, ValueSetIsWide DEF Valuations
  <2> DEFINE s == ts[i].scale
             x == w[ts[i].var]
  <2>3. A[i] = s * x + A[i + 1] /\ A[i] \in Int /\ A[i + 1] \in Int /\ B[i] = -A[i] /\ B[i + 1] = -A[i + 1]
    BY <1>2, <1>5, <2>1
  <2> HIDE DEF s, x
  <2>4. (-s) * x = -(s * x) /\ s * x \in Int
    BY <2>2 DEF s, x
  <2>5. B[i] = (-s) * x + B[i + 1]
    BY <2>3, <2>4
  <2>6. QED
    BY <1>3, <2>5 DEF s, x
<1>9. ChainOf(neg, B, w)
  BY <1>3, <1>5, <1>7, <1>8 DEF ChainOf
<1>10. QED
  BY <1>9 DEF n, neg, B

\* A chain is moved by what is added to the number.
LEMMA ShiftChain ==
  ASSUME NEW lin, IsWideLin(lin, Var), lin = [terms |-> lin.terms, vs |-> lin.vs], NEW w \in Valuations,
         NEW A, ChainOf(lin, A, w), NEW dir \in Dir, NEW k \in Int, Contains(OpenVs(dir, k), -A[1])
  PROVE  \E B : ChainOf(AddToLin(lin, OpenVs(dir, k)), B, w) /\ B[1] = 0
<1> DEFINE n == Len(lin.terms)
           ts == lin.terms
           moved == AddToLin(lin, OpenVs(dir, k))
           B == [j \in 1 .. n + 1 |-> A[j] - A[1]]
<1>1. n \in Nat /\ \A i \in 1 .. n : ts[i].scale \in Int /\ ts[i].var \in Var
  BY TermsIs
<1>2. /\ A \in [1 .. n + 1 -> Int] /\ Contains(lin.vs, A[n + 1])
      /\ \A i \in 1 .. n : A[i] = ts[i].scale * w[ts[i].var] + A[i + 1]
  BY DEF ChainOf
<1>3. moved.terms = ts /\ moved.vs = AddVs(OpenVs(dir, k), lin.vs)
  BY DEF AddToLin
<1>4. IsWide(lin.vs) /\ IsWide(OpenVs(dir, k))
  BY OpenIsWide DEF IsWideLin
<1> HIDE DEF n, ts, moved
<1>5. 1 \in 1 .. n + 1 /\ n + 1 \in 1 .. n + 1
  BY <1>1
<1>6. B \in [1 .. n + 1 -> Int] /\ \A j \in 1 .. n + 1 : B[j] = A[j] - A[1] /\ A[j] \in Int
  BY <1>2, <1>5
<1> HIDE DEF B
<1>7. Contains(moved.vs, B[n + 1])
  <2>1. Contains(AddVs(OpenVs(dir, k), lin.vs), -A[1] + A[n + 1])
    <3>1. A[1] \in Int /\ A[n + 1] \in Int /\ -A[1] \in Int
      BY <1>5, <1>6
    <3>2. QED
      BY <1>2, <1>4, <3>1, AddSound
  <2>2. -A[1] + A[n + 1] = B[n + 1]
    BY <1>5, <1>6
  <2>3. QED
    BY <1>3, <2>1, <2>2
<1>8. ASSUME NEW i \in 1 .. n PROVE B[i] = ts[i].scale * w[ts[i].var] + B[i + 1]
  <2>1. i \in 1 .. n + 1 /\ i + 1 \in 1 .. n + 1
    BY <1>1
  <2>2. w[ts[i].var] \in Int /\ ts[i].scale \in Int
    BY <1>1, VsdAssumption, ValueSetIsWide DEF Valuations
  <2> DEFINE y == ts[i].scale * w[ts[i].var]
  <2>3. y \in Int
    BY <2>2
  <2> HIDE DEF y
  <2>4. A[i] = y + A[i + 1]
    BY <1>2 DEF y
  <2>5. /\ B[i] = A[i] - A[1] /\ B[i + 1] = A[i + 1] - A[1]
        /\ A[1] \in Int /\ A[i + 1] \in Int
    BY <1>5, <1>6, <2>1
  <2>6. (y + A[i + 1]) - A[1] = y + (A[i + 1] - A[1])
    BY <2>3, <2>5
  <2>7. B[i] = y + B[i + 1]
    BY <2>4, <2>5, <2>6
  <2>8. QED
    BY <2>7 DEF y
<1>9. B[1] = 0
  BY <1>5, <1>6
<1>10. ChainOf(moved, B, w)
  BY <1>3, <1>6, <1>7, <1>8 DEF ChainOf, n, ts
<1>11. QED
  BY <1>9, <1>10 DEF moved

\* An equation of a condition.
IsEquation(lin, cmp) ==
  /\ IsWideLin(lin, Var) /\ Len(lin.terms) = Len(cmp.opnd.terms)
  /\ \A i \in 1 .. Len(cmp.opnd.terms) : lin.terms[i].var = cmp.opnd.terms[i].var

LEMMA PlusIs ==
  ASSUME NEW lin, IsWideLin(lin, Var), lin = [terms |-> lin.terms, vs |-> lin.vs],
         NEW dir \in Dir, NEW k \in Int
  PROVE  IsWideLin(AddToLin(lin, OpenVs(dir, k)), Var) /\ AddToLin(lin, OpenVs(dir, k)).terms = lin.terms
<1>1. /\ AddToLin(lin, OpenVs(dir, k)).terms = lin.terms
      /\ AddToLin(lin, OpenVs(dir, k)).vs = AddVs(OpenVs(dir, k), lin.vs)
  BY DEF AddToLin
<1>2. IsWide(AddVs(OpenVs(dir, k), lin.vs))
  BY OpenIsWide, AddWide DEF IsWideLin
<1>3. QED
  BY <1>1, <1>2 DEF IsWideLin

LEMMA EquationsOf ==
  ASSUME NEW cmp \in Cmps
  PROVE  /\ cmp.op = "EQ" => Equations(cmp) = <<cmp.opnd>>
         /\ cmp.op = "NEQ" => Equations(cmp) = <<AddToLin(cmp.opnd, OpenVs("UPWARD", 1)),
                                                AddToLin(NegatedLin(cmp.opnd), OpenVs("UPWARD", 1))>>
         /\ cmp.op = "LE" => Equations(cmp) = <<AddToLin(cmp.opnd, OpenVs("UPWARD", 0))>>
         /\ cmp.op = "LT" => Equations(cmp) = <<AddToLin(cmp.opnd, OpenVs("UPWARD", 1))>>
         /\ cmp.op = "GE" => Equations(cmp) = <<AddToLin(cmp.opnd, OpenVs("DOWNWARD", 0))>>
         /\ cmp.op = "GT" => Equations(cmp) = <<AddToLin(cmp.opnd, OpenVs("DOWNWARD", -1))>>
         /\ cmp.op \in {"LE", "LT", "GE", "GT", "EQ", "NEQ"}
<1>1. cmp.op \in {"LE", "LT", "GE", "GT", "EQ", "NEQ"}
  BY VsdAssumption DEF CmpOps
<1>2. CASE cmp.op = "EQ"
  BY <1>2 DEF Equations
<1>3. CASE cmp.op = "NEQ"
  BY <1>3 DEF Equations
<1>4. CASE cmp.op = "LE"
  BY <1>4 DEF Equations
<1>5. CASE cmp.op = "LT"
  BY <1>5 DEF Equations
<1>6. CASE cmp.op = "GE"
  BY <1>6 DEF Equations
<1>7. CASE cmp.op = "GT"
  BY <1>7 DEF Equations
<1>8. QED
  BY <1>1, <1>2, <1>3, <1>4, <1>5, <1>6, <1>7

LEMMA OpndIs ==
  ASSUME NEW cmp \in Cmps
  PROVE  /\ IsWideLin(cmp.opnd, Var) /\ cmp.opnd = [terms |-> cmp.opnd.terms, vs |-> cmp.opnd.vs]
         /\ IsWideLin(NegatedLin(cmp.opnd), Var)
         /\ NegatedLin(cmp.opnd) = [terms |-> NegatedLin(cmp.opnd).terms, vs |-> NegatedLin(cmp.opnd).vs]
         /\ Len(NegatedLin(cmp.opnd).terms) = Len(cmp.opnd.terms)
         /\ \A i \in 1 .. Len(cmp.opnd.terms) : NegatedLin(cmp.opnd).terms[i].var = cmp.opnd.terms[i].var
<1>1. IsLin(cmp.opnd, Var)
  BY VsdAssumption
<1>2. IsWideLin(cmp.opnd, Var)
  BY <1>1, LinIsWide
<1>3. NegatedLin(cmp.opnd) = [terms |-> NegatedLin(cmp.opnd).terms, vs |-> NegatedLin(cmp.opnd).vs]
  BY DEF NegatedLin
<1>4. QED
  BY <1>1, <1>2, <1>3, NegatedIs DEF IsLin

LEMMA EquationsWide ==
  ASSUME NEW cmp \in Cmps
  PROVE  /\ Len(Equations(cmp)) \in Nat /\ DOMAIN Equations(cmp) = 1 .. Len(Equations(cmp))
         /\ \A k \in DOMAIN Equations(cmp) : IsEquation(Equations(cmp)[k], cmp)
<1> DEFINE neg == NegatedLin(cmp.opnd)
           plus(dir, k) == AddToLin(cmp.opnd, OpenVs(dir, k))
           other == AddToLin(neg, OpenVs("UPWARD", 1))
<1>0. /\ IsWideLin(neg, Var) /\ neg = [terms |-> neg.terms, vs |-> neg.vs] /\ Len(neg.terms) = Len(cmp.opnd.terms)
      /\ \A i \in 1 .. Len(cmp.opnd.terms) : neg.terms[i].var = cmp.opnd.terms[i].var
  BY OpndIs
<1>1. IsEquation(cmp.opnd, cmp)
  BY OpndIs DEF IsEquation
<1>2. \A dir \in Dir, k \in Int : IsEquation(plus(dir, k), cmp)
  BY OpndIs, PlusIs DEF IsEquation
<1>3. IsEquation(other, cmp)
  <2> HIDE DEF neg
  <2>1. "UPWARD" \in Dir /\ 1 \in Int
    BY DEF Dir
  <2>2. IsWideLin(other, Var) /\ other.terms = neg.terms
    BY <1>0, <2>1, PlusIs
  <2>3. QED
    BY <1>0, <2>2 DEF IsEquation
<1> HIDE DEF neg, plus, other
<1>4. \E a, b : /\ Equations(cmp) \in {<<a>>, <<a, b>>} /\ IsEquation(a, cmp) /\ IsEquation(b, cmp)
  <2>1. IsEquation(plus("UPWARD", 0), cmp) /\ IsEquation(plus("UPWARD", 1), cmp)
        /\ IsEquation(plus("DOWNWARD", 0), cmp) /\ IsEquation(plus("DOWNWARD", -1), cmp)
    BY <1>2 DEF Dir
  <2>2. QED
    BY <1>1, <1>3, <2>1, EquationsOf DEF plus, other, neg
<1>5. QED
  BY <1>4

\* When a condition holds, the sum of one of its equations is zero.
LEMMA EquationZero ==
  ASSUME NEW cmp \in Cmps, NEW w \in Valuations, NEW A, ChainOf(cmp.opnd, A, w), Holds(A[1], cmp.op)
  PROVE  \E k \in DOMAIN Equations(cmp) : \E B : ChainOf(Equations(cmp)[k], B, w) /\ B[1] = 0
<1> DEFINE z == A[1]
           lin == cmp.opnd
           neg == NegatedLin(cmp.opnd)
<1>1. IsWideLin(lin, Var) /\ IsWideLin(neg, Var) /\ Len(lin.terms) \in Nat
  BY OpndIs, TermsIs
<1>2. z \in Int
  BY <1>1 DEF ChainOf
<1>3. ASSUME NEW dir \in Dir, NEW k \in Int, Contains(OpenVs(dir, k), -z)
      PROVE  \E B : ChainOf(AddToLin(lin, OpenVs(dir, k)), B, w) /\ B[1] = 0
  <2>1. lin = [terms |-> lin.terms, vs |-> lin.vs]
    BY OpndIs
  <2>2. ChainOf(lin, A, w)
    OBVIOUS
  <2> HIDE DEF lin, z
  <2>3. Contains(OpenVs(dir, k), -A[1])
    BY <1>3 DEF z
  <2>4. QED
    BY <1>1, <2>1, <2>2, <2>3, ShiftChain
<1>4. CASE cmp.op = "EQ"
  BY <1>4, EquationsOf DEF Holds
<1>5. CASE cmp.op = "LE"
  <2>1. Contains(OpenVs("UPWARD", 0), -z)
    BY <1>2, <1>5, ContainsKind DEF Holds
  <2>2. QED
    BY <1>3, <1>5, <2>1, EquationsOf DEF Dir
<1>6. CASE cmp.op = "LT"
  <2>1. Contains(OpenVs("UPWARD", 1), -z)
    BY <1>2, <1>6, ContainsKind DEF Holds
  <2>2. QED
    BY <1>3, <1>6, <2>1, EquationsOf DEF Dir
<1>7. CASE cmp.op = "GE"
  <2>1. Contains(OpenVs("DOWNWARD", 0), -z)
    BY <1>2, <1>7, ContainsKind DEF Holds
  <2>2. QED
    BY <1>3, <1>7, <2>1, EquationsOf DEF Dir
<1>8. CASE cmp.op = "GT"
  <2>1. Contains(OpenVs("DOWNWARD", -1), -z)
    BY <1>2, <1>8, ContainsKind DEF Holds
  <2>2. QED
    BY <1>3, <1>8, <2>1, EquationsOf DEF Dir
<1>9. CASE cmp.op = "NEQ" /\ z < 0
  <2>1. Contains(OpenVs("UPWARD", 1), -z)
    BY <1>2, <1>9, ContainsKind
  <2>2. QED
    BY <1>3, <1>9, <2>1, EquationsOf DEF Dir
<1>10. CASE cmp.op = "NEQ" /\ z > 0
  <2> DEFINE C == [j \in 1 .. Len(lin.terms) + 1 |-> -A[j]]
  <2>1. ChainOf(neg, C, w)
    BY <1>1, NegChain
  <2>2. 1 \in 1 .. Len(lin.terms) + 1
    BY <1>1
  <2>3. C[1] = -z
    BY <2>2
  <2> HIDE DEF C
  <2>4. Contains(OpenVs("UPWARD", 1), -C[1])
    <3>1. -(-z) = z /\ 1 <= z
      BY <1>2, <1>10
    <3>2. QED
      BY <2>3, <3>1, ContainsKind
  <2>5. \E B : ChainOf(AddToLin(neg, OpenVs("UPWARD", 1)), B, w) /\ B[1] = 0
    <3>1. neg = [terms |-> neg.terms, vs |-> neg.vs]
      BY OpndIs
    <3>2. "UPWARD" \in Dir /\ 1 \in Int
      BY DEF Dir
    <3> HIDE DEF neg
    <3>3. QED
      BY <1>1, <2>1, <2>4, <3>1, <3>2, ShiftChain
  <2> HIDE DEF neg
  <2>6. QED
    BY <1>10, <2>5, EquationsOf DEF neg
<1>11. z < 0 \/ z > 0 \/ z = 0
  BY <1>2
<1>12. cmp.op = "NEQ" => z # 0
  BY DEF Holds
<1>13. QED
  BY <1>4, <1>5, <1>6, <1>7, <1>8, <1>9, <1>10, <1>11, <1>12, EquationsOf

\* The chain of an equation without one of its terms, the sign turned.
RestOf(lin, i) == [terms |-> Sq!RemoveAt(NegatedLin(lin).terms, i), vs |-> NegVs(lin.vs)]

LEMMA RestIs ==
  ASSUME NEW lin, IsWideLin(lin, Var), NEW i \in 1 .. Len(lin.terms)
  PROVE  /\ IsWideLin(RestOf(lin, i), Var) /\ Len(RestOf(lin, i).terms) = Len(lin.terms) - 1
         /\ RestOf(lin, i).vs = NegVs(lin.vs)
         /\ \A m \in 1 .. Len(lin.terms) - 1 :
              /\ RestOf(lin, i).terms[m].scale = -(IF m < i THEN lin.terms[m] ELSE lin.terms[m + 1]).scale
              /\ RestOf(lin, i).terms[m].var = (IF m < i THEN lin.terms[m] ELSE lin.terms[m + 1]).var
<1> DEFINE T == [scale : Int \ {0}, var : Var]
           ns == NegatedLin(lin).terms
           n == Len(lin.terms)
           rest == RestOf(lin, i)
<1>1. n \in Nat /\ IsWide(NegVs(lin.vs))
  BY TermsIs, NegValueSet DEF IsWideLin
<1>2. ns \in Seq(T) /\ Len(ns) = n
  BY NegatedIs DEF IsWideLin
<1>3. \A m \in 1 .. n : ns[m].scale = -lin.terms[m].scale /\ ns[m].var = lin.terms[m].var
  BY NegatedIs
<1>4. rest.terms = (Sq!RemoveAt(ns, i)) /\ rest.vs = NegVs(lin.vs)
  BY DEF RestOf
<1> HIDE DEF T, ns, n, rest
<1>5. i \in 1 .. Len(ns)
  BY <1>2 DEF n
<1>6. /\ rest.terms \in Seq(T) /\ Len(rest.terms) = n - 1
      /\ \A m \in 1 .. n - 1 : rest.terms[m] = IF m < i THEN ns[m] ELSE ns[m + 1]
  BY <1>2, <1>4, <1>5, RemoveAtIs
<1>7. IsWideLin(rest, Var)
  BY <1>1, <1>4, <1>6 DEF IsWideLin, T
<1>8. ASSUME NEW m \in 1 .. n - 1
      PROVE  /\ rest.terms[m].scale = -(IF m < i THEN lin.terms[m] ELSE lin.terms[m + 1]).scale
             /\ rest.terms[m].var = (IF m < i THEN lin.terms[m] ELSE lin.terms[m + 1]).var
  <2>1. m \in 1 .. n /\ m + 1 \in 1 .. n
    BY <1>1
  <2>2. CASE m < i
    BY <1>3, <1>6, <2>1, <2>2
  <2>3. CASE ~(m < i)
    BY <1>3, <1>6, <2>1, <2>3
  <2>4. QED
    BY <2>2, <2>3
<1>9. QED
  BY <1>4, <1>6, <1>7, <1>8 DEF n, rest

LEMMA RestChain ==
  ASSUME NEW lin, IsWideLin(lin, Var), NEW i \in 1 .. Len(lin.terms), NEW w \in Valuations,
         NEW B, ChainOf(lin, B, w), B[1] = 0
  PROVE  \E C : ChainOf(RestOf(lin, i), C, w) /\ C[1] = lin.terms[i].scale * w[lin.terms[i].var]
<1> DEFINE n == Len(lin.terms)
           ts == lin.terms
           rest == RestOf(lin, i)
           p == ts[i].scale * w[ts[i].var]
           C == [m \in 1 .. n |-> IF m < i + 1 THEN p - B[m] ELSE -B[m + 1]]
<1>1. n \in Nat /\ \A m \in 1 .. n : ts[m].scale \in Int /\ ts[m].var \in Var
  BY TermsIs
<1>2. /\ B \in [1 .. n + 1 -> Int] /\ Contains(lin.vs, B[n + 1])
      /\ \A m \in 1 .. n : B[m] = ts[m].scale * w[ts[m].var] + B[m + 1]
  BY DEF ChainOf
<1>3. /\ Len(rest.terms) = n - 1 /\ rest.vs = NegVs(lin.vs)
      /\ \A m \in 1 .. n - 1 : /\ rest.terms[m].scale = -(IF m < i THEN ts[m] ELSE ts[m + 1]).scale
                               /\ rest.terms[m].var = (IF m < i THEN ts[m] ELSE ts[m + 1]).var
  BY RestIs
<1>4. IsWide(lin.vs)
  BY DEF IsWideLin
<1>5. i \in 1 .. n
  OBVIOUS
<1>6. \A m \in 1 .. n : w[ts[m].var] \in Int /\ ts[m].scale * w[ts[m].var] \in Int
  <2>1. ASSUME NEW m \in 1 .. n PROVE w[ts[m].var] \in Int /\ ts[m].scale \in Int
    BY <1>1, VsdAssumption, ValueSetIsWide DEF Valuations
  <2>2. QED
    BY <2>1
<1> HIDE DEF n, ts, rest
<1>7. p \in Int /\ B[i] = p + B[i + 1] /\ \A m \in 1 .. n + 1 : B[m] \in Int
  BY <1>2, <1>5, <1>6
<1>8. /\ \A q, r \in Int : (-q) * r = -(q * r)
      /\ \A a, b, z \in Int : a = z + b => p - a = -z + (p - b) /\ -a = -z + (-b)
  <2>1. \A q, r \in Int : (-q) * r = -(q * r)
    OBVIOUS
  <2>2. ASSUME NEW a \in Int, NEW b \in Int, NEW z \in Int, a = z + b
        PROVE  p - a = -z + (p - b) /\ -a = -z + (-b)
    BY <1>7, <2>2
  <2>3. QED
    BY <2>1, <2>2
<1> HIDE DEF p
<1>9. n >= 1 /\ 1 \in 1 .. n /\ i \in Int /\ 1 <= i /\ i <= n
  BY <1>1, <1>5
<1>10. /\ C \in [1 .. n -> Int]
       /\ \A m \in 1 .. n : m <= i => C[m] = p - B[m]
       /\ \A m \in 1 .. n : m >= i => C[m] = -B[m + 1]
  <2>1. ASSUME NEW m \in 1 .. n
        PROVE  /\ m \in 1 .. n + 1 /\ m + 1 \in 1 .. n + 1
               /\ C[m] = IF m < i + 1 THEN p - B[m] ELSE -B[m + 1]
               /\ p - B[m] \in Int /\ -B[m + 1] \in Int
    BY <1>1, <1>7
  <2>2. C = [m \in 1 .. n |-> C[m]]
    OBVIOUS
  <2> HIDE DEF C
  <2>3. ASSUME NEW m \in 1 .. n PROVE C[m] \in Int /\ (m <= i => C[m] = p - B[m])
    BY <1>9, <2>1
  <2>4. ASSUME NEW m \in 1 .. n, m >= i PROVE C[m] = -B[m + 1]
    <3>1. CASE m = i
      <4>1. C[m] = p - B[m] /\ B[m] = p + B[m + 1] /\ B[m + 1] \in Int
        BY <1>7, <2>1, <2>3, <3>1, <1>9
      <4>2. QED
        BY <1>7, <4>1
    <3>2. CASE m > i
      BY <1>9, <2>1, <3>2
    <3>3. QED
      BY <1>9, <2>4, <3>1, <3>2
  <2>5. QED
    BY <2>2, <2>3, <2>4
<1> HIDE DEF C
<1>11. C[1] = p
  <2>1. C[1] = p - B[1]
    BY <1>9, <1>10
  <2>2. QED
    BY <1>7, <2>1
<1>12. Contains(rest.vs, C[n])
  <2>0. n \in 1 .. n /\ n >= i /\ n + 1 \in 1 .. n + 1
    BY <1>1, <1>9
  <2>1. C[n] = -B[n + 1] /\ B[n + 1] \in Int
    BY <1>7, <1>10, <2>0
  <2>2. QED
    BY <1>2, <1>3, <1>4, <2>1, NegSound
<1>13. ASSUME NEW m \in 1 .. n - 1 PROVE C[m] = rest.terms[m].scale * w[rest.terms[m].var] + C[m + 1]
  <2>1. m \in 1 .. n /\ m + 1 \in 1 .. n /\ m \in 1 .. n + 1 /\ m + 1 \in 1 .. n + 1 /\ (m + 1) + 1 \in 1 .. n + 1
    BY <1>1
  <2>2. CASE m < i
    <3> DEFINE q == ts[m].scale
               r == w[ts[m].var]
               z == q * r
    <3>1. q \in Int /\ r \in Int /\ z \in Int /\ B[m] \in Int /\ B[m + 1] \in Int /\ B[m] = z + B[m + 1]
      BY <1>1, <1>2, <1>6, <1>7, <2>1
    <3>2. rest.terms[m].scale = -q /\ rest.terms[m].var = ts[m].var
      BY <1>3, <2>2
    <3>3. m <= i /\ m + 1 <= i
      BY <1>9, <2>2
    <3>4. C[m] = p - B[m] /\ C[m + 1] = p - B[m + 1]
      BY <1>10, <2>1, <3>3
    <3> HIDE DEF q, z
    <3>5. (-q) * r = -z
      BY <1>8, <3>1 DEF z
    <3>6. p - B[m] = -z + (p - B[m + 1])
      BY <1>8, <3>1
    <3>7. QED
      BY <3>2, <3>4, <3>5, <3>6
  <2>3. CASE ~(m < i)
    <3> DEFINE q == ts[m + 1].scale
               r == w[ts[m + 1].var]
               z == q * r
    <3>1. /\ q \in Int /\ r \in Int /\ z \in Int /\ B[m + 1] \in Int /\ B[(m + 1) + 1] \in Int
          /\ B[m + 1] = z + B[(m + 1) + 1]
      BY <1>1, <1>2, <1>6, <1>7, <2>1
    <3>2. rest.terms[m].scale = -q /\ rest.terms[m].var = ts[m + 1].var
      BY <1>3, <2>3
    <3>3. m >= i /\ m + 1 >= i
      BY <1>9, <2>3
    <3>4. C[m] = -B[m + 1] /\ C[m + 1] = -B[(m + 1) + 1]
      BY <1>10, <2>1, <3>3
    <3> HIDE DEF q, z
    <3>5. (-q) * r = -z
      BY <1>8, <3>1 DEF z
    <3>6. -B[m + 1] = -z + (-B[(m + 1) + 1])
      <4> DEFINE a == B[m + 1]
                 b == B[(m + 1) + 1]
      <4>1. a \in Int /\ b \in Int /\ z \in Int /\ a = z + b
        BY <3>1
      <4> HIDE DEF a, b
      <4>2. -a = -z + (-b)
        BY <1>8, <4>1
      <4>3. QED
        BY <4>2 DEF a, b
    <3>7. QED
      BY <3>2, <3>4, <3>5, <3>6
  <2>4. QED
    BY <2>2, <2>3
<1>14. (n - 1) + 1 = n
  BY <1>1
<1>15. ChainOf(rest, C, w)
  BY <1>3, <1>10, <1>12, <1>13, <1>14 DEF ChainOf
<1>16. QED
  BY <1>11, <1>15 DEF p, rest, ts

\* An equation solved for a variable has the value of the variable.
LEMMA SolvedSound ==
  ASSUME NEW e, IsState(e), NEW lin, IsWideLin(lin, Var), NEW i \in 1 .. Len(lin.terms)
  PROVE  /\ IsWide(Solved(e, lin, i))
         /\ \A w \in Valuations : Fits(e, w) /\ (\E B : ChainOf(lin, B, w) /\ B[1] = 0) =>
              Contains(Solved(e, lin, i), w[lin.terms[i].var])
<1> DEFINE s == lin.terms[i].scale
           q == QueryLin(e, RestOf(lin, i))
<1>1. Solved(e, lin, i) = DivVs(q, Single(s))
  BY DEF Solved, RestOf
<1>2. s \in Int \ {0} /\ lin.terms[i].var \in Var
  BY TermsIs
<1>3. IsWideLin(RestOf(lin, i), Var)
  BY RestIs
<1>4. IsWide(q)
  <2> DEFINE rest == RestOf(lin, i)
  <2>1. IsWideLin(rest, Ids)
    BY <1>3, VarsAreIds
  <2> HIDE DEF rest
  <2>2. Len(rest.terms) \in Nat
    BY <2>1, TermsIs
  <2>3. 1 \in 1 .. Len(rest.terms) + 1
    BY <2>2
  <2>4. IsWide(QueryLin(e, rest))
    BY <2>1, <2>3, QueryLinIs
  <2>5. QED
    BY <2>4 DEF rest
<1> HIDE DEF s, q
<1>5. /\ IsWide(DivVs(q, Single(s)))
      /\ \A x \in Ints : Contains(q, s * x) => Contains(DivVs(q, Single(s)), x)
  BY <1>2, <1>4, DivSingle, VsdAssumption
<1>6. ASSUME NEW w \in Valuations, Fits(e, w), NEW B, ChainOf(lin, B, w), B[1] = 0
      PROVE  Contains(DivVs(q, Single(s)), w[lin.terms[i].var])
  <2>1. PICK C : ChainOf(RestOf(lin, i), C, w) /\ C[1] = s * w[lin.terms[i].var]
    BY <1>6, RestChain DEF s
  <2>2. Contains(q, C[1])
    BY <1>3, <1>6, <2>1, ChainContained DEF q
  <2>3. w[lin.terms[i].var] \in Ints
    BY <1>2 DEF Valuations
  <2>4. QED
    BY <1>5, <2>1, <2>2, <2>3
<1>7. QED
  BY <1>1, <1>5, <1>6

\* Refining a variable of a condition that holds keeps the value it has.
LEMMA RefinedSound ==
  ASSUME NEW e, IsState(e), NEW cmp \in Cmps, NEW i \in 1 .. Len(cmp.opnd.terms)
  PROVE  /\ IsWide(Refined(e, Equations(cmp), i))
         /\ \A w \in Valuations :
              /\ Fits(e, w)
              /\ \E k \in DOMAIN Equations(cmp) : \E B : ChainOf(Equations(cmp)[k], B, w) /\ B[1] = 0
              => Contains(Refined(e, Equations(cmp), i), w[cmp.opnd.terms[i].var])
<1> DEFINE lins == Equations(cmp)
           S == DOMAIN lins
           n == Len(lins)
           x == cmp.opnd.terms[i].var
           current == QueryVar(e, lins[1].terms[i].var)
           pick == [s \in SUBSET S |-> Max(s)]
           one(k) == MeetVs(current, Solved(e, lins[k], i))
           step(k, w) == JoinVs(w, one(k))
           Op == [z \in S \X Wides |-> step(z[1], z[2])]
           Body(F, s) == IF s = {} THEN BottomVs ELSE step(Sq!Max(s), F[s \ {Sq!Max(s)}])
           iter == CHOOSE F : F = [s \in SUBSET S |-> Body(F, s)]
           zero(k, w) == \E B : ChainOf(lins[k], B, w) /\ B[1] = 0
<1>1. Refined(e, lins, i) = iter[S]
  BY Zenon DEF Refined, Sq!FoldLeft, Sq!MapThenFoldSet
<1>2. n \in Nat /\ S = 1 .. n /\ \A k \in S : IsEquation(lins[k], cmp)
  BY EquationsWide
<1>3. IsWide(current) /\ current = Lookup(e, x) /\ x \in Var
  <2>1. lins[1].terms = cmp.opnd.terms /\ x \in Var
    BY EquationsIs
  <2>2. x \in Ids
    BY <2>1 DEF Ids
  <2>3. current = QueryVar(e, x)
    BY <2>1
  <2> HIDE DEF x, current
  <2>4. QED
    BY <2>1, <2>2, <2>3, QueryVarIs, QueryVarOfVar
<1> HIDE DEF lins, n, current
<1>4. ASSUME NEW k \in S
      PROVE  /\ IsWide(one(k))
             /\ \A w \in Valuations : Fits(e, w) /\ zero(k, w) => Contains(one(k), w[x])
  <2> DEFINE sol == Solved(e, lins[k], i)
  <2>1. IsWideLin(lins[k], Var) /\ i \in 1 .. Len(lins[k].terms) /\ lins[k].terms[i].var = x
    BY <1>2 DEF IsEquation
  <2>2. IsWide(sol) /\ \A w \in Valuations : Fits(e, w) /\ zero(k, w) => Contains(sol, w[x])
    BY <2>1, SolvedSound
  <2> HIDE DEF sol, zero
  <2>3. ASSUME NEW w \in Valuations, Fits(e, w), zero(k, w) PROVE Contains(MeetVs(current, sol), w[x])
    <3>1. w[x] \in Int
      BY <1>3, VsdAssumption, ValueSetIsWide DEF Valuations
    <3>2. Contains(current, w[x])
      BY <1>3, <2>3, ContainsKind DEF Lookup, Fits
    <3> DEFINE y == w[x]
    <3> HIDE DEF y
    <3>3. y \in Int /\ Contains(current, y) /\ Contains(sol, y)
      BY <2>2, <2>3, <3>1, <3>2 DEF y
    <3>4. Contains(MeetVs(current, sol), y)
      BY <1>3, <2>2, <3>3, MeetSound
    <3>5. QED
      BY <3>4 DEF y
  <2>4. IsWide(MeetVs(current, sol))
    BY <1>3, <2>2, MeetWide
  <2>5. QED
    BY <2>3, <2>4 DEF sol
<1> HIDE DEF one, zero
<1>5. IsFiniteSet(S) /\ Picks(pick, S)
  <2>2. IsFiniteSet(1 .. n)
    BY <1>2, FS_Interval
  <2>3. IsFiniteSet(S)
    BY <1>2, <2>2
  <2>4. Picks([s \in SUBSET (1 .. n) |-> Max(s)], 1 .. n)
    BY <1>2, MaxPicks
  <2>5. S = 1 .. n
    BY <1>2
  <2> HIDE DEF S
  <2>6. QED
    BY <2>3, <2>4, <2>5
<1>6. BottomVs \in Wides /\ \A k \in S, v \in Wides : step(k, v) \in Wides
  <2>1. ASSUME NEW k \in S, NEW v \in Wides PROVE step(k, v) \in Wides
    <3>1. IsWide(one(k)) /\ IsWide(v)
      BY <1>4, WidesAre
    <3>2. IsWide(step(k, v))
      BY <3>1, JoinWide
    <3> HIDE DEF step
    <3>3. QED
      BY <3>2, WidesAre
  <2>2. QED
    BY <2>1, BottomIsWide, WidesAre
<1>7. \A k \in S, v \in Wides : Op[<<k, v>>] = step(k, v)
  <2> HIDE DEF step, S
  <2> QED OBVIOUS
<1>8. PICK F : IsFold(F, S, pick, BottomVs, Op) /\ \A s \in SUBSET S : F[s] \in Wides
  <2>1. \A k \in S, v \in Wides : Op[<<k, v>>] \in Wides
    BY <1>6, <1>7
  <2> HIDE DEF pick, Op, S
  <2>2. QED
    BY <1>5, <1>6, <2>1, FoldIn
<1>9. F = [s \in SUBSET S |-> Body(F, s)]
  <2>1. F = [s \in SUBSET S |-> IF s = {} THEN BottomVs ELSE Op[<<pick[s], F[s \ {pick[s]}]>>]]
    BY <1>8 DEF IsFold
  <2>2. ASSUME NEW s \in SUBSET S, s # {} PROVE Op[<<pick[s], F[s \ {pick[s]}]>>] = Body(F, s)
    <3>1. pick[s] = (Sq!Max(s)) /\ pick[s] \in S
      BY <1>5, <2>2, SqPicks DEF Picks
    <3>2. F[s \ {pick[s]}] \in Wides
      BY <1>8
    <3> HIDE DEF Op, pick, step, S
    <3>3. QED
      BY <1>7, <2>2, <3>1, <3>2
  <2> HIDE DEF Op, pick, step, S
  <2>3. QED
    BY <2>1, <2>2
<1>10. iter = [s \in SUBSET S |-> Body(iter, s)]
  <2> DEFINE Eq(X) == X = [s \in SUBSET S |-> Body(X, s)]
  <2>1. Eq(F)
    BY <1>9, Zenon
  <2>2. iter = CHOOSE X : Eq(X)
    BY Zenon
  <2> HIDE DEF Eq, iter
  <2>3. Eq(iter)
    BY <2>1, <2>2, Zenon
  <2>4. QED
    BY <2>3, Zenon DEF Eq
<1> HIDE DEF iter
<1>11. /\ iter[{}] = BottomVs
       /\ \A s \in (SUBSET S) \ {{}} : iter[s] = step(pick[s], iter[s \ {pick[s]}])
  <2>1. \A s \in (SUBSET S) \ {{}} : pick[s] = (Sq!Max(s))
    BY SqPicks
  <2> HIDE DEF step, pick
  <2>2. QED
    BY <1>10, <2>1
\* the value of the variable for an equation that has been looked at
<1> DEFINE Good(s) == {v \in Wides : \A w \in Valuations :
                          Fits(e, w) /\ (\E k \in s : zero(k, w)) => Contains(v, w[x])}
<1>12. \A s \in SUBSET S : iter[s] \in Good(s)
  <2> DEFINE Fam == [s \in SUBSET S |-> Good(s)]
  <2>1. ASSUME NEW s \in (SUBSET S) \ {{}}, iter[s \ {pick[s]}] \in Good(s \ {pick[s]})
        PROVE  iter[s] \in Good(s)
    <3> DEFINE k == pick[s]
               v == iter[s \ {k}]
    <3>1. k \in s /\ k \in S
      BY <1>5 DEF Picks
    <3>2. v \in Wides /\ \A w \in Valuations : Fits(e, w) /\ (\E l \in s \ {k} : zero(l, w)) => Contains(v, w[x])
      BY <2>1
    <3>3. iter[s] = JoinVs(v, one(k))
      BY <1>11
    <3> HIDE DEF k, v, pick, S
    <3>4. IsWide(v) /\ IsWide(one(k)) /\ JoinVs(v, one(k)) \in Wides
      BY <1>4, <3>1, <3>2, WidesAre, JoinWide
    <3>5. ASSUME NEW w \in Valuations, Fits(e, w), NEW l \in s, zero(l, w)
          PROVE  Contains(JoinVs(v, one(k)), w[x])
      <4>1. w[x] \in Int
        BY <1>3, VsdAssumption, ValueSetIsWide DEF Valuations
      <4>2. Contains(v, w[x]) \/ Contains(one(k), w[x])
        BY <1>4, <3>1, <3>2, <3>5
      <4> DEFINE y == w[x]
      <4> HIDE DEF y
      <4>3. y \in Int /\ (Contains(v, y) \/ Contains(one(k), y))
        BY <4>1, <4>2 DEF y
      <4>4. Contains(JoinVs(v, one(k)), y)
        BY <3>4, <4>3, JoinSound
      <4>5. QED
        BY <4>4 DEF y
    <3>6. QED
      BY <3>3, <3>4, <3>5
  <2>2. iter[{}] \in Good({})
    BY <1>6, <1>11
  <2>3. \A s \in SUBSET S : Fam[s] = Good(s)
    <3> HIDE DEF Good, S
    <3> QED OBVIOUS
  <2>4. iter[{}] \in Fam[{}]
    <3> HIDE DEF Fam, Good, S
    <3> QED BY <2>2, <2>3
  <2>5. \A s \in (SUBSET S) \ {{}} : iter[s \ {pick[s]}] \in Fam[s \ {pick[s]}] => iter[s] \in Fam[s]
    <3>1. \A s \in (SUBSET S) \ {{}} : s \ {pick[s]} \in SUBSET S
      OBVIOUS
    <3> HIDE DEF Fam, Good, S, pick
    <3> QED BY <2>1, <2>3, <3>1
  <2>6. \A s \in SUBSET S : iter[s] \in Fam[s]
    <3> HIDE DEF Fam, pick, Good, S
    <3>1. QED
      BY <1>5, <2>4, <2>5, FoldStays
  <2>7. QED
    <3> HIDE DEF Fam, Good, S
    <3> QED BY <2>3, <2>6
<1>13. iter[S] \in Good(S)
  <2> HIDE DEF Good, S
  <2> QED BY <1>12
<1>14. QED
  BY <1>1, <1>13, WidesAre DEF lins, zero

-----------------------------------------------------------------------------
(* The state covers the execution *)

\* An expression has a value when none of its constants is empty.
HasValue(exp) ==
  /\ exp.kind = "cmp" => exp.opnd.vs # BottomVs
  /\ exp.kind = "lin" => exp.inner.vs # BottomVs
  /\ exp.kind = "bin" => exp.opnd1.vs # BottomVs /\ exp.opnd2.vs # BottomVs

LEMMA SomeMember ==
  ASSUME NEW v, IsValueSet(v), v # BottomVs
  PROVE  Members(v) # {}
<1>1. 0 \in Ints
  BY VsdAssumption DEF Ints
<1>2. CASE v = TopVs
  BY <1>1, <1>2, ContainsKind DEF Members
<1>3. ASSUME NEW S \in SUBSET Ints, v = FiniteVs(S) PROVE Members(v) # {}
  BY <1>3, ContainsKind DEF Members, BottomVs
<1>4. ASSUME NEW dir \in Dir, NEW k \in Ints, v = OpenVs(dir, k) PROVE Members(v) # {}
  <2>1. k \in Int
    BY VsdAssumption, ValueSetIsWide
  <2>2. Contains(v, k)
    BY <1>4, <2>1, ContainsKind DEF Dir
  <2>3. QED
    BY <2>2 DEF Members
<1>5. QED
  BY <1>2, <1>3, <1>4 DEF IsValueSet

LEMMA LinHasValue ==
  ASSUME valuation \in Valuations, NEW lin, IsLin(lin, Ids), lin.vs # BottomVs
  PROVE  LinValues(lin) # {}
<1> DEFINE n == Len(lin.terms)
           ts == lin.terms
<1>1. IsWideLin(lin, Ids)
  BY LinIsWide
<1>2. n \in Nat /\ \A i \in 1 .. n : ts[i].scale \in Int /\ ts[i].var \in Ids
  BY <1>1, TermsIs
<1>3. PICK H : /\ LinValues(lin) = H[1] /\ H[n + 1] = Members(lin.vs)
               /\ \A i \in 1 .. n : H[i] = Added(ts[i], H[i + 1])
  BY <1>1, LinValuesIs
<1> DEFINE P == {i \in 1 .. n + 1 : H[i] # {}}
<1> HIDE DEF n, ts
<1>4. n + 1 \in P
  <2>1. Members(lin.vs) # {}
    BY SomeMember DEF IsLin
  <2>2. QED
    BY <1>2, <1>3, <2>1
<1>5. ASSUME NEW v \in Ids PROVE ValuesOf(v) # {}
  <2>1. CASE v \in Var
    BY <2>1 DEF ValuesOf
  <2>2. CASE v \notin Var
    <3>1. ValuesOf(v) = Members(QueryVar(Bottom, v))
      BY <2>2 DEF ValuesOf
    <3>2. QED
      BY <3>1, TopIsState, QueryVarIs, SomeMember
  <2>3. QED
    BY <2>1, <2>2
<1>6. ASSUME NEW i \in 1 .. n, i + 1 \in P PROVE i \in P
  <2>1. PICK r : r \in H[i + 1]
    BY <1>6
  <2>2. PICK z : z \in ValuesOf(ts[i].var)
    BY <1>2, <1>5
  <2>3. ts[i].scale * z + r \in H[i]
    BY <1>3, <2>1, <2>2 DEF Added
  <2>4. i \in 1 .. n + 1
    BY <1>2
  <2>5. QED
    BY <2>3, <2>4
<1>7. 1 \in P
  <2>1. \A i \in 1 .. n + 1 : i \in P
    <3> HIDE DEF P
    <3> QED BY <1>2, <1>4, <1>6, Downward
  <2>2. 1 \in 1 .. n + 1
    BY <1>2
  <2> HIDE DEF P
  <2>3. QED
    BY <2>1, <2>2
<1>8. QED
  BY <1>3, <1>7

LEMMA ExprHasValue ==
  ASSUME valuation \in Valuations, NEW exp \in Exprs, HasValue(exp), Reliable(exp)
  PROVE  ExprValues(exp) # {}
<1>1. IsExp(exp)
  BY VsdAssumption
<1>2. InnerValues(exp) # {}
  <2>1. CASE exp.kind = "cmp" /\ IsLin(exp.opnd, Ids) /\ exp.op \in CmpOps
    <3> DEFINE xs == LinValues(exp.opnd)
    <3>1. InnerValues(exp) = {IF Holds(x, exp.op) THEN 1 ELSE 0 : x \in xs}
      BY <2>1, Zenon DEF InnerValues
    <3>2. xs # {}
      BY <2>1, LinHasValue DEF HasValue
    <3> HIDE DEF xs
    <3>3. QED
      BY <3>1, <3>2
  <2>2. CASE exp.kind = "lin" /\ IsLin(exp.inner, Ids)
    <3>1. InnerValues(exp) = LinValues(exp.inner)
      BY <2>2 DEF InnerValues
    <3>2. QED
      BY <2>2, <3>1, LinHasValue DEF HasValue
  <2>3. CASE exp.kind = "bin" /\ IsLin(exp.opnd1, Ids) /\ IsLin(exp.opnd2, Ids) /\ exp.op \in BinOps
    <3> DEFINE xs == LinValues(exp.opnd1)
               ys == LinValues(exp.opnd2)
               products == {x * y : x \in xs, y \in ys}
               eors == UNION {IF x = y THEN {0} ELSE Ints \ {0} : x \in xs, y \in ys}
               shifts == UNION {IF x = 0 THEN {0} ELSE Ints : x \in xs}
    <3>1. InnerValues(exp) = BinaryValues(exp)
      BY <2>3 DEF InnerValues
    <3>2. /\ exp.op = "MUL" => BinaryValues(exp) = products
          /\ exp.op = "XOR" => BinaryValues(exp) = eors
          /\ exp.op = "SHL" => BinaryValues(exp) = shifts
          /\ exp.op = "AND" => BinaryValues(exp) = Ints
      <4>1. CASE exp.op = "MUL"
        BY <4>1 DEF BinaryValues
      <4>2. CASE exp.op = "XOR"
        BY <4>2 DEF BinaryValues
      <4>3. CASE exp.op = "SHL"
        BY <4>3 DEF BinaryValues
      <4>4. CASE exp.op = "AND"
        BY <4>4 DEF BinaryValues
      <4> HIDE DEF xs, ys, products, eors, shifts
      <4>5. QED
        BY <4>1, <4>2, <4>3, <4>4
    <3>3. exp.op \in {"MUL", "XOR", "SHL", "AND"}
      BY <2>3 DEF Reliable, BinOps
    <3>4. xs # {} /\ ys # {}
      BY <2>3, LinHasValue DEF HasValue
    <3> HIDE DEF xs, ys
    <3>5. PICK x, y : x \in xs /\ y \in ys
      BY <3>4
    <3>6. 0 \in Ints /\ 1 \in Ints /\ 1 # 0
      BY VsdAssumption DEF Ints
    <3>7. products # {}
      BY <3>5
    <3>8. eors # {}
      <4> DEFINE one(k, l) == IF k = l THEN {0} ELSE Ints \ {0}
      <4>0. eors = UNION {one(k, l) : k \in xs, l \in ys}
        OBVIOUS
      <4>1. (IF x = y THEN {0} ELSE Ints \ {0}) \subseteq eors
        <5> HIDE DEF one, eors
        <5>1. one(x, y) \subseteq eors
          BY <3>5, <4>0
        <5>2. QED
          BY <5>1 DEF one
      <4>2. (IF x = y THEN {0} ELSE Ints \ {0}) # {}
        BY <3>6
      <4> HIDE DEF eors
      <4>3. QED
        BY <4>1, <4>2
    <3>9. shifts # {}
      <4>1. (IF x = 0 THEN {0} ELSE Ints) \subseteq shifts
        BY <3>5
      <4>2. (IF x = 0 THEN {0} ELSE Ints) # {}
        BY <3>6
      <4> HIDE DEF shifts
      <4>3. QED
        BY <4>1, <4>2
    <3> HIDE DEF products, eors, shifts
    <3>10. QED
      BY <3>1, <3>2, <3>3, <3>6, <3>7, <3>8, <3>9
  <2>4. QED
    BY <1>1, <2>1, <2>2, <2>3 DEF IsExp
<1>3. QED
  BY <1>2 DEF ExprValues

\* An assignment, and a variable that is forgotten.
LEMMA PutFits ==
  ASSUME NEW e, IsState(e), NEW w \in Valuations, NEW v \in Var, NEW vs, NEW x, Contains(vs, x), Fits(e, w)
  PROVE  Fits(Set(e, v, vs), [w EXCEPT ![v] = x])
<1> DEFINE f == Set(e, v, vs)
           u == [w EXCEPT ![v] = x]
<1>1. /\ f.bottom = e.bottom /\ DOMAIN f.elements = DOMAIN e.elements \cup {v} /\ f.elements[v] = vs
      /\ \A y \in DOMAIN e.elements \ {v} : f.elements[y] = e.elements[y]
  BY SetIs
<1>2. u[v] = x /\ \A y \in Var \ {v} : u[y] = w[y]
  BY DEF Valuations
<1>3. DOMAIN e.elements \subseteq Var
  BY StateIs
<1> HIDE DEF f, u
<1>4. Fits(f, u)
  BY <1>1, <1>2, <1>3 DEF Fits
<1>5. QED
  BY <1>4 DEF f, u

LEMMA ForgetFits ==
  ASSUME NEW e, IsState(e), NEW w \in Valuations, Fits(e, w)
  PROVE  /\ \A ids : Fits(Without(e, ids), w)
         /\ \A v, x : Fits(Without(e, {v}), [w EXCEPT ![v] = x])
         /\ \A v, x : v \notin DOMAIN e.elements => Fits(e, [w EXCEPT ![v] = x])
<1>1. DOMAIN e.elements \subseteq Var
  BY StateIs
<1>2. ASSUME NEW ids PROVE Fits(Without(e, ids), w)
  BY WithoutIs DEF Fits
<1>3. ASSUME NEW v, NEW x
      PROVE  /\ Fits(Without(e, {v}), [w EXCEPT ![v] = x])
             /\ v \notin DOMAIN e.elements => Fits(e, [w EXCEPT ![v] = x])
  <2> DEFINE u == [w EXCEPT ![v] = x]
  <2>1. \A y \in Var \ {v} : u[y] = w[y]
    BY DEF Valuations
  <2> HIDE DEF u
  <2>2. Fits(Without(e, {v}), u)
    BY <1>1, <2>1, WithoutIs DEF Fits
  <2>3. v \notin DOMAIN e.elements => Fits(e, u)
    BY <1>1, <2>1 DEF Fits
  <2>4. QED
    BY <2>2, <2>3 DEF u
<1>4. QED
  BY <1>2, <1>3

LEMMA JoinedFits ==
  ASSUME NEW a, NEW b, IsState(a), IsState(b), NEW w \in Valuations, Fits(a, w) \/ Fits(b, w)
  PROVE  Fits(Joined(a, b), w)
<1>1. CASE b.bottom
  BY <1>1, JoinedIs DEF Fits
<1>2. CASE ~b.bottom /\ a.bottom
  BY <1>2, JoinedIs DEF Fits
<1>3. CASE ~b.bottom /\ ~a.bottom
  <2> DEFINE j == Joined(a, b)
  <2>1. /\ ~j.bottom /\ DOMAIN j.elements = DOMAIN a.elements \cap DOMAIN b.elements
        /\ \A v \in DOMAIN a.elements \cap DOMAIN b.elements : j.elements[v] = JoinVs(a.elements[v], b.elements[v])
    BY <1>3, JoinedIs
  <2> HIDE DEF j
  <2>2. ASSUME NEW v \in DOMAIN j.elements PROVE Contains(j.elements[v], w[v])
    <3>1. v \in DOMAIN a.elements /\ v \in DOMAIN b.elements /\ v \in Var
      BY <2>1, StateIs
    <3> DEFINE x == w[v]
    <3>2. x \in Int
      BY <3>1, VsdAssumption, ValueSetIsWide DEF Valuations
    <3>3. Contains(a.elements[v], x) \/ Contains(b.elements[v], x)
      BY <3>1 DEF Fits
    <3>4. IsWide(a.elements[v]) /\ IsWide(b.elements[v])
      BY <3>1, WideElements
    <3> HIDE DEF x
    <3>5. Contains(JoinVs(a.elements[v], b.elements[v]), x)
      BY <3>2, <3>3, <3>4, JoinSound
    <3>6. QED
      BY <2>1, <3>1, <3>5 DEF x
  <2>3. QED
    BY <2>1, <2>2 DEF Fits, j
<1>4. QED
  BY <1>1, <1>2, <1>3

LEMMA BoxedFits ==
  ASSUME NEW a, NEW b, IsState(a), IsState(b), NEW w \in Valuations, Fits(b, w)
  PROVE  Fits(Boxed(a, b), w)
<1> DEFINE x == Boxed(a, b)
<1>1. ~b.bottom
  BY DEF Fits
<1>2. /\ ~x.bottom /\ DOMAIN x.elements = DOMAIN b.elements
      /\ \A v \in DOMAIN b.elements :
           /\ x.elements[v] = IF GreaterEq(a, b) THEN NarrowVs(Lookup(a, v), b.elements[v])
                              ELSE WidenVs(Lookup(a, v), b.elements[v])
           /\ GreaterEq(a, b) => Leq(b.elements[v], Lookup(a, v))
  BY <1>1, BoxedIs
<1> HIDE DEF x
<1>3. ASSUME NEW v \in DOMAIN b.elements PROVE Contains(x.elements[v], w[v])
  <2> DEFINE k == Lookup(a, v)
             l == b.elements[v]
             y == w[v]
  <2>1. v \in Var
    BY StateIs
  <2>2. y \in Int
    BY <2>1, VsdAssumption, ValueSetIsWide DEF Valuations
  <2>3. IsWide(k) /\ IsWide(l) /\ Contains(l, y)
    BY WideElements DEF Fits
  <2>4. /\ x.elements[v] = IF GreaterEq(a, b) THEN NarrowVs(k, l) ELSE WidenVs(k, l)
        /\ GreaterEq(a, b) => Leq(l, k)
    BY <1>2
  <2> HIDE DEF k, l, y
  <2>5. Contains(WidenVs(k, l), y) /\ Contains(BoxVs(k, l), y)
    BY <2>2, <2>3, WidenSound, BoxSound
  <2>6. Leq(l, k) => Contains(NarrowVs(k, l), y)
    BY <2>5 DEF BoxVs
  <2>7. Contains(x.elements[v], y)
    BY <2>4, <2>5, <2>6
  <2>8. QED
    BY <2>7 DEF y
<1>4. QED
  BY <1>2, <1>3 DEF Fits, x

\* The loop of assume goes on for a condition that holds.
VsdCovers ==
  /\ VsdTypes
  /\ Covers(env, valuation)
  /\ Idle \/ \E cmp \in Cmps : /\ IsLoop(assuming, cmp)
                               /\ Alive => \E A : ChainOf(cmp.opnd, A, valuation) /\ Holds(A[1], cmp.op)

\* The assignments that are evaluated wrongly: of a quotient, of an exclusive
\* or whose operands have several values, of an interval that is cut off; and
\* the weak one of what has no value.
Misjudged ==
  \E lhs \in Var, exp \in Exprs :
    \/ (Assign(lhs, exp) \/ WeakAssign(lhs, exp)) /\ (~Reliable(exp) \/ CutOff(env, exp))
    \/ WeakAssign(lhs, exp) /\ ~HasValue(exp)

LEMMA OutsideCovers ==
  ASSUME VsdTypes, Covers(env, valuation), Outside, ~Misjudged
  PROVE  Covers(env, valuation)'
<1>1. IsState(env) /\ valuation \in Valuations \cup {Dead}
  BY DEF VsdTypes
<1>2. Alive => valuation \in Valuations /\ Fits(env, valuation)
  BY <1>1 DEF Alive, Covers, Fits
<1>3. ASSUME NEW e, NEW w, Continue(e, w), w = Dead \/ Fits(e, w) PROVE Covers(env, valuation)'
  BY <1>3 DEF Continue, Covers, Fits
<1>4. \A other \in Others : IsState(other)
  BY VsdAssumption
<1>5. ASSUME NEW lhs \in Var, NEW exp \in Exprs, Assign(lhs, exp)
      PROVE  Covers(env, valuation)'
  <2> DEFINE er == QueryExpr(env, exp)
             e == IF er = BottomVs THEN Bottom ELSE IF env.bottom THEN env ELSE Set(env, lhs, er)
  <2>1. \/ Alive /\ \E x \in ExprValues(exp) : Continue(e, [valuation EXCEPT ![lhs] = x])
        \/ ~Alive /\ Continue(e, Dead)
    BY <1>5 DEF Assign
  <2>2. Reliable(exp) /\ ~CutOff(env, exp)
    BY <1>5 DEF Misjudged
  <2>3. ASSUME Alive, NEW x \in ExprValues(exp) PROVE Fits(e, [valuation EXCEPT ![lhs] = x])
    <3>1. Contains(er, x)
      BY <1>1, <1>2, <2>2, <2>3, ExprSound
    <3>2. ~env.bottom /\ er # BottomVs
      <4>1. ~Contains(BottomVs, x)
        BY ContainsKind DEF BottomVs
      <4>2. QED
        BY <1>2, <2>3, <3>1, <4>1 DEF Fits
    <3>3. e = Set(env, lhs, er)
      BY <3>2
    <3> HIDE DEF e, er
    <3>4. QED
      BY <1>1, <1>2, <2>3, <3>1, <3>3, PutFits
  <2> HIDE DEF e
  <2>4. QED
    BY <1>3, <2>1, <2>3
<1>6. ASSUME NEW lhs \in Var, NEW exp \in Exprs, WeakAssign(lhs, exp)
      PROVE  Covers(env, valuation)'
  <2> DEFINE er == QueryExpr(env, exp)
             e == IF env.bottom \/ er = BottomVs THEN [env EXCEPT !.bottom = TRUE]
                  ELSE Set(env, lhs, JoinVs(QueryVar(env, lhs), er))
  <2>1. \/ Alive /\ \E x \in {valuation[lhs]} \cup ExprValues(exp) : Continue(e, [valuation EXCEPT ![lhs] = x])
        \/ ~Alive /\ Continue(e, Dead)
    BY <1>6 DEF WeakAssign
  <2>2. Reliable(exp) /\ ~CutOff(env, exp) /\ HasValue(exp)
    BY <1>6 DEF Misjudged
  <2>3. ASSUME Alive, NEW x \in {valuation[lhs]} \cup ExprValues(exp) PROVE Fits(e, [valuation EXCEPT ![lhs] = x])
    <3> DEFINE old == QueryVar(env, lhs)
    <3>1. IsWide(er) /\ \A y \in ExprValues(exp) : y \in Int /\ Contains(er, y)
      BY <1>1, <1>2, <2>2, <2>3, ExprSound
    <3>2. ~env.bottom /\ er # BottomVs
      <4>1. \A y : ~Contains(BottomVs, y)
        BY ContainsKind DEF BottomVs
      <4>2. PICK y : y \in ExprValues(exp)
        BY <1>2, <2>2, <2>3, ExprHasValue
      <4> HIDE DEF er
      <4>3. QED
        BY <1>2, <2>3, <3>1, <4>1, <4>2 DEF Fits
    <3>3. IsWide(old) /\ Contains(old, valuation[lhs]) /\ valuation[lhs] \in Int
      <4>1. lhs \in Ids /\ ValuesOf(lhs) = {valuation[lhs]}
        BY DEF Ids, ValuesOf
      <4>2. QED
        BY <1>1, <1>2, <2>3, <4>1, QueryVarIs, QueryVarSound
    <3>4. e = Set(env, lhs, JoinVs(old, er))
      BY <3>2
    <3> HIDE DEF e, er, old
    <3>5. x \in Int /\ (Contains(old, x) \/ Contains(er, x))
      BY <2>3, <3>1, <3>3
    <3>6. Contains(JoinVs(old, er), x)
      BY <3>1, <3>3, <3>5, JoinSound
    <3>7. QED
      BY <1>1, <1>2, <2>3, <3>4, <3>6, PutFits
  <2> HIDE DEF e
  <2>4. QED
    BY <1>3, <2>1, <2>3
<1>7. ASSUME NEW v \in Var, Kill(v) PROVE Covers(env, valuation)'
  <2>1. \/ Alive /\ \E x \in Ints : Continue(Without(env, {v}), [valuation EXCEPT ![v] = x])
        \/ ~Alive /\ Continue(Without(env, {v}), Dead)
    BY <1>7 DEF Kill
  <2>2. QED
    BY <1>1, <1>2, <1>3, <2>1, ForgetFits
<1>8. ASSUME NEW ids, env' = Without(env, ids) \/ env' = env, valuation' = valuation
      PROVE  Covers(env, valuation)'
  <2>1. CASE Alive
    <3>1. Fits(Without(env, ids), valuation) /\ Fits(env, valuation)
      BY <1>1, <1>2, <2>1, ForgetFits
    <3>2. QED
      BY <1>8, <3>1 DEF Fits, Covers
  <2>2. CASE ~Alive
    BY <1>8, <2>2 DEF Alive, Covers
  <2>3. QED
    BY <2>1, <2>2
<1>9. ASSUME NEW v \in Var, Cleanup(v) PROVE Covers(env, valuation)'
  BY <1>8, <1>9 DEF Cleanup
<1>10. ASSUME NEW ids \in SUBSET Var, Project(ids) PROVE Covers(env, valuation)'
  BY <1>8, <1>10 DEF Project
<1>11. ASSUME NEW a \in Var, NEW b \in Var, EquateKill(a, b) PROVE Covers(env, valuation)'
  <2> DEFINE e == IF b \in DOMAIN env.elements
                  THEN Without(Set(env, a, env.elements[b]), {b}) ELSE env
             u == [valuation EXCEPT ![a] = valuation[b]]
  <2>1. \/ Alive /\ \E x \in Ints : Continue(e, [valuation EXCEPT ![a] = valuation[b], ![b] = x])
        \/ ~Alive /\ Continue(e, Dead)
    BY <1>11 DEF EquateKill
  <2>2. a # b /\ a \notin DOMAIN env.elements
    BY <1>11 DEF EquateKill
  <2>3. ASSUME Alive, NEW x PROVE Fits(e, [valuation EXCEPT ![a] = valuation[b], ![b] = x])
    <3>1. u \in Valuations /\ Fits(env, valuation) /\ valuation \in Valuations
      BY <1>2, <2>3 DEF Valuations
    <3>2. [valuation EXCEPT ![a] = valuation[b], ![b] = x] = [u EXCEPT ![b] = x]
      OBVIOUS
    <3>3. Fits(env, u)
      BY <1>1, <2>2, <3>1, ForgetFits
    <3>4. CASE b \notin DOMAIN env.elements
      <4> HIDE DEF u
      <4>1. Fits(env, [u EXCEPT ![b] = x])
        BY <1>1, <3>1, <3>3, <3>4, ForgetFits
      <4>2. QED
        BY <3>2, <3>4, <4>1
    <3>5. CASE b \in DOMAIN env.elements
      <4> DEFINE vs == env.elements[b]
                 put == Set(env, a, vs)
      <4>1. IsValueSet(vs) /\ vs # BottomVs /\ Contains(vs, valuation[b])
        BY <1>1, <3>1, <3>5, StateIs DEF Fits
      <4> HIDE DEF vs
      <4>2. Fits(put, u)
        BY <1>1, <3>1, <4>1, PutFits
      <4>3. IsState(put)
        BY <1>1, <4>1, SetIs
      <4> HIDE DEF u, put
      <4>4. Fits(Without(put, {b}), [u EXCEPT ![b] = x])
        BY <3>1, <4>2, <4>3, ForgetFits
      <4>5. QED
        BY <3>2, <3>5, <4>4 DEF put, vs
    <3>6. QED
      BY <3>4, <3>5
  <2> HIDE DEF e
  <2>4. QED
    BY <1>3, <2>1, <2>3
<1>12. ASSUME NEW other \in Others, JoinOther(other) PROVE Covers(env, valuation)'
  <2>1. PICK w \in {valuation} \cup CoveredBy(other) : Continue(Joined(env, other), w)
    BY <1>12 DEF JoinOther
  <2>2. w = Dead \/ (w \in Valuations /\ (Fits(env, w) \/ Fits(other, w)))
    <3>1. w = valuation => w = Dead \/ (w \in Valuations /\ Fits(env, w))
      BY <1>2 DEF Alive
    <3>2. w \in CoveredBy(other) => w = Dead \/ (w \in Valuations /\ Fits(other, w))
      BY CoveredIs DEF Covers, Fits
    <3>3. QED
      BY <2>1, <3>1, <3>2
  <2>3. QED
    BY <1>1, <1>3, <1>4, <2>1, <2>2, JoinedFits
<1>13. ASSUME NEW other \in Others, BoxOther(other) PROVE Covers(env, valuation)'
  <2>1. PICK w \in CoveredBy(other) : Continue(Boxed(env, other), w)
    BY <1>13 DEF BoxOther
  <2>2. w = Dead \/ (w \in Valuations /\ Fits(other, w))
    BY CoveredIs DEF Covers, Fits
  <2>3. QED
    BY <1>1, <1>3, <1>4, <2>1, <2>2, BoxedFits
<1>14. ASSUME NEW other \in Others, NEW to \in Var, NEW from \in Var, CopyPaste(to, from, other)
       PROVE  Covers(env, valuation)'
  <2> DEFINE e == IF from \in DOMAIN other.elements THEN Set(env, to, other.elements[from]) ELSE env
  <2>1. \/ Alive /\ \E w \in CoveredBy(other) \ {Dead} : Continue(e, [valuation EXCEPT ![to] = w[from]])
        \/ ~Alive /\ Continue(e, Dead)
    BY <1>14 DEF CopyPaste
  <2>2. to \notin DOMAIN env.elements
    BY <1>14 DEF CopyPaste
  <2>3. ASSUME Alive, NEW w \in CoveredBy(other) \ {Dead} PROVE Fits(e, [valuation EXCEPT ![to] = w[from]])
    <3>1. Fits(other, w)
      BY <2>3, CoveredIs DEF Covers, Fits
    <3> DEFINE vs == other.elements[from]
               x == w[from]
    <3>2. from \in DOMAIN other.elements => Contains(vs, x)
      BY <3>1 DEF Fits
    <3> HIDE DEF vs, x
    <3>3. from \in DOMAIN other.elements => Fits(Set(env, to, vs), [valuation EXCEPT ![to] = x])
      BY <1>1, <1>2, <2>3, <3>2, PutFits
    <3>4. Fits(env, [valuation EXCEPT ![to] = x])
      BY <1>1, <1>2, <2>2, <2>3, ForgetFits
    <3>5. QED
      BY <3>3, <3>4 DEF vs, x
  <2> HIDE DEF e
  <2>4. QED
    BY <1>3, <2>1, <2>3
<1>15. QED
  BY <1>5, <1>6, <1>7, <1>9, <1>10, <1>11, <1>12, <1>13, <1>14 DEF Outside

LEMMA VsdNextCovers ==
  ASSUME VsdCovers, [VsdNext]_vsd_vars, [~Misjudged]_vsd_vars
  PROVE  VsdCovers'
<1>1. VsdTypes'
  BY VsdNextTyped DEF VsdCovers
<1>2. IsState(env) /\ valuation \in Valuations \cup {Dead} /\ VsdTypes /\ Covers(env, valuation)
  BY DEF VsdCovers, VsdTypes
<1>3. CASE UNCHANGED vsd_vars
  <2>1. env' = env /\ valuation' = valuation /\ assuming' = assuming
    BY <1>3 DEF vsd_vars
  <2>2. QED
    BY <1>1, <2>1 DEF VsdCovers, Covers, Idle, Alive
<1>4. CASE Outside /\ ~Misjudged
  <2>1. Covers(env, valuation)'
    BY <1>2, <1>4, OutsideCovers
  <2>2. Idle /\ assuming' = assuming
    BY <1>4 DEF Outside, Assign, WeakAssign, Kill, Cleanup, Project, EquateKill, JoinOther, BoxOther, CopyPaste
  <2>3. QED
    BY <1>1, <2>1, <2>2 DEF VsdCovers, Idle
<1>5. ASSUME NEW cmp \in Cmps, Assume(cmp) PROVE VsdCovers'
  <2>1. /\ env' = env
        /\ valuation' = IF Alive /\ \E x \in LinValues(cmp.opnd) : Holds(x, cmp.op) THEN valuation ELSE Dead
    BY <1>5 DEF Assume
  <2>2. Covers(env, valuation)'
    BY <1>2, <2>1 DEF Covers
  <2>3. IsLoop(assuming', cmp)
    <3>1. assuming' = [lins |-> Equations(cmp), i |-> 1, change |-> FALSE, passes |-> 0,
                       refined |-> [i \in DOMAIN cmp.opnd.terms |-> TopVs]]
      BY <1>5 DEF Assume
    <3>2. 1 \in 1 .. Len(cmp.opnd.terms) + 1
      BY EquationsIs
    <3> HIDE DEF Equations
    <3>3. QED
      BY <3>1, <3>2 DEF IsLoop
  <2>4. Alive' => \E A : ChainOf(cmp.opnd, A, valuation') /\ Holds(A[1], cmp.op)
    <3>1. SUFFICES ASSUME Alive' PROVE \E A : ChainOf(cmp.opnd, A, valuation') /\ Holds(A[1], cmp.op)
      OBVIOUS
    <3>2. valuation' # Dead
      BY <3>1 DEF Alive
    <3>3. valuation' = valuation /\ Alive /\ \E x \in LinValues(cmp.opnd) : Holds(x, cmp.op)
      BY <2>1, <3>2
    <3>4. PICK x \in LinValues(cmp.opnd) : Holds(x, cmp.op)
      BY <3>3
    <3>5. valuation \in Valuations
      BY <1>2, <3>3 DEF Alive
    <3>6. PICK A : ChainOf(cmp.opnd, A, valuation) /\ A[1] = x
      BY <3>4, <3>5, OpndIs, ValuesChain
    <3>7. QED
      BY <3>3, <3>4, <3>6
  <2>5. QED
    BY <1>1, <2>2, <2>3, <2>4 DEF VsdCovers
<1>6. CASE Refine
  <2>1. PICK cmp \in Cmps : /\ IsLoop(assuming, cmp)
                            /\ Alive => \E A : ChainOf(cmp.opnd, A, valuation) /\ Holds(A[1], cmp.op)
    BY <1>6 DEF VsdCovers, Refine
  <2> DEFINE i == assuming.i
             r == Refined(env, Equations(cmp), i)
             x == cmp.opnd.terms[i].var
  <2>2. i \in 1 .. Len(cmp.opnd.terms) /\ Equations(cmp)[1].terms[i].var = x /\ x \in Var
    BY <1>6, <2>1, EquationsIs DEF Refine, IsLoop
  <2>3. /\ \/ Continue(env, valuation)
           \/ Continue(IF r = BottomVs THEN Bottom ELSE IF env.bottom THEN env ELSE Set(env, x, r), valuation)
        /\ \E c : assuming' = c
    <3>1. assuming.lins = Equations(cmp)
      BY <2>1 DEF IsLoop
    <3> DEFINE changed == ~Leq(assuming.refined[i], r)
               e == IF r = BottomVs THEN Bottom ELSE IF env.bottom THEN env
                    ELSE Set(env, assuming.lins[1].terms[i].var, r)
    <3>2. Continue(IF ~changed THEN env ELSE e, valuation)
      BY <1>6, <3>1, Zenon DEF Refine
    <3>3. e = IF r = BottomVs THEN Bottom ELSE IF env.bottom THEN env ELSE Set(env, x, r)
      BY <2>2, <3>1
    <3> HIDE DEF e, r, x, changed
    <3>4. QED
      BY <3>2, <3>3
  <2>4. Alive => Contains(r, valuation[x])
    <3>1. SUFFICES ASSUME Alive PROVE Contains(r, valuation[x])
      OBVIOUS
    <3>2. valuation \in Valuations /\ Fits(env, valuation)
      BY <1>2, <3>1 DEF Alive, Covers, Fits
    <3>3. PICK A : ChainOf(cmp.opnd, A, valuation) /\ Holds(A[1], cmp.op)
      BY <2>1, <3>1
    <3>4. \E k \in DOMAIN Equations(cmp) : \E B : ChainOf(Equations(cmp)[k], B, valuation) /\ B[1] = 0
      BY <3>2, <3>3, EquationZero
    <3>5. QED
      BY <1>2, <2>2, <3>2, <3>4, RefinedSound
  <2>5. valuation' = valuation
    BY <2>3 DEF Continue
  <2>6. Covers(env, valuation)'
    <3> HIDE DEF r, x
    <3>1. CASE Continue(env, valuation)
      BY <1>2, <3>1 DEF Continue, Covers
    <3>2. CASE ~Alive
      BY <2>5, <3>2 DEF Alive, Covers
    <3>3. CASE Alive /\ Continue(IF r = BottomVs THEN Bottom ELSE IF env.bottom THEN env ELSE Set(env, x, r), valuation)
      <4>1. valuation \in Valuations /\ Fits(env, valuation)
        BY <1>2, <3>3 DEF Alive, Covers, Fits
      <4>2. r # BottomVs
        <5>1. ~Contains(BottomVs, valuation[x])
          BY ContainsKind DEF BottomVs
        <5>2. QED
          BY <2>4, <3>3, <5>1
      <4>3. ~env.bottom
        BY <4>1 DEF Fits
      <4>4. Continue(Set(env, x, r), valuation)
        BY <3>3, <4>2, <4>3
      <4>5. Fits(Set(env, x, r), [valuation EXCEPT ![x] = valuation[x]])
        BY <1>2, <2>2, <2>4, <3>3, <4>1, PutFits DEF x
      <4>6. [valuation EXCEPT ![x] = valuation[x]] = valuation
        BY <4>1 DEF Valuations
      <4>7. QED
        BY <4>4, <4>5, <4>6 DEF Continue, Covers, Fits
    <3>4. QED
      BY <2>3, <3>1, <3>2, <3>3
  <2>7. IsLoop(assuming', cmp)
    BY <1>6, <2>1, LoopGoesOn
  <2>8. QED
    BY <1>1, <2>1, <2>5, <2>6, <2>7 DEF VsdCovers, Alive
<1>7. CASE EndPass
  <2>1. PICK cmp \in Cmps : /\ IsLoop(assuming, cmp)
                            /\ Alive => \E A : ChainOf(cmp.opnd, A, valuation) /\ Holds(A[1], cmp.op)
    BY <1>7 DEF VsdCovers, EndPass
  <2>2. env' = env /\ valuation' = valuation
    BY <1>7 DEF EndPass
  <2>3. QED
    BY <1>1, <1>2, <1>7, <2>1, <2>2, LoopGoesOn DEF VsdCovers, Covers, Alive, Idle
<1>8. QED
  BY <1>3, <1>4, <1>5, <1>6, <1>7 DEF VsdNext, Outside

LEMMA VsdInitCovers == VsdInit => VsdCovers
<1>1. <<>> = [v \in {} |-> 0]
  OBVIOUS
<1>2. Covers(State(<<>>), valuation)
  BY DEF Covers, State
<1>3. QED
  BY <1>2, VsdInitTyped DEF VsdInit, VsdCovers, Idle

\* Safety: as long as no assignment is evaluated wrongly, the state of the
\* value set domain covers the execution, whatever is assigned, assumed, joined
\* or boxed and wherever the loop of assume stands; a state that is not bottom
\* has no empty value set.
THEOREM VsdSoundSafe == VsdSpec /\ [][~Misjudged]_vsd_vars => []VsdSound
<1>1. VsdInit => VsdCovers
  BY VsdInitCovers
<1>2. VsdCovers /\ [VsdNext]_vsd_vars /\ [~Misjudged]_vsd_vars => VsdCovers'
  BY VsdNextCovers
<1>3. VsdCovers => StateCovers
  BY DEF VsdCovers, StateCovers
<1>4. VsdSound <=> (TypeOK /\ NoEmptyValue) /\ StateCovers
  BY DEF VsdSound
<1>5. QED
  BY <1>1, <1>2, <1>3, <1>4, VsdTyped, PTL DEF VsdSpec

=============================================================================
