------------------------------ MODULE Converter ------------------------------
(***************************************************************************)
(* From the expressions of RREIL, which are about words, to those of the   *)
(* numeric domains, which are about integers (class converter), and what   *)
(* summary_memory_state does with the result: assignments, and conditions  *)
(* that hold or do not.                                                    *)
(*                                                                         *)
(* A program runs on words; beside it a numeric domain that loses nothing  *)
(* keeps the set of integer valuations the converted statements leave.     *)
(***************************************************************************)
EXTENDS Integers, Sequences, FiniteSets

CONSTANTS
  Var,          \* fields of the register file
  Unknown,      \* those transLE finds no variable for
  Width,        \* of a word, in bits
  Bound,        \* the integers considered are -Bound .. Bound
  Assignments,  \* records [var, exp]
  Conds,        \* conditions of branches
  Starts,       \* sets of valuations an execution may start in
  LeftOut,      \* {"wrapped"}: no comparison of numbers that are not their words
  MaxSteps      \* bound on the number of statements

Ints == (-Bound)..Bound
Modulus == 2 ^ Width
Half == 2 ^ (Width - 1)

ConverterAssumption ==
  /\ Unknown \subseteq Var /\ Width \in Nat \ {0} /\ Bound >= Modulus
  /\ \A s \in Starts : s # {} /\ s \subseteq [Var -> 0..(Modulus - 1)]

VARIABLES
  word,      \* what the registers hold
  possible,  \* the numeric state: integer valuations; empty is bottom
  taken,     \* history: the branch taken by the last statement, if it was one
  steps      \* history: number of statements

None == [cond |-> [kind |-> "ARB"], outcome |-> TRUE]

vars == <<word, possible, taken, steps>>

-----------------------------------------------------------------------------
(* The expressions of the numeric domains: terms and a value set *)

TopVs == [top |-> TRUE, elements |-> {}]
Single(x) == [top |-> FALSE, elements |-> {x}]

\* num_linear_term and num_linear_vs
Const(vs) == [terms |-> <<>>, vs |-> vs]

MulVs(vs, x) == [vs EXCEPT !.elements = {x * y : y \in @}]
AddVs(a, b) ==
  IF a.top \/ b.top THEN TopVs
  ELSE [top |-> FALSE, elements |-> {x + y : x \in a.elements, y \in b.elements}]

MulLin(scale, lin) ==
  [terms |-> [i \in DOMAIN lin.terms |-> [lin.terms[i] EXCEPT !.scale = scale * @]],
   vs |-> MulVs(lin.vs, scale)]

AddLin(a, b) == [terms |-> a.terms \o b.terms, vs |-> AddVs(a.vs, b.vs)]

NegateLin(lin) == MulLin(-1, lin)

Cmp(lin, op) == [opnd |-> lin, op |-> op]

NegateCmp(cmp) ==
  [cmp EXCEPT !.op = CASE @ = "EQ" -> "NEQ" [] @ = "NEQ" -> "EQ" [] @ = "LE" -> "GT"
                       [] @ = "LT" -> "GE" [] @ = "GE" -> "LT" [] @ = "GT" -> "LE"]

-----------------------------------------------------------------------------
(* converter *)

\* retrieve_field, or a value set for what is not a field of its own.
TransLE(v) ==
  IF v \in Unknown THEN Const(TopVs)
  ELSE [terms |-> <<[scale |-> 1, var |-> v]>>, vs |-> Single(0)]

RECURSIVE ConvLinear(_, _)
ConvLinear(lin, scale) ==
  CASE lin.op = "ADD" -> AddLin(ConvLinear(lin.lhs, scale), ConvLinear(lin.rhs, scale))
    [] lin.op = "SUB" -> AddLin(ConvLinear(lin.lhs, scale), ConvLinear(lin.rhs, -scale))
    [] lin.op = "IMM" -> Const(Single(scale * lin.imm))
    [] lin.op = "SCALE" -> ConvLinear(lin.opnd, scale * lin.const)
    [] lin.op = "VAR" -> MulLin(scale, TransLE(lin.var))

Linear(lin) == ConvLinear(lin, 1)

\* The condition, and what it takes for a comparison of unsigned words to be one
\* of integers.
ConvExprCmp(c) ==
  LET difference == AddLin(Linear(c.lhs), NegateLin(Linear(c.rhs)))
  IN  CASE c.kind = "ARB" -> [primary |-> Cmp(Const(TopVs), "EQ"), additional |-> {}]
        [] c.kind = "LIN" ->
             [primary |-> Cmp(AddLin(Linear(c.lhs), Const(Single(-1))), "EQ"), additional |-> {}]
        [] c.kind = "CMP" ->
             [primary |-> Cmp(difference,
                              CASE c.op \in {"LEU", "LES"} -> "LE"
                                [] c.op \in {"LTU", "LTS"} -> "LT"
                                [] OTHER -> c.op),
              additional |-> IF c.op \in {"LEU", "LTU"}
                             THEN {Cmp(Linear(c.lhs), "GE"), Cmp(Linear(c.rhs), "GE")} ELSE {}]

\* num_expr_lin, num_expr_bin and num_expr_cmp; size 0 means no sign_interp.
Lin(lin, signed, size) == [kind |-> "lin", opnd |-> lin, signed |-> signed, size |-> size]
Bin(l, op, r, signed, size) ==
  [kind |-> "bin", opnd1 |-> l, op |-> op, opnd2 |-> r, signed |-> signed, size |-> size]

\* A condition as a value: its additional parts are dropped.
ConvSexpr(c) ==
  CASE c.kind = "ARB" -> Lin(Const(TopVs), FALSE, 0)
    [] c.kind = "LIN" -> Lin(Linear(c.lhs), FALSE, 0)
    [] c.kind = "CMP" -> [kind |-> "cmp", cmp |-> ConvExprCmp(c).primary, size |-> 0]

\* Faulty variant: the sign of an extension is mixed up.
ConvExprZeroExtends(e) ==
  CASE e.kind = "BIN" -> IF e.op \in {"DIVS", "MODS"}
                         THEN Bin(Linear(e.lhs), IF e.op = "DIVS" THEN "DIV" ELSE "MOD", Linear(e.rhs), TRUE, Width)
                         ELSE Bin(Linear(e.lhs), e.op, Linear(e.rhs), FALSE, 0)
    [] e.kind = "EXT" -> Lin(Linear(e.lhs), FALSE, e.from)
    [] e.kind = "SEXPR" -> ConvSexpr(e.sexpr)

ConvExpr(e) ==
  CASE e.kind = "BIN" -> IF e.op \in {"DIVS", "MODS"}
                         THEN Bin(Linear(e.lhs), IF e.op = "DIVS" THEN "DIV" ELSE "MOD", Linear(e.rhs), TRUE, Width)
                         ELSE Bin(Linear(e.lhs), e.op, Linear(e.rhs), FALSE, 0)
    [] e.kind = "EXT" -> Lin(Linear(e.lhs), e.op = "SX", e.from)
    [] e.kind = "SEXPR" -> ConvSexpr(e.sexpr)

-----------------------------------------------------------------------------
(* The numeric domain: what an expression may be for integers p. *)

RECURSIVE SumOf(_, _)
SumOf(terms, p) ==
  IF terms = <<>> THEN 0 ELSE terms[1].scale * p[terms[1].var] + SumOf(Tail(terms), p)

LinValues(lin, p) ==
  IF lin.vs.top THEN Ints ELSE {SumOf(lin.terms, p) + x : x \in lin.vs.elements}

Holds(cmp, x) ==
  CASE cmp.op = "LE" -> x <= 0 [] cmp.op = "LT" -> x < 0 [] cmp.op = "GE" -> x >= 0
    [] cmp.op = "GT" -> x > 0 [] cmp.op = "EQ" -> x = 0 [] cmp.op = "NEQ" -> x # 0

MayHold(cmp, p) == \E x \in LinValues(cmp.opnd, p) : Holds(cmp, x)

\* Reading a number as a word of so many bits (with_sign_size).
Read(x, signed, size) ==
  LET u == x % (2 ^ size) IN IF signed /\ u >= 2 ^ (size - 1) THEN u - 2 ^ size ELSE u

\* int64_t division truncates; value_set::operator/ of exact numbers.
Quotient(x, y) ==
  LET abs(z) == IF z < 0 THEN -z ELSE z
      q == abs(x) \div abs(y)
  IN  IF (x < 0) = (y < 0) THEN q ELSE -q

\* num_evaluator: what it has no rule for can be anything.
BinValues(e, p) ==
  LET xs == LinValues(e.opnd1, p)  ys == LinValues(e.opnd2, p)
  IN  CASE e.op = "MUL" -> {x * y : x \in xs, y \in ys}
        [] e.op = "DIV" -> {Quotient(x, y) : x \in xs, y \in ys \ {0}}
        [] OTHER -> Ints

NumValues(e, p) ==
  LET xs == CASE e.kind = "lin" -> LinValues(e.opnd, p)
              [] e.kind = "bin" -> BinValues(e, p)
              [] e.kind = "cmp" -> {IF Holds(e.cmp, x) THEN 1 ELSE 0 : x \in LinValues(e.cmp.opnd, p)}
  IN  IF e.size = 0 THEN xs ELSE {Read(x, e.signed, e.size) : x \in xs}

-----------------------------------------------------------------------------
(* The same expressions on words, the semantics of RREIL *)

RECURSIVE Exactly(_, _)
Exactly(lin, w) ==
  CASE lin.op = "ADD" -> Exactly(lin.lhs, w) + Exactly(lin.rhs, w)
    [] lin.op = "SUB" -> Exactly(lin.lhs, w) - Exactly(lin.rhs, w)
    [] lin.op = "IMM" -> lin.imm
    [] lin.op = "SCALE" -> lin.const * Exactly(lin.opnd, w)
    [] lin.op = "VAR" -> w[lin.var]

UWord(lin, w) == Read(Exactly(lin, w), FALSE, Width)
SWord(lin, w) == Read(Exactly(lin, w), TRUE, Width)

\* The outcomes a condition may have.
Truth(c, w) ==
  CASE c.kind = "ARB" -> BOOLEAN
    [] c.kind = "LIN" -> {Exactly(c.lhs, w) % 2 = 1}
    [] c.kind = "CMP" ->
         {CASE c.op = "EQ" -> UWord(c.lhs, w) = UWord(c.rhs, w)
            [] c.op = "NEQ" -> UWord(c.lhs, w) # UWord(c.rhs, w)
            [] c.op = "LEU" -> UWord(c.lhs, w) <= UWord(c.rhs, w)
            [] c.op = "LTU" -> UWord(c.lhs, w) < UWord(c.rhs, w)
            [] c.op = "LES" -> SWord(c.lhs, w) <= SWord(c.rhs, w)
            [] c.op = "LTS" -> SWord(c.lhs, w) < SWord(c.rhs, w)}

Results(e, w) ==
  CASE e.kind = "BIN" ->
         (CASE e.op = "MUL" -> {UWord(e.lhs, w) * UWord(e.rhs, w)}
            [] e.op = "DIV" -> {UWord(e.lhs, w) \div y : y \in {UWord(e.rhs, w)} \ {0}}
            [] e.op = "DIVS" -> {Quotient(SWord(e.lhs, w), y) : y \in {SWord(e.rhs, w)} \ {0}}
            [] e.op = "AND" -> {0, UWord(e.lhs, w)})
    [] e.kind = "EXT" -> {Read(Exactly(e.lhs, w), e.op = "SX", e.from)}
    [] e.kind = "SEXPR" -> IF e.sexpr.kind = "LIN" THEN {Exactly(e.sexpr.lhs, w)}
                           ELSE {IF t THEN 1 ELSE 0 : t \in Truth(e.sexpr, w)}

-----------------------------------------------------------------------------

\* All the numbers lin may be are in a range.
Within(lin, lo, hi) == \A p \in possible : LinValues(Linear(lin), p) \subseteq lo..hi

AsUnsigned(e) == Within(e.lhs, 0, Modulus - 1) /\ Within(e.rhs, 0, Modulus - 1)
AsSigned(e) == Within(e.lhs, -Half, Half - 1) /\ Within(e.rhs, -Half, Half - 1)

\* The numbers compared or divided are what the operation takes the words for.
\* Nothing in the code sees to that: a sum is not wrapped.
CondReadable(c) ==
  CASE c.kind = "ARB" -> TRUE
    [] c.kind = "LIN" -> Within(c.lhs, 0, 1)
    [] c.kind = "CMP" -> IF c.op \in {"LEU", "LTU"} THEN AsUnsigned(c)
                         ELSE IF c.op \in {"LES", "LTS"} THEN AsSigned(c)
                         ELSE AsUnsigned(c) \/ AsSigned(c)

ExprReadable(e) ==
  CASE e.kind = "BIN" -> IF e.op = "DIV" THEN AsUnsigned(e) ELSE e.op = "DIVS" => AsSigned(e)
    [] e.kind = "EXT" -> TRUE
    [] e.kind = "SEXPR" -> e.sexpr.kind = "LIN" \/ CondReadable(e.sexpr)

Take(readable) ==
  /\ possible # {} /\ steps < MaxSteps
  /\ "wrapped" \in LeftOut => readable
  /\ steps' = steps + 1

\* summary_memory_state::update(assign)
Assign ==
  \E a \in Assignments :
    LET values(p) == NumValues(ConvExpr(a.exp), p)
    IN  /\ Take(ExprReadable(a.exp))
        /\ \A p \in possible : values(p) \subseteq Ints
        /\ \E x \in Results(a.exp, word) : word' = [word EXCEPT ![a.var] = x % Modulus]
        /\ possible' = UNION {{[p EXCEPT ![a.var] = x] : x \in values(p)} : p \in possible}
        /\ taken' = None

\* What is left of the state when these comparisons are assumed.
Restricted(cmps) == {p \in possible : \A c \in cmps : MayHold(c, p)}

\* A temporary takes the value of the condition; when that is v for sure, the branch
\* is not taken.
UnlessSurely(v, c, ps) ==
  IF UNION {NumValues(ConvSexpr(c), p) : p \in ps} = {v} THEN {} ELSE ps

Assume ==
  /\ \E c \in Conds :
       /\ Take(CondReadable(c)) /\ TRUE \in Truth(c, word)
       /\ taken' = [cond |-> c, outcome |-> TRUE]
       /\ LET r == ConvExprCmp(c)
          IN  possible' = UnlessSurely(0, c, Restricted({r.primary} \cup r.additional))
  /\ UNCHANGED word

\* Only the primary comparison is negated.
AssumeNot ==
  /\ \E c \in Conds :
       /\ Take(CondReadable(c)) /\ FALSE \in Truth(c, word)
       /\ taken' = [cond |-> c, outcome |-> FALSE]
       /\ LET r == ConvExprCmp(c)
          IN  possible' = UnlessSurely(1, c, Restricted({NegateCmp(r.primary)} \cup r.additional))
  /\ UNCHANGED word

Init ==
  /\ \E s \in Starts : possible = s /\ word \in s
  /\ taken = None /\ steps = 0

Next == Assign \/ Assume \/ AssumeNot

Spec == Init /\ [][Next]_vars

-----------------------------------------------------------------------------

\* A valuation of integers stands for the words they are congruent to.
Represents(p) == \A v \in Var \ Unknown : p[v] % Modulus = word[v]

\* The state covers the execution: no statement, and neither outcome of a
\* condition, loses the words the program has, whatever expression was converted.
Sound == \E p \in possible : Represents(p)

\* A branch tells all it can: behind it no number is left for which the words would
\* not have taken it, as far as the condition is about numbers that are known.
Decided ==
  taken.cond.kind = "CMP" /\ ~ConvExprCmp(taken.cond).primary.opnd.vs.top =>
    \A p \in possible : taken.outcome \in Truth(taken.cond, p)
=============================================================================
