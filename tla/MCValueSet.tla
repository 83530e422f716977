----------------------------- MODULE MCValueSet -----------------------------
(***************************************************************************)
(* The numeric domains, each alone: value sets, the state that has one for *)
(* each variable, and the converter in front of them.  part names the one  *)
(* that runs.                                                              *)
(***************************************************************************)
EXTENDS ValueSet, VsdState

CONSTANT Parts

VARIABLES part,
          word, possible, taken, steps

-----------------------------------------------------------------------------
(* ValueSet: every value set over -2..2.                                    *)

MCOperands == Finites \cup Opens \cup {TopVs}

-----------------------------------------------------------------------------
(* VsdState: two variables and a symbol of the binary. *)

Env(elements) == [bottom |-> FALSE, elements |-> elements]
VsdVar == {"x", "y"}
MCAddress == "sym" :> 1
MCOthers ==
  {[bottom |-> TRUE, elements |-> <<>>], Env(<<>>), Env("x" :> Single(0)),
   Env("y" :> OpenVs("DOWNWARD", 1)), Env("x" :> FiniteVs({-1, 1}) @@ "y" :> OpenVs("UPWARD", 0)),
   Env("x" :> OpenVs("UPWARD", 1) @@ "y" :> Single(1))}

Term(scale, v) == [scale |-> scale, var |-> v]
LinOf(terms, vs) == [terms |-> terms, vs |-> vs]
Plain(lin) == [kind |-> "lin", inner |-> lin, size |-> 0, unsigned |-> FALSE]
Bin(a, op, b) == [kind |-> "bin", opnd1 |-> a, op |-> op, opnd2 |-> b, size |-> 0, unsigned |-> FALSE]
CmpOf(lin, op) == [kind |-> "cmp", opnd |-> lin, op |-> op, size |-> 0, unsigned |-> FALSE]
Sized(exp, unsigned, size) == [exp EXCEPT !.unsigned = unsigned, !.size = size]

Const(vs) == LinOf(<<>>, vs)
X == LinOf(<<Term(1, "x")>>, Single(0))
Y == LinOf(<<Term(1, "y")>>, Single(0))
XPlus1 == LinOf(<<Term(1, "x")>>, Single(1))
YMinus2X == LinOf(<<Term(1, "y"), Term(-2, "x")>>, Single(0))
XMinusY == LinOf(<<Term(1, "x"), Term(-1, "y")>>, Single(0))
Pointers == LinOf(<<Term(1, "sym"), Term(-1, "null"), Term(1, "y")>>, Single(0))

MCExprs ==
  {Plain(lin) : lin \in {Const(Single(1)), Const(TopVs), XPlus1, YMinus2X, Pointers,
                         LinOf(<<Term(1, "bad")>>, Single(0))}}
  \cup {CmpOf(XMinusY, "LT"), CmpOf(X, "NEQ")}
  \cup {Bin(X, "MUL", Y), Bin(X, "XOR", X), Bin(Const(Single(0)), "SHL", Y), Bin(X, "AND", Y),
        Bin(X, "DIV", Const(Single(-1))), Sized(Plain(Const(FiniteVs({-1, 1}))), FALSE, 1)}

MCCmps ==
  {CmpOf(XMinusY, op) : op \in {"LE", "LT", "GE", "GT", "EQ", "NEQ"}}
  \cup {CmpOf(LinOf(<<Term(2, "x"), Term(-1, "y")>>, Single(1)), op) : op \in {"EQ", "GE", "NEQ"}}
  \cup {CmpOf(LinOf(<<Term(-1, "y")>>, Single(1)), "LT"), CmpOf(Const(TopVs), "EQ")}

-----------------------------------------------------------------------------
(* Converter: words of three bits; two registers, and a part of a register   *)
(* the numeric domain has no variable for.                                   *)

Imm(x) == [op |-> "IMM", imm |-> x]
V(v) == [op |-> "VAR", var |-> v]
Scale(x, l) == [op |-> "SCALE", const |-> x, opnd |-> l]
Add(l, r) == [op |-> "ADD", lhs |-> l, rhs |-> r]
Sub(l, r) == [op |-> "SUB", lhs |-> l, rhs |-> r]

BinE(l, op, r) == [kind |-> "BIN", op |-> op, lhs |-> l, rhs |-> r]
Ext(op, from, l) == [kind |-> "EXT", op |-> op, from |-> from, lhs |-> l]
Sexpr(c) == [kind |-> "SEXPR", sexpr |-> c]
CmpC(l, op, r) == [kind |-> "CMP", op |-> op, lhs |-> l, rhs |-> r]
LinC(l) == [kind |-> "LIN", lhs |-> l]
Arbitrary == [kind |-> "ARB"]

MCVar == {"a", "b", "u"}

Lins == {Add(V("a"), Imm(-1)), Sub(V("b"), Scale(2, V("a"))), Scale(-1, Sub(V("a"), V("b"))),
         Sub(Imm(1), Sub(V("a"), Imm(2))), Add(V("b"), V("u"))}

MCConds == {CmpC(V("a"), op, V("b")) : op \in {"EQ", "NEQ", "LEU", "LTU", "LES", "LTS"}}
             \cup {CmpC(Sub(V("b"), V("a")), op, Imm(2)) : op \in {"LEU", "LTU", "LES"}}
             \cup {CmpC(V("a"), "LTU", V("u")), LinC(V("b")), LinC(Sub(V("a"), V("b"))), Arbitrary}

MCAssignments ==
  {[var |-> "a", exp |-> Sexpr(LinC(l))] : l \in Lins}
  \cup {[var |-> "b", exp |-> Sexpr(c)] : c \in MCConds \ {LinC(V("b"))}}
  \cup {[var |-> "b", exp |-> BinE(V("a"), op, Sub(V("b"), Imm(1)))] : op \in {"MUL", "DIV", "DIVS", "AND"}}
  \cup {[var |-> "a", exp |-> Ext(op, n, Add(V("a"), V("b")))] : op \in {"ZX", "SX"}, n \in {1, 2}}

Valuation(x, y) == [v \in MCVar |-> CASE v = "a" -> x [] v = "b" -> y [] v = "u" -> 0]
MCStarts == {{Valuation(x, y)} : x \in 0..7, y \in 0..7}
              \cup {{Valuation(x, 2) : x \in 0..3}, {Valuation(x, x) : x \in {0, 1, 3, 6}}}

Conv == INSTANCE Converter
          WITH Var <- MCVar, Unknown <- {"u"}, Width <- 3, Bound <- 16, Assignments <- MCAssignments,
               Conds <- MCConds, Starts <- MCStarts, LeftOut <- {"wrapped"}, MaxSteps <- 2

ASSUME ConverterAssumption == Conv!ConverterAssumption

-----------------------------------------------------------------------------

conv_vars == <<word, possible, taken, steps>>

NoValue == abs = Single(0) /\ val = 0
NoVsd == env = State(<<>>) /\ valuation = Dead /\ assuming = None
NoConv == word = 0 /\ possible = 0 /\ taken = 0 /\ steps = 0

PartInit ==
  /\ part \in Parts
  /\ IF part = "value" THEN Init ELSE NoValue
  /\ IF part = "vsd" THEN VsdInit ELSE NoVsd
  /\ IF part = "converter" THEN Conv!Init ELSE NoConv

PartNext ==
  /\ part' = part
  /\ \/ part = "value" /\ Next /\ UNCHANGED <<vsd_vars, conv_vars>>
     \/ part = "vsd" /\ VsdNext /\ UNCHANGED <<vars, conv_vars>>
     \/ part = "converter" /\ Conv!Next /\ UNCHANGED <<vars, vsd_vars>>

PartSpec == PartInit /\ [][PartNext]_<<part, vars, vsd_vars, conv_vars>>

-----------------------------------------------------------------------------

\* VsdState: joins and boxes are bounds in the order that decides stability, a state
\* that is widened climbs, and the loop of assume ends.
VsdEngineBounds == part = "vsd" => EngineBounds /\ AssumeEnds

\* Converter: no statement and neither outcome of a condition loses the words the
\* program has, and a branch tells all it can.
ConverterExact == part = "converter" => Conv!Sound /\ Conv!Decided
=============================================================================
