---------------------------- MODULE MCRelations ----------------------------
(***************************************************************************)
(* The two domains that relate variables, each alone: what they may point  *)
(* to, and at which distances they are from each other.  part names the    *)
(* one that runs.                                                          *)
(***************************************************************************)
EXTENDS AlsState, EqualityState

CONSTANT Parts
VARIABLE part

Term(scale, v) == [scale |-> scale, var |-> v]
LinOf(terms, c) == [terms |-> terms, c |-> c]

-----------------------------------------------------------------------------
(* AlsState: two variables and two symbolic pointers. *)

MCVar == {"x", "y"}
MCPtr == {"p", "q"}
MCAddress == [id \in MCPtr |-> IF id = "p" THEN {1, 2} ELSE {1}]
X == Term(1, "x")
Y == Term(1, "y")

Zero == LinOf(<<>>, {0})
Lin(terms, c) == [kind |-> "lin", opnd1 |-> LinOf(terms, c), opnd2 |-> Zero]
CmpOf(terms, c, op) == [kind |-> "lin", opnd1 |-> LinOf(terms, c), opnd2 |-> Zero, op |-> op]

MCExprs ==
  {Lin(<<X>>, {1}), Lin(<<X, Y>>, {0}),
   [kind |-> "bin", opnd1 |-> LinOf(<<X>>, {0}), opnd2 |-> LinOf(<<Y>>, {1})]}

MCCmps ==
  {CmpOf(<<X>>, {0}, "NEQ"), CmpOf(<<X, Term(-1, "y")>>, {0}, "EQ"),
   CmpOf(<<X, Term(-1, "y")>>, {0}, "LE")}

At(id, offset) == [id |-> id, offset |-> offset]
MCPtrSets ==
  {{At("bad", {0}), At("p", {0}), At("q", {1})}}

MCRenames == {<<<<"x", "y">>>>, <<<<"y", "x">>, <<"p", "q">>>>}

StateOf(fwd, child) == State(FoldSet(LAMBDA v, m : Put(m, v, fwd[v]), NoElements, DOMAIN fwd),
                             [v \in Var |-> IF v \in DOMAIN child THEN child[v] ELSE Values])
MCOthers ==
  {Bottom,
   StateOf("x" :> {"null"} @@ "y" :> {"q"}, "x" :> {1} @@ "y" :> {0, 1})}

-----------------------------------------------------------------------------
(* EqualityState: four variables, so that a class can lose its smallest id,  *)
(* one can join in front of it, and two classes of two can merge.            *)

MCEqVar == 1 .. 4

EqLin(terms, c) == [kind |-> "lin", sign |-> "NONE", lin |-> LinOf(terms, c)]
EqCmp(terms, c, op) == [opnd |-> LinOf(terms, c), op |-> op]
Shifted(v, c) == EqLin(<<Term(1, v)>>, c)

MCEqExprs ==
  {Shifted(v, c) : v \in {1, 3}, c \in {0, 1}} \cup {Shifted(2, -1), Shifted(4, 0), EqLin(<<>>, 1)}
  \cup {Shifted(1, Unknown), EqLin(<<Term(2, 3), Term(-1, 1)>>, 0),
        EqLin(<<Term(2, 1)>>, 0), [Shifted(2, 0) EXCEPT !.sign = "SIGNED"], [kind |-> "bin"]}

MCEqWeakExprs == {Shifted(v, 0) : v \in MCEqVar} \cup {Shifted(1, 1), EqLin(<<>>, 1), [kind |-> "bin"]}

MCEqCmps ==
  {EqCmp(<<Term(1, 1), Term(-1, 2)>>, 0, op) : op \in {"EQ", "NEQ", "LE"}}
  \cup {EqCmp(<<Term(-1, 2), Term(1, 3)>>, 0, "EQ"), EqCmp(<<Term(1, 4), Term(-1, 2)>>, 0, "EQ"),
        EqCmp(<<Term(1, 2)>>, 1, "EQ"), EqCmp(<<Term(1, 1), Term(-1, 3)>>, -1, "EQ")}

MCEqState(classes, back, bottom, known) ==
  [classes |-> classes, back |-> back, child |-> [bottom |-> bottom, known |-> known]]
Class(rep, class) == MCEqState(rep :> class, [m \in DOMAIN class |-> rep], FALSE, <<>>)

MCEqOthers ==
  {MCEqState(<<>>, <<>>, TRUE, <<>>), Class(1, 1 :> 0 @@ 2 :> 1 @@ 3 :> 0), Class(1, 1 :> 0 @@ 4 :> 0),
   Class(2, 2 :> 0 @@ 3 :> 1), MCEqState(<<>>, <<>>, FALSE, 1 :> 1 @@ 2 :> 1)}

MCEqRenames == {<<1, 2>>, <<2, 1>>, <<3, 1>>, <<2, 4>>, <<4, 3>>}

-----------------------------------------------------------------------------

PartInit ==
  /\ part \in Parts
  /\ IF part = "als" THEN Init ELSE als = Bottom /\ run = Dead
  /\ IF part = "equality" THEN EqInit ELSE eq = EqTop /\ val = EqDead

PartNext ==
  /\ part' = part
  /\ \/ part = "als" /\ Next /\ UNCHANGED eq_vars
     \/ part = "equality" /\ EqNext /\ UNCHANGED vars

PartSpec == PartInit /\ [][PartNext]_<<part, vars, eq_vars>>

-----------------------------------------------------------------------------

\* EqualityState: the variables of a class are at the distances it says, in whatever
\* order they were assigned, moved, compared and forgotten; the map back and the classes
\* are two views of one partition; joins and boxes are the bounds fixpoint relies on.
EqualitySound == part = "equality" => EqSound

\* EqualityState: a condition A - B = 0 yields "new knowledge about equal variables"
\* (equality_state.cpp:468-469): behind it the two are in one class at one distance.
AssumedEqual == part = "equality" => \A cmp \in EqCmps : MadeEqual(cmp)

\* EqualityState: what a condition tells of a variable reaches "all other variables they
\* are equal to" (equality_state.cpp:504-505): those at its distance have its value.
EqualsKnown == part = "equality" => \A cmp \in EqCmps : ValueSpread(cmp)
=============================================================================
