--------------------------- MODULE EqualityState ----------------------------
(***************************************************************************)
(* The equality domain: classes of variables whose values differ by known  *)
(* offsets, kept above a child domain that knows the values.               *)
(*                                                                         *)
(* A class is stored under its representative, and a map back leads from   *)
(* each member there.  Beside the state runs the execution it is about,    *)
(* as in VsdState.  Of the child all this domain asks is whether a linear  *)
(* expression is one number, so the child here knows a number or nothing.  *)
(***************************************************************************)
EXTENDS Integers, Sequences, FiniteSetsExt, TLC

EqSq == INSTANCE SequencesExt

CONSTANTS MaxInt,    \* bound on the numbers of the program
          EqVar,     \* ids of variables, numbers in the order of id_less
          EqOthers,  \* states of other paths and of earlier visits
          EqExprs,   \* right-hand sides of assignments
          EqWeakExprs, \* and of assignments that may not happen
          EqCmps,    \* conditions
          EqRenames, \* pairs of a new name and the name it replaces
          EqLeftOut, \* the cases known to go wrong that do not occur
          Unknown    \* not a number

\* A linear expression: terms, and a constant that is a number or unknown.
IsEqLin(lin) ==
  /\ lin = [terms |-> lin.terms, c |-> lin.c] /\ lin.c \in Int \cup {Unknown}
  /\ lin.terms \in Seq([scale : Int, var : EqVar])

IsEqExp(exp) == exp.kind = "lin" => IsEqLin(exp.lin) /\ exp.sign \in {"NONE", "SIGNED", "UNSIGNED"}

\* A class is stored under its smallest member, and the map back leads there.
IsEq(s) ==
  /\ s = [classes |-> s.classes, back |-> s.back, child |-> s.child]
  /\ DOMAIN s.back \subseteq EqVar /\ s.back \in [DOMAIN s.back -> DOMAIN s.classes]
  /\ \A v \in DOMAIN s.back : v \in DOMAIN s.classes[s.back[v]]
  /\ s.classes = [r \in DOMAIN s.classes |-> s.classes[r]]
  /\ \A r \in DOMAIN s.classes :
       /\ s.classes[r] \in [DOMAIN s.classes[r] -> Int] /\ r \in DOMAIN s.classes[r]
       /\ \A m \in DOMAIN s.classes[r] : m \in DOMAIN s.back /\ s.back[m] = r /\ r <= m
  /\ s.child = [bottom |-> s.child.bottom, known |-> s.child.known] /\ s.child.bottom \in BOOLEAN
  /\ DOMAIN s.child.known \subseteq EqVar /\ s.child.known \in [DOMAIN s.child.known -> Int]

EqualityAssumption ==
  /\ MaxInt \in Nat /\ EqVar \subseteq Nat /\ IsFiniteSet(EqVar) /\ Unknown \notin Int
  /\ \A other \in EqOthers : IsEq(other)
  /\ \A exp \in EqExprs \cup EqWeakExprs : IsEqExp(exp)
  /\ \A cmp \in EqCmps : IsEqLin(cmp.opnd) /\ cmp.op \in {"EQ", "NEQ", "LE"}
  /\ EqRenames \subseteq EqVar \X EqVar

Ints == -MaxInt .. MaxInt
EqDead == [v \in {} |-> 0]
Valuations == [EqVar -> Ints]

VARIABLES eq,  \* the state: classes, the map back, and the child
          val  \* the values of the variables, or EqDead

eq_vars == <<eq, val>>

-----------------------------------------------------------------------------
(* The child *)

EqChild(known) == [bottom |-> FALSE, known |-> known]
EqBottomChild == [bottom |-> TRUE, known |-> <<>>]

EqState(classes, back, child) == [classes |-> classes, back |-> back, child |-> child]
EqTop == EqState(<<>>, <<>>, EqChild(<<>>))

EqForget(f, ids) == [x \in DOMAIN f \ ids |-> f[x]]

\* f, and g where f is not defined.
Over(f, g) == [x \in DOMAIN f \cup DOMAIN g |-> IF x \in DOMAIN f THEN f[x] ELSE g[x]]
Entry(x, y) == [z \in {x} |-> y]

\* A linear expression is added up.
Total(f, ids) == FoldSet(LAMBDA i, sum : f[i] + sum, 0, ids)
Products(terms, w) == [i \in DOMAIN terms |-> terms[i].scale * w[terms[i].var]]

\* The number a linear expression is, if the child knows all its variables.
EqChildVal(child, lin) ==
  IF lin.c = Unknown \/ \E i \in DOMAIN lin.terms : lin.terms[i].var \notin DOMAIN child.known
  THEN Unknown
  ELSE Total(Products(lin.terms, child.known), DOMAIN lin.terms) + lin.c

EqChildSet(child, v, x) ==
  IF child.bottom THEN child
  ELSE IF x = Unknown THEN [child EXCEPT !.known = EqForget(@, {v})]
  ELSE [child EXCEPT !.known = Over(Entry(v, x), @)]

EqHolds(x, op) == CASE op = "EQ" -> x = 0 [] op = "NEQ" -> x # 0 [] op = "LE" -> x <= 0

\* An equation whose variables are all known but one gives the last.
EqChildAssume(child, cmp) ==
  LET lin == cmp.opnd
      open == {i \in DOMAIN lin.terms : lin.terms[i].var \notin DOMAIN child.known}
      rest(i) == EqChildVal(child, [lin EXCEPT !.terms = EqSq!RemoveAt(@, i)])
  IN  IF child.bottom THEN child
      ELSE IF open = {} /\ lin.c # Unknown
      THEN IF EqHolds(EqChildVal(child, lin), cmp.op) THEN child ELSE EqBottomChild
      ELSE IF cmp.op = "EQ" /\ lin.c # Unknown /\ \E i \in open : open = {i} /\ lin.terms[i].scale \in {-1, 1}
      THEN LET i == CHOOSE i \in open : TRUE
           IN  EqChildSet(child, lin.terms[i].var, -lin.terms[i].scale * rest(i))
      ELSE child

EqChildJoin(a, b) ==
  IF b.bottom THEN a ELSE IF a.bottom THEN b
  ELSE EqChild([v \in {v \in DOMAIN a.known \cap DOMAIN b.known : a.known[v] = b.known[v]} |-> a.known[v]])

EqChildGreaterEq(a, b) ==
  \/ b.bottom
  \/ ~a.bottom /\ \A v \in DOMAIN a.known : v \in DOMAIN b.known /\ b.known[v] = a.known[v]

-----------------------------------------------------------------------------
(* Classes *)

Rep(s, v) == IF v \in DOMAIN s.back THEN s.back[v] ELSE v
Offset(s, v) == IF v \in DOMAIN s.back THEN s.classes[s.back[v]][v] ELSE 0

\* The ids of a map, the greatest first.
Descending(ids) ==
  CHOOSE seq \in [1 .. Cardinality(ids) -> ids] :
    /\ \A i, j \in 1 .. Cardinality(ids) : i < j => seq[i] > seq[j]
    /\ \A id \in ids : \E i \in 1 .. Cardinality(ids) : seq[i] = id

\* simplify: a member is replaced by its representative and its offset; the
\* terms come out with the greatest id first.
Simplify(s, lin) ==
  LET scales == [i \in DOMAIN lin.terms |-> lin.terms[i].scale]
      scale(r) == Total(scales, {i \in DOMAIN lin.terms : Rep(s, lin.terms[i].var) = r})
      offset == Total(Products(lin.terms, [v \in EqVar |-> Offset(s, v)]), DOMAIN lin.terms)
      reps == Descending({r \in EqVar : scale(r) # 0})
  IN  [terms |-> [i \in DOMAIN reps |-> [scale |-> scale(reps[i]), var |-> reps[i]]],
       c |-> IF lin.c = Unknown THEN Unknown ELSE lin.c + offset]

\* queryVal
EqQueryVal(s, lin) == EqChildVal(s.child, Simplify(s, lin))

\* A class moves to another representative.
Moved(s, rep, class, new) ==
  [s EXCEPT !.classes = Over(Entry(new, class), EqForget(@, {rep})),
            !.back = Over([m \in DOMAIN class |-> new], @)]

\* remove.  When the representative goes, the next member takes its place; the
\* offsets stay as they are.
Remove(s, v) ==
  IF v \notin DOMAIN s.back THEN s
  ELSE LET rep == s.back[v]
           left == EqForget(s.classes[rep], {v})
           rest == IF Cardinality(DOMAIN left) <= 1
                   THEN [s EXCEPT !.classes = EqForget(@, {rep}),
                                  !.back = EqForget(@, DOMAIN left)]
                   ELSE IF v = rep THEN Moved(s, rep, left, Min(DOMAIN left))
                   ELSE [s EXCEPT !.classes[rep] = left]
       IN  [rest EXCEPT !.back = EqForget(@, {v})]

\* A variable without a class gets one of its own.
WithClass(s, v) ==
  IF v \in DOMAIN s.back THEN s
  ELSE [s EXCEPT !.classes = Over(Entry(v, Entry(v, 0)), @), !.back = Over(Entry(v, v), @)]

\* merge: the class with the greater representative joins the other, with the
\* offsets it has.
Merge(s0, v, w) ==
  LET s == WithClass(WithClass(s0, v), w)
      first == Min({s.back[v], s.back[w]})
      second == Max({s.back[v], s.back[w]})
  IN  IF first = second THEN s
      ELSE Moved([s EXCEPT !.classes = EqForget(@, {second})], first,
                 Over(s.classes[first], s.classes[second]), first)

\* Faulty variant of InsertMember: the distances stay those to the old representative.
InsertUnrebased(s0, lhs, rhs, offset) ==
  LET s == WithClass(Remove(s0, lhs), rhs)
      rep == s.back[rhs]
      class == Over(Entry(lhs, offset), s.classes[rep])
  IN  Moved(s, rep, class, Min(DOMAIN class))

\* lhs becomes rhs + offset.  The new member takes over when its id is the
\* smallest.
InsertMember(s0, lhs, rhs, offset) ==
  LET s == WithClass(Remove(s0, lhs), rhs)
      rep == s.back[rhs]
      class == Over(Entry(lhs, offset), s.classes[rep])
  IN  IF lhs < Min(DOMAIN s.classes[rep])
      THEN Moved(s, rep, [m \in DOMAIN class |-> class[m] - offset], lhs)
      ELSE Moved(s, rep, class, rep)

\* A variable changes by offset: so do its distances.
ShiftMember(s, v, offset) ==
  IF v \notin DOMAIN s.back THEN s
  ELSE IF s.back[v] = v
  THEN [s EXCEPT !.classes[v] = [m \in DOMAIN @ |-> IF m = v THEN @[m] ELSE @[m] - offset]]
  ELSE [s EXCEPT !.classes[s.back[v]][v] = @ + offset]

AssignVar(s, lhs, rhs, offset) ==
  IF lhs = rhs THEN ShiftMember(s, lhs, offset) ELSE InsertMember(s, lhs, rhs, offset)

\* weak_assign_var: lhs keeps its class when rhs is in it, whatever the offset.
WeakAssignVar(s, lhs, rhs) ==
  IF lhs \in DOMAIN s.back /\ (rhs \notin DOMAIN s.back \/ s.back[rhs] # s.back[lhs])
  THEN Remove(s, lhs) ELSE s

\* What is added to the first variable of an expression, if it has no factor.
Rest(s, lin) ==
  IF lin.terms # <<>> /\ lin.terms[1].scale = 1 THEN EqQueryVal(s, [lin EXCEPT !.terms = Tail(@)])
  ELSE Unknown

\* assign_lin on a simplified expression: one variable, and a rest that is a
\* number.
AssignLin(s, lhs, lin, weak) ==
  IF Rest(s, lin) = Unknown THEN Remove(s, lhs)
  ELSE IF weak THEN WeakAssignVar(s, lhs, lin.terms[1].var)
  ELSE AssignVar(s, lhs, lin.terms[1].var, Rest(s, lin))

\* assign_expr: a zero extension is taken for what it extends.
AssignExpr(s, lhs, exp, weak) ==
  IF exp.kind = "lin" /\ exp.sign # "SIGNED"
  THEN AssignLin(s, lhs, Simplify(s, exp.lin), weak)
  ELSE Remove(s, lhs)

Wrapped(x, sign) ==
  IF x = Unknown \/ sign = "NONE" THEN x ELSE IF sign = "SIGNED" THEN -(x % 2) ELSE x % 2

ChildExpr(s, exp) ==
  IF exp.kind = "lin" THEN Wrapped(EqChildVal(s.child, Simplify(s, exp.lin)), exp.sign) ELSE Unknown

-----------------------------------------------------------------------------
(* Several states *)

\* join_widen: what a class of each of the two states agrees on.
JoinedClasses(a, b) ==
  LET class(s, v) == s.classes[s.back[v]]
      shared(v) == [m \in {m \in DOMAIN class(a, v) \cap DOMAIN class(b, v) :
                             class(a, v)[m] = class(b, v)[m]} |-> class(a, v)[m]]
      ids == {v \in DOMAIN a.back \cap DOMAIN b.back : Cardinality(DOMAIN shared(v)) > 1}
      members == UNION {DOMAIN shared(v) : v \in ids}
      last(m) == Max({v \in ids : m \in DOMAIN shared(v)})
      back == [m \in members |-> Min(DOMAIN shared(last(m)))]
      reps == {Min(DOMAIN shared(v)) : v \in ids}
  IN  [classes |-> [r \in reps |-> shared(Max({v \in ids : Min(DOMAIN shared(v)) = r}))],
       back |-> back]

EqJoined(a, b) ==
  LET c == JoinedClasses(a, b)
  IN  EqState(c.classes, c.back, EqChildJoin(a.child, b.child))

\* The child of numbers needs no widening.
EqGreaterEq(a, b) ==
  /\ EqChildGreaterEq(a.child, b.child)
  /\ \A v \in DOMAIN a.back :
       LET class == a.classes[a.back[v]]
       IN  Cardinality(DOMAIN class) > 1 =>
             /\ v \in DOMAIN b.back
             /\ \A m \in DOMAIN class : /\ m \in DOMAIN b.classes[b.back[v]]
                                        /\ b.classes[b.back[v]][m] = class[m]

EqBoxed(a, b) == IF EqGreaterEq(a, b) THEN EqState(b.classes, b.back, b.child) ELSE EqJoined(a, b)

-----------------------------------------------------------------------------
(* The execution *)

EqAlive == val # EqDead

LinValues(lin) ==
  {Total(Products(lin.terms, val), DOMAIN lin.terms) + c : c \in IF lin.c = Unknown THEN Ints ELSE {lin.c}}

EqExprValues(exp) ==
  IF exp.kind = "lin" THEN {Wrapped(x, exp.sign) : x \in LinValues(exp.lin)} ELSE Ints

\* The run goes on with numbers the model can represent, and distances between them.
EqContinue(s, v) ==
  /\ \A x \in DOMAIN s.child.known : s.child.known[x] \in Ints
  /\ \A r \in DOMAIN s.classes : \A m \in DOMAIN s.classes[r] : s.classes[r][m] \in -2 * MaxInt .. 2 * MaxInt
  /\ v # EqDead => v \in Valuations
  /\ eq' = s /\ val' = v

Related(s, v) ==
  \A r \in DOMAIN s.classes : \A m \in DOMAIN s.classes[r] : v[m] = v[r] + s.classes[r][m]

EqCovers(s, v) ==
  \/ v = EqDead
  \/ /\ ~s.child.bottom
     /\ \A x \in DOMAIN s.child.known : v[x] = s.child.known[x]
     /\ Related(s, v)

CoveredBy(s) == {EqDead} \cup {v \in Valuations : EqCovers(s, v)}

-----------------------------------------------------------------------------
(* The operations *)

EqInit == eq = EqTop /\ val \in Valuations

EqAssign(lhs, exp) ==
  LET x == ChildExpr(eq, exp)
      s == [AssignExpr(eq, lhs, exp, FALSE) EXCEPT !.child = EqChildSet(@, lhs, x)]
  IN  IF EqAlive THEN \E y \in EqExprValues(exp) : EqContinue(s, [val EXCEPT ![lhs] = y])
      ELSE EqContinue(s, EqDead)

\* The assignment happens or it does not.
EqWeakAssign(lhs, exp) ==
  LET x == ChildExpr(eq, exp)
      known == IF lhs \in DOMAIN eq.child.known /\ eq.child.known[lhs] = x THEN x ELSE Unknown
      s == [AssignExpr(eq, lhs, exp, TRUE) EXCEPT !.child = EqChildSet(@, lhs, known)]
  IN  IF EqAlive
      THEN \E y \in {val[lhs]} \cup EqExprValues(exp) : EqContinue(s, [val EXCEPT ![lhs] = y])
      ELSE EqContinue(s, EqDead)

\* The two variables of a condition A - B = 0: the first term counts always, the
\* second when the rest is zero.
EqualPair(s, cmp) ==
  LET terms == cmp.opnd.terms
      counted == {i \in DOMAIN terms \cap {1, 2} :
                    i = 1 \/ EqQueryVal(s, [cmp.opnd EXCEPT !.terms = SubSeq(@, 3, Len(@))]) = 0}
      last(scale) == {i \in counted : terms[i].scale = scale}
  IN  IF cmp.op = "EQ" /\ last(1) # {} /\ last(-1) # {}
      THEN <<terms[Max(last(1))].var, terms[Max(last(-1))].var>> ELSE <<>>

\* What the child has learnt of a variable is assigned to those of its class, at
\* the distance from the representative.
Spread(s, v) ==
  IF s.child.bottom \/ v \notin DOMAIN s.back THEN s
  ELSE LET class == s.classes[s.back[v]]
           others == DOMAIN class \ {v}
           value(m) == s.child.known[v] + (IF s.back[v] = v THEN class[m] ELSE -class[v])
       IN  IF v \notin DOMAIN s.child.known THEN [s EXCEPT !.child.known = EqForget(@, others)]
           ELSE [s EXCEPT !.child.known = Over([m \in others |-> value(m)], @)]

\* The state with the two variables of a condition A - B = 0 in one class.
WithPair(s, cmp) ==
  LET pair == EqualPair(s, cmp)
  IN  IF pair = <<>> THEN s ELSE Merge(s, pair[1], pair[2])

EqAssumeState(s, cmp) ==
  IF s.child.bottom THEN s
  ELSE LET constrained == [WithPair(s, cmp) EXCEPT !.child = EqChildAssume(@, cmp)]
           vs == {cmp.opnd.terms[i].var : i \in DOMAIN cmp.opnd.terms}
       IN  FoldSet(LAMBDA v, t : Spread(t, v), constrained, vs)

Passes(cmp) == EqAlive /\ \E x \in LinValues(cmp.opnd) : EqHolds(x, cmp.op)

EqAssume(cmp) == EqContinue(EqAssumeState(eq, cmp), IF Passes(cmp) THEN val ELSE EqDead)

EqKill(v) ==
  LET s == [Remove(eq, v) EXCEPT !.child = EqChildSet(@, v, Unknown)]
  IN  IF EqAlive THEN \E x \in Ints : EqContinue(s, [val EXCEPT ![v] = x]) ELSE EqContinue(s, EqDead)

EqProject(ids) ==
  LET s == FoldSet(LAMBDA v, t : Remove(t, v), eq, DOMAIN eq.back \ ids)
  IN  EqContinue([s EXCEPT !.child.known = EqForget(@, EqVar \ ids)], val)

Cleanup(v) ==
  /\ v \in DOMAIN eq.back /\ Cardinality(DOMAIN eq.classes[eq.back[v]]) < 2
  /\ EqContinue(Remove(eq, v), val)

\* a takes the place of b.  a is a new name.
EqEquateKill(a, b) ==
  /\ a # b /\ a \notin DOMAIN eq.back \cup DOMAIN eq.child.known
  /\ LET s == [Remove(AssignVar(eq, a, b, 0), b) EXCEPT
                 !.child = IF b \in DOMAIN @.known
                           THEN EqChildSet(EqChildSet(@, a, @.known[b]), b, Unknown) ELSE @]
     IN  IF EqAlive THEN \E x \in Ints : EqContinue(s, [val EXCEPT ![a] = val[b], ![b] = x])
         ELSE EqContinue(s, EqDead)

\* A new variable gets the number another state knows; its equalities stay there.
CopyPaste(to, from, other) ==
  /\ ~eq.child.bottom /\ to \notin DOMAIN eq.back \cup DOMAIN eq.child.known
  /\ LET s == IF from \in DOMAIN other.child.known
              THEN [eq EXCEPT !.child = EqChildSet(@, to, other.child.known[from])] ELSE eq
     IN  IF EqAlive
         THEN \E v \in CoveredBy(other) \ {EqDead} : EqContinue(s, [val EXCEPT ![to] = v[from]])
         ELSE EqContinue(s, EqDead)

EqJoin(other) ==
  \E v \in {val} \cup CoveredBy(other) : EqContinue(EqJoined(eq, other), v)

EqBox(other) == \E v \in CoveredBy(other) : EqContinue(EqBoxed(eq, other), v)

-----------------------------------------------------------------------------
(* Five cases the code gets wrong.  EqLeftOut names those a behaviour does   *)
(* without.                                                                  *)

LeavesOut(case, occurs) == case \in EqLeftOut => ~occurs

\* A representative goes and the distances that are left are still those to it.
Unrebased(s, ids) == \E r \in DOMAIN s.classes \cap ids : \E m \in DOMAIN s.classes[r] : s.classes[r][m] # 0

\* A representative is at distance 0 from itself, as simplify relies on.
Rebased(s) == \A r \in DOMAIN s.classes : s.classes[r][r] = 0

IsLin(exp, signs) == exp.kind = "lin" /\ exp.sign \in signs
Distance(exp) == Rest(eq, Simplify(eq, exp.lin))
Source(exp) == Simplify(eq, exp.lin).terms[1].var

\* lhs leaves its class, unless it only moves in it.
AssignRemoves(lhs, exp) ==
  ~(IsLin(exp, {"NONE", "UNSIGNED"}) /\ Distance(exp) # Unknown /\ Source(exp) = lhs)

\* A weak assignment keeps lhs where it is if the source is in its class ...
WeakKeeps(lhs, exp) ==
  /\ IsLin(exp, {"NONE", "UNSIGNED"}) /\ Distance(exp) # Unknown
  /\ {lhs, Source(exp)} \subseteq DOMAIN eq.back /\ eq.back[lhs] = eq.back[Source(exp)]

\* ... at whatever distance.
OtherDistance(lhs, exp) == Distance(exp) # Offset(eq, lhs)

\* The two variables of a condition A - B = 0 get into one class with the distances
\* they have to their representatives.
Displaced(cmp) ==
  LET pair == EqualPair(eq, cmp) IN pair # <<>> /\ Offset(eq, pair[1]) # Offset(eq, pair[2])

\* What is known of a variable that is no representative is assigned to all of its
\* class at the distance of the representative.
Misspread(cmp) ==
  LET s == WithPair(eq, cmp)
  IN  \E i \in DOMAIN cmp.opnd.terms :
        LET v == cmp.opnd.terms[i].var
        IN  /\ v \in DOMAIN s.back /\ s.back[v] # v
            /\ \E m \in DOMAIN s.classes[s.back[v]] : s.classes[s.back[v]][m] # 0

EqNext ==
  \/ \E lhs \in EqVar, exp \in EqExprs :
       /\ LeavesOut("extended", IsLin(exp, {"UNSIGNED"}))
       /\ LeavesOut("unrebased", AssignRemoves(lhs, exp) /\ Unrebased(eq, {lhs}))
       /\ EqAssign(lhs, exp)
  \/ \E lhs \in EqVar, exp \in EqWeakExprs :
       /\ LeavesOut("extended", IsLin(exp, {"UNSIGNED"}))
       /\ LeavesOut("unrebased", ~WeakKeeps(lhs, exp) /\ Unrebased(eq, {lhs}))
       /\ LeavesOut("weak", WeakKeeps(lhs, exp) /\ OtherDistance(lhs, exp))
       /\ EqWeakAssign(lhs, exp)
  \/ \E cmp \in EqCmps :
       /\ LeavesOut("displaced", Displaced(cmp))
       /\ LeavesOut("spread", Misspread(cmp))
       /\ EqAssume(cmp)
  \/ \E v \in EqVar : LeavesOut("unrebased", Unrebased(eq, {v})) /\ EqKill(v)
  \/ \E v \in EqVar : Cleanup(v)
  \/ \E ids \in SUBSET EqVar : LeavesOut("unrebased", Unrebased(eq, EqVar \ ids)) /\ EqProject(ids)
  \/ \E rename \in EqRenames :
       /\ LeavesOut("unrebased", Unrebased(AssignVar(eq, rename[1], rename[2], 0), {rename[2]}))
       /\ LeavesOut("displaced", Offset(eq, rename[2]) # 0)
       /\ EqEquateKill(rename[1], rename[2])
  \/ \E other \in EqOthers :
       \/ LeavesOut("unrebased", ~Rebased(EqJoined(eq, other))) /\ EqJoin(other)
       \/ LeavesOut("unrebased", ~Rebased(EqBoxed(eq, other))) /\ EqBox(other)
       \/ \E to, from \in EqVar : CopyPaste(to, from, other)

EqSpec == EqInit /\ [][EqNext]_eq_vars

-----------------------------------------------------------------------------

EqTypeOK ==
  /\ val \in Valuations \cup {EqDead}
  /\ DOMAIN eq.back \subseteq EqVar /\ eq.child.bottom \in BOOLEAN
  /\ DOMAIN eq.child.known \subseteq EqVar
  /\ \A r \in DOMAIN eq.classes : \A m \in DOMAIN eq.classes[r] : eq.classes[r][m] \in Int

\* The map back and the classes are two views of one partition, and a class is
\* found under its smallest id.  remove, merge and assign_var each change both;
\* elements.at throws where they disagree.
Indexed ==
  /\ DOMAIN eq.back = UNION {DOMAIN eq.classes[r] : r \in DOMAIN eq.classes}
  /\ \A r \in DOMAIN eq.classes :
       /\ r = Min(DOMAIN eq.classes[r])
       /\ \A m \in DOMAIN eq.classes[r] : eq.back[m] = r

\* The variables of a class are at the distances it says, and have the values
\* the child knows, in whatever order they were assigned, compared and forgotten.
EqCovered == EqCovers(eq, val)

\* What fixpoint::iterate relies on: a join lies above both states in the order
\* that decides stability, and a box above the new one.
EqEngineBounds ==
  \A b \in EqOthers :
    /\ EqGreaterEq(EqJoined(eq, b), eq) /\ EqGreaterEq(EqJoined(eq, b), b)
    /\ EqGreaterEq(EqBoxed(eq, b), b)

\* Beside any run the classes, their distances and the values are true of it; the two
\* maps agree; joins and boxes bound.  So it is while the five cases do not occur.
EqSound == EqTypeOK /\ Indexed /\ EqCovered /\ EqEngineBounds

\* A run that passes a condition A - B = 0 has equal A and B, and the state behind it
\* says so.
MadeEqual(cmp) ==
  LET pair == EqualPair(eq, cmp)
      s == EqAssumeState(eq, cmp)
  IN  Passes(cmp) /\ pair # <<>> =>
        Rep(s, pair[1]) = Rep(s, pair[2]) /\ Offset(s, pair[1]) = Offset(s, pair[2])

\* Behind a condition on v the variables equal to v are known to have its value.
ValueSpread(cmp) ==
  LET s == EqAssumeState(eq, cmp)
  IN  Passes(cmp) =>
        \A i \in DOMAIN cmp.opnd.terms : \A m \in DOMAIN s.back :
          LET v == cmp.opnd.terms[i].var
          IN  v \in DOMAIN s.back \cap DOMAIN s.child.known
                /\ s.back[m] = s.back[v] /\ Offset(s, m) = Offset(s, v)
              => m \in DOMAIN s.child.known /\ s.child.known[m] = s.child.known[v]
=============================================================================
