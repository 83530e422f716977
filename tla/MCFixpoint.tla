---------------------------- MODULE MCFixpoint ----------------------------
(***************************************************************************)
(* Instances of Fixpoint for TLC: a gen/kill analysis over three facts.    *)
(* "r" stands for reachability, so the empty set is the bottom of an       *)
(* analysis whose transformers are strict.  part says in which order the    *)
(* nodes are visited.                                                      *)
(***************************************************************************)
EXTENDS Fixpoint, FiniteSetsExt, TLC

CONSTANT Parts
VARIABLE part

Facts == {"r", "a", "b"}
MCState == SUBSET Facts
MCBottom == {}
MCStartState(v) == {"r"}

MCPayload == {"skip", "gen_a", "kill_a", "a_to_b"}
MCTransform(u, v, p, s) ==
  IF s = {} THEN {}
  ELSE CASE p = "skip"   -> s
         [] p = "gen_a"  -> s \cup {"a"}
         [] p = "kill_a" -> s \ {"a"}
         [] p = "a_to_b" -> IF "a" \in s THEN s \cup {"b"} ELSE s

MCJoin(s, t) == s \cup t
MCGeq(s, t) == t \subseteq s
MCBefore(m, n) == m < n

\* Widening to top; and the domains whose widening is their join.
WidenTop(s, t) == Facts
WidenJoin(s, t) == s \cup t
MCNarrow(s, t) == t

\* The nodes are numbered in address order but for node 4, which lies before 0;
\* the edge from 3 to it is a call.
MCJumpDir(u, v) == IF <<u, v>> = <<3, 4>> THEN "UNKNOWN"
                   ELSE IF v = 4 THEN "BACKWARD"
                   ELSE IF v < u THEN "BACKWARD" ELSE "FORWARD"

\* An entry, a loop 1-2 with an exit 3, and a second function at 4.  In
\* OneGraph a jump backwards that closes no loop leads there as well, whose
\* constraint is evaluated before that of the call.
MCNode == 0..5
MCInitNodes == 0..4
MCGraph == (<<0, 1>> :> "gen_a") @@ (<<1, 2>> :> "skip")
             @@ (<<2, 1>> :> "a_to_b") @@ (<<1, 3>> :> "skip")
OneGraph == {MCGraph @@ (<<0, 4>> :> "skip") @@ (<<3, 4>> :> "skip")}

\* Every graph made of some of these edges: nested and overlapping loops, loops
\* entered in the middle, loops without an entry, unreachable parts.
MCAnyEdge == MCGraph @@ (<<0, 2>> :> "skip") @@ (<<3, 1>> :> "kill_a")
               @@ (<<3, 2>> :> "gen_a") @@ (<<2, 3>> :> "a_to_b")
               @@ (<<2, 0>> :> "skip") @@ (<<3, 4>> :> "skip")
ManyGraphs == UNION {{[e \in S |-> MCAnyEdge[e]]} : S \in SUBSET DOMAIN MCAnyEdge}

MCNewPayload(e) == IF e = <<3, 1>> THEN "kill_a" ELSE "skip"

\* The loop's exit resolves a jump back to 1; that edge resolves a call, whose
\* target 5 is a new node.  It may leave the state of 1 as it was: what it
\* passes on may have reached 1 before.
MCDiscovers(u, v, p, s) ==
  IF <<u, v>> = <<1, 3>> /\ "b" \in s THEN {<<3, 1>>}
  ELSE IF <<u, v>> = <<3, 1>> /\ "a" \in s THEN {<<1, 5>>}
  ELSE {}

\* An edge is redirected (phi_inserter puts and erases in one batch), one gets
\* another payload, one makes a node its own predecessor, one disappears.
MCChanges == {[put |-> <<0, 2>> :> "gen_a", erase |-> {<<0, 1>>}],
              [put |-> <<2, 1>> :> "kill_a", erase |-> {}],
              [put |-> <<2, 2>> :> "skip", erase |-> {}],
              [put |-> <<>>, erase |-> {<<1, 3>>}]}
NoChanges == {}

\* The worklist in an arbitrary order.
AnyBefore(m, n) == TRUE

\* Graphs in which the nodes that edges are found to have predecessors from the
\* beginning: a node that gains its first one gives up its start state.
EnteredGraphs ==
  {g \in ManyGraphs : /\ DOMAIN MCGraph \subseteq DOMAIN g
                      /\ <<2, 0>> \notin DOMAIN g /\ <<3, 4>> \in DOMAIN g}

-----------------------------------------------------------------------------
(* "any_order": nodes visited in every order, with a domain whose widening  *)
(* is its join; "ordered": what the configuration says.                     *)

AnyOrder == INSTANCE Fixpoint
              WITH InitGraphs <- EnteredGraphs, Changes <- NoChanges, MaxChanges <- 0,
                   Widen <- WidenJoin, Before <- AnyBefore

\* What LeastSafe asks of the domain and of the edges that are found.
ASSUME LeastHypotheses == AnyOrder!Monotone /\ AnyOrder!EntriesKept

PartInit == /\ part \in Parts
            /\ IF part = "ordered" THEN Init ELSE AnyOrder!Init

PartNext == /\ part' = part
            /\ IF part = "ordered" THEN Next ELSE AnyOrder!Next

\* iterate runs on the only thread, its loop is never interrupted.
PartSpec == PartInit /\ [][PartNext]_<<vars, part>>
PartFairSpec == PartSpec /\ WF_<<vars, part>>(pc # "idle" /\ PartNext)

-----------------------------------------------------------------------------
(* Reference: the least solution of the constraints, by Kleene iteration. *)

Step(s) == [v \in nodes |->
              IF InEdges(v) = {} THEN StartState(v)
              ELSE UNION {Transform(u, v, payload[<<u, v>>], s[u]) : u \in InEdges(v)}]

LeastSolution ==
  FoldSet(LAMBDA i, s : Step(s), [v \in nodes |-> Bottom], 1..18)

\* With transformers that are monotone and a domain whose widening is its join
\* (reaching definitions, liveness, machine addresses), iterate computes the
\* least solution for the graph it ends up with, in whatever order the nodes
\* are visited: overwriting states and starting from the roots loses nothing
\* and adds nothing, and no edge is found for a state no run can be in.
Exact == part = "any_order" /\ Stable => \A v \in nodes : state[v] = LeastSolution[v]
============================================================================
