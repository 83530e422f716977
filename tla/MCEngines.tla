----------------------------- MODULE MCEngines -----------------------------
(***************************************************************************)
(* The engines in front of and beside fixpoint::iterate, each alone: roots *)
(* of a dependency graph, and the interprocedural analysis, without and    *)
(* with a context for each pointer.  part names the one that runs.         *)
(***************************************************************************)
EXTENDS FpRoots, FiniteSetsExt, TLC

CONSTANT Parts

VARIABLES part, prog, sd, pending, worklist, postponed, cpu

-----------------------------------------------------------------------------
(* FpRoots: four nodes; every subset of these edges is a dependency graph.  *)
(* They hold a self loop, cycles of two and of three nodes, a diamond, a    *)
(* chain numbered against the edges (so that roots are withdrawn), and      *)
(* edges that leave every proper base set.                                  *)

MCNode == 0..3
MCMayDepend == {<<0, 1>>, <<1, 0>>, <<1, 2>>, <<2, 3>>, <<3, 2>>, <<3, 1>>,
                <<0, 3>>, <<2, 0>>, <<2, 2>>}

-----------------------------------------------------------------------------
(* SummaryDstack: the first function sets the pointer and calls, twice; the *)
(* others may call on, or back.                                             *)

Op(op, to) == [op |-> op, to |-> to]
Call == Op("call", 0)
Code(len, ops) == {Append(body, Op("ret", 0)) : body \in [1 .. len -> ops]}
Main(as, bs) == {<<a, Call, b, Call, Op("ret", 0)>> : a \in as, b \in bs}
Loop(ops) == {<<Call, op, Op("back", 2), Op("ret", 0)>> : op \in ops}

Deep ==
  {<<main, f, g, h>> : main \in Main({Op("set", 2)}, {Op("set", 3), Op("skip", 0)}),
                       f \in Code(2, {Op("set", 3), Op("may", 4), Call})
                               \cup Loop({Op("may", 4), Call, Op("skip", 0)}),
                       g \in Code(2, {Op("set", 2), Call, Op("may", 4)}),
                       h \in Code(1, {Op("set", 3), Op("may", 2), Call})}

\* A context for each pointer makes the runs long: the last function only calls.
Shallow == {p \in Deep : p[4][1] = Call}

Merged == INSTANCE SummaryDstack
            WITH Programs <- Deep, Starts <- {1, 2, 3}, Tabulation <- FALSE, RefManagement <- TRUE
Tabulated == INSTANCE SummaryDstack
               WITH Programs <- Shallow, Starts <- {1}, Tabulation <- TRUE, RefManagement <- TRUE

\* The functions an analysis starts with may call each other.
Shared == INSTANCE SummaryDstack
            WITH Programs <- Deep, Starts <- {1, 2, 3}, Tabulation <- TRUE, RefManagement <- TRUE

ASSUME DstackAssumption == Merged!SummaryAssumption /\ Tabulated!SummaryAssumption

-----------------------------------------------------------------------------

dstack_vars == <<prog, sd, pending, worklist, postponed, cpu>>
part_vars == <<part, vars, dstack_vars>>

NoRoots == Init /\ all = {} /\ deps = {}
NoDstack == prog = 0 /\ sd = 0 /\ pending = 0 /\ worklist = 0 /\ postponed = 0 /\ cpu = 0

PartInit ==
  /\ part \in Parts
  /\ IF part = "roots" THEN Init ELSE NoRoots
  /\ CASE part = "merged" -> Merged!Init
       [] part = "tabulated" -> Tabulated!Init
       [] part = "shared" -> Shared!Init
       [] OTHER -> NoDstack

Dstack ==
  \/ part = "merged" /\ Merged!Next
  \/ part = "tabulated" /\ Tabulated!Next
  \/ part = "shared" /\ Shared!Next

PartNext ==
  /\ part' = part
  /\ \/ part = "roots" /\ Next /\ UNCHANGED dstack_vars
     \/ Dstack /\ UNCHANGED vars

\* The steps of the loops, which run on the only thread; not what an engine is
\* called with, nor the run of the analysed program.
Loops ==
  /\ part' = part
  /\ \/ part = "roots" /\ Next /\ UNCHANGED dstack_vars
     \/ /\ \/ part = "merged" /\ (Merged!Visit \/ Merged!Postprocess)
           \/ part = "tabulated" /\ (Tabulated!Visit \/ Tabulated!Postprocess)
        /\ UNCHANGED vars

\* No loop has anything to do: ~ENABLED Loops.
Resting ==
  CASE part = "roots" -> pc = "done"
    [] part = "merged" -> Merged!Stopped
    [] part = "tabulated" -> Tabulated!Stopped

PartSpec == PartInit /\ [][PartNext]_part_vars
PartFairSpec == PartSpec /\ ([]<>Resting \/ []<><<Loops>>_part_vars)

-----------------------------------------------------------------------------

\* SummaryDstack: when the analysis stops, another visit would change nothing, and
\* every target of a call in a run without recursion has been found.
Settled == /\ part = "merged" => Merged!Settled /\ Merged!CallsResolved
           /\ part = "tabulated" => Tabulated!Settled /\ Tabulated!CallsResolved

\* SummaryDstack: a state that is discarded has been read by all who need it; contexts
\* and counts belong to nodes that exist.
NothingGoneIsRead == /\ part = "merged" => Merged!NothingGoneIsRead /\ Merged!TypeOK
                     /\ part = "tabulated" => Tabulated!NothingGoneIsRead /\ Tabulated!TypeOK

\* Every engine comes to an end: roots returns on every graph, and so does the
\* interprocedural analysis, though every visit may add work.
Ends ==
  /\ part = "roots" => Terminates
  /\ <>[](/\ part = "merged" => Merged!Stopped
          /\ part = "tabulated" => Tabulated!Stopped)

\* SummaryDstack: with a context for each pointer too, the assertion that a node which
\* is evaluated belongs to a function never fails (summary_dstack.cpp:602).
ContextsKnown == part = "shared" => Shared!FunctionKnown
=============================================================================
