------------------------------ MODULE MCCalls ------------------------------
(***************************************************************************)
(* What happens at jumps and calls, each alone: a jd_manager is asked      *)
(* which jumps go backwards; the summary of a function is applied to the   *)
(* state of its caller, and the pointers a function calls are looked up    *)
(* there.  part names what runs.                                           *)
(***************************************************************************)
EXTENDS JumpDirection, Integers, Sequences, TLC

CONSTANT Parts

VARIABLES part,
          caller, summary, mem, allocs, calls, len, pc, wrong,
          callee, reqs, from, to, done, left, errors

-----------------------------------------------------------------------------
(* JumpDirection: three blocks, at the addresses 1, 2 and 3, numbered in    *)
(* another order: one has loops within instructions.                        *)

MCAddressOf == (0 :> 2) @@ (1 :> None) @@ (2 :> None) @@ (3 :> 1) @@ (4 :> None) @@ (5 :> 3)

\* The address of the block a node belongs to.
MCBlock == (0 :> 2) @@ (1 :> 2) @@ (2 :> 2) @@ (3 :> 1) @@ (4 :> 1) @@ (5 :> 3)

MCPos == [n \in DOMAIN MCAddressOf |-> n]

\* What connects the nodes of a block, and the jumps between blocks.
Inner == (<<0, 1>> :> "plain") @@ (<<1, 2>> :> "plain") @@ (<<2, 1>> :> "flagged")
           @@ (<<1, 0>> :> "flagged") @@ (<<3, 4>> :> "plain")
Jumps == {<<1, 0>>, <<1, 5>>, <<4, 0>>, <<4, 3>>, <<5, 3>>, <<5, 0>>}

GraphsOf(E) == {[e \in S |-> IF e \in DOMAIN Inner THEN Inner[e] ELSE "plain"] : S \in SUBSET E}

\* Loops that are entered from node 3 or 5: one without an entry has no root and is
\* never visited, by the outer analysis neither (EveryNodeReached).
JumpGraphs ==
  {g \in GraphsOf({<<0, 1>>, <<3, 4>>, <<1, 0>>, <<4, 0>>, <<5, 3>>}) : {<<3, 4>>, <<4, 0>>} \subseteq DOMAIN g}

\* A block is decoded as a whole; a jump is found; a jump turns out to be a call.
JumpBatches ==
  {[e \in {<<0, 1>>, <<1, 2>>, <<2, 1>>, <<1, 5>>} |-> IF e \in DOMAIN Inner THEN Inner[e] ELSE "plain"],
   (<<4, 0>> :> "call")}
  \cup {g \in GraphsOf(Jumps \cup {<<3, 4>>}) : Cardinality(DOMAIN g) \in 1..2}

-----------------------------------------------------------------------------
(* SummaryApplication: two registers, objects of two words; short functions  *)
(* with all instructions, and longer ones that move and follow pointers.     *)

Ins(op, to_, from_, add) == [op |-> op, to |-> to_, from |-> from_, add |-> add]

MCInstructions ==
  {Ins(op, 1, 2, 0) : op \in {"move", "load", "store"}}
    \cup {Ins(op, 2, 1, 0) : op \in {"move", "load", "store"}}
    \cup {Ins("load", 1, 1, 0), Ins("move", 1, 1, 1), Ins("malloc", 1, 1, 0), Ins("const", 2, 2, 5)}

MCDeep == {Ins("move", 1, 2, 0), Ins("move", 1, 1, 1), Ins("either", 1, 2, 0), Ins("load", 1, 1, 0),
           Ins("store", 1, 2, 0), Ins("store", 2, 1, 0)}

Short == INSTANCE SummaryApplication
           WITH Registers <- {1, 2}, Instructions <- MCInstructions, CallerLength <- 2, CalleeLength <- 2,
                MaxCalls <- 1, MaxAllocs <- 1, Words <- {0, 1}
Deep == INSTANCE SummaryApplication
          WITH Registers <- {1, 2}, Instructions <- MCDeep, CallerLength <- 2, CalleeLength <- 3,
               MaxCalls <- 1, MaxAllocs <- 0, Words <- {0, 1}

ASSUME ApplicationAssumption == Short!SummaryApplicationAssumption /\ Deep!SummaryApplicationAssumption

-----------------------------------------------------------------------------
(* Mempath: one register, two words behind each pointer, static addresses    *)
(* and the heap.                                                             *)

StaticIs(n, offs) == <<<<"static", n>>, offs>>
HeapIs(offs) == <<<<"heap", 0>>, offs>>

PathValues ==
  {{StaticIs(1, {0}), StaticIs(2, {0})}, {StaticIs(1, {0, 1})}, {HeapIs({0})}, {HeapIs({0, 1})},
   {HeapIs({1}), <<<<"bad", 0>>, {0}>>}}
ContextValues ==
  {{StaticIs(1, {0})}, {StaticIs(1, {0}), StaticIs(2, {0})}, {StaticIs(1, {0, 1})}, {HeapIs({0})}}

Paths == INSTANCE Mempath
           WITH Registers <- {1}, Offsets <- {0, 1}, Values <- PathValues, MaxAccesses <- 3, MaxWrites <- 3,
                Tabulation <- FALSE, SizeDiffers <- {FALSE}
Contexts == INSTANCE Mempath
              WITH Registers <- {1}, Offsets <- {0, 1}, Values <- ContextValues, MaxAccesses <- 3,
                   MaxWrites <- 3, Tabulation <- TRUE, SizeDiffers <- {FALSE}

ASSUME PathAssumption == Paths!MempathAssumption /\ Contexts!MempathAssumption

-----------------------------------------------------------------------------

application_vars == <<caller, summary, mem, allocs, calls, len, wrong>>
path_vars == <<callee, reqs, from, to, done, left, errors>>
part_vars == <<part, vars, pc, application_vars, path_vars>>

NoJump == /\ edges = <<>> /\ state = [n \in Nodes |-> None] /\ fixpoint_pending = {} /\ updated_dirty = {}
          /\ pending = {} /\ worklist = {} /\ postprocess = {}
          /\ notified = TRUE /\ running = FALSE /\ commits = 0


NoApplication == /\ caller = 0 /\ summary = 0 /\ mem = 0 /\ allocs = 0 /\ calls = 0 /\ len = 0
                 /\ wrong = FALSE
NoPath == callee = 0 /\ reqs = 0 /\ from = 0 /\ to = 0 /\ done = 0 /\ left = 0 /\ errors = 0

PartInit ==
  /\ part \in Parts
  /\ IF part = "jump" THEN Init ELSE NoJump
  /\ CASE part = "jump" -> NoApplication /\ NoPath /\ pc = "none"
       [] part = "short" -> Short!Init /\ NoPath
       [] part = "deep" -> Deep!Init /\ NoPath
       [] part = "paths" -> Paths!Init /\ NoApplication
       [] part = "contexts" -> Contexts!Init /\ NoApplication

PartNext ==
  /\ part' = part
  /\ \/ part = "jump" /\ Next /\ UNCHANGED <<pc, application_vars, path_vars>>
     \/ part = "short" /\ Short!Next /\ UNCHANGED <<vars, path_vars>>
     \/ part = "deep" /\ Deep!Next /\ UNCHANGED <<vars, path_vars>>
     \/ part = "paths" /\ Paths!Next /\ UNCHANGED <<vars, application_vars>>
     \/ part = "contexts" /\ Contexts!Next /\ UNCHANGED <<vars, application_vars>>

PartSpec == PartInit /\ [][PartNext]_part_vars

\* The iteration of a jd_manager is a loop on the only thread.
PartFairSpec == PartSpec /\ ([]<>~running \/ []<><<running /\ PartNext>>_part_vars)

-----------------------------------------------------------------------------

\* SummaryApplication: after a call the state of the caller says what is true of the
\* memory, whatever pointers the function got, moved and wrote through; a word it has
\* no field for is as it was.
AppSound ==
  /\ part = "short" => Short!TypeOK /\ Short!Sound /\ Short!Framed
  /\ part = "deep" => Deep!Sound /\ Deep!Framed

\* Mempath: a path that is asked for leads to the pointer the function has called; the
\* function starts with all the pointers the caller may hold there; one that is unknown
\* to the caller too is asked for again, by a path that leads to it.  With a context
\* for each combination of pointers, whatever the caller's memory is, if all that was
\* asked for is known there is a context with just that.
Passed ==
  /\ part = "paths" => Paths!TypeOK /\ Paths!Located /\ Paths!Passed /\ Paths!Deferred
  /\ part = "contexts" => Contexts!Keyed
=============================================================================
