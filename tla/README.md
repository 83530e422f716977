# summy in TLA+

summy analyses machine code. It decodes a binary with the GDSL toolkit into
RREIL, keeps the code in a control flow graph that it extends whenever an
analysis finds out where a jump or a call leads, and runs data flow analyses
over that graph with a generic fixpoint engine: from the numbering of nodes and
liveness up to an interprocedural analysis of values, pointers and memory that
tabulates function summaries. Everything runs on one thread. What makes it hard
is that the graph changes *while* it is analysed: evaluating the transformer of
an edge can insert edges, the commit of these calls back into everybody who
observes the graph, one of the observers decodes code and changes the graph
further, and the engine has to end up with a solution for the graph as it is
then.

This directory holds TLA+ models of the parts where that happens, the TLC runs
that check them on small instances, and proofs, checked by TLAPS, that the most
important properties hold for all instances.

## Inventory

State, operations, interaction and hazards per component; paths are relative to
the repository's root.

| component | state | operations | interacts with | what makes it hard; what makes it correct |
|---|---|---|---|---|
| `cfg` (`src/cfg/cfg.cpp`) | node payloads, edge payloads per node, cached incoming edges, a stack of update lists, observers | create, update, erase, replace, merge, push/pop scopes, commit | everybody | nested commits, scopes that end late, renumbering in merge; derived sets agree with the edges |
| `recorder` (`src/cfg/observer.cpp`) | flag, edges recorded | start, stop, notify, checkout | cfg, fp_analysis | only insertions are passed on; records what exists |
| `jd_manager` (`src/cfg/jd_manager.cpp`) | an address analysis with an engine of its own, a dirty flag | direction of a jump, address of a node, notify | cfg, fixpoint | iterated on demand in the middle of another iteration |
| `bfs_iterator`, `cfg_view`, `bfs_order` | queue, seen nodes, starting points | advance, skip | cfg, transformers | the start node is not marked as seen; the graph is changed during the traversal |
| `fp_analysis` | dependants, pending nodes, states, recorder | constraints, roots, update, record | cfg, fixpoint | which nodes have to be visited after a change |
| `fixpoint` | worklist, nodes to postprocess, nodes marked by notify | iterate, notify | fp_analysis, jd_manager, cfg | constraints collected before the graph changes, states that shrink, nodes scheduled by four different parties; returns with a solution |
| `value_set` | immutable values: finite set, half open interval, top | lattice, widening, arithmetic, comparisons | numeric domains | signs, rounding, mirrored intervals; sound, climbs when widened |
| `vsd_state`, `equality_state`, `als_state` | maps from variables | assign, assume, join, box | converter, memory domain | a functor stack: each layer splits a job between itself and the one below |
| `memory_state`, `summary_memory_state`, `sms_compat`, `summary_application`, region iterators | regions of cells, the numeric state below, required fields of a summary | load, store, join, apply a summary | summary_dstack, numeric domains | cells of different size overlap; two states are made structurally equal before each binary operation |
| `summary_dstack` | states per node and context, function descriptors with summaries, callers, reference counts, dirty nodes | transform per kind of branch, dependants, ref, unref | fixpoint, cfg | dependencies that are added while the analysis runs, summaries that change, contexts |
| `mempath`, `herbrand_answer` | paths from a register to a pointer, requests and their answers | resolve, propagate, tabulate | summary_dstack, memory domain | requests behind one place are stored one over the other; a callee gets every pointer its callers may hold |
| `converter`, numeric api | none; the expression under conversion | convert, negate, assume, assume not | memory domain, numeric domains | words become integers that are never wrapped |
| `liveness`, `reaching_defs`, `adaptive_rd`, `addr`, `addr_machine`, `caller`, `fcollect` | one small state per node | transform | fixpoint | several orders on states that are no partial orders |
| `dectran`, `analysis_dectran` | decoder position, decoded intervals, unresolved jumps, function heads | decode, notify | cfg, transformers | changes the graph while it is notified |
| transformers: `decomposer`, `goto_ip_adder`, `ip_propagator`, `trivial_connector`, `resolved_connector` | address-to-node map | transform | cfg | change the graph they traverse |
| `ssa`: `phi_inserter`, `renamer` | stack of engines | transduce, notify | liveness, adaptive_rd | read results computed before their own insertions |
| `ismt` | formula under construction | build | external solver | out of scope |
| driver, tester | - | set up the above | all | they register the engine differently |

`PROJECT.json` lists the components with their files and every hazard with its
line; a hazard that no property covers says why.

## Modules

| module | models | uses |
|---|---|---|
| `Dependants` | the dependency map of `fp_analysis` as a relation, `roots` by what it returns | - |
| `FpRoots` | `fp_analysis::roots` loop by loop | `Dependants` |
| `ConstraintSystem` | abstract: what `fixpoint::iterate` promises its callers | - |
| `Fixpoint` | `fixpoint::iterate` and `notify`, `fp_analysis`, the recording of updates, changes of the graph during and between iterations; implements `ConstraintSystem` | `Dependants`, `ConstraintSystem` |
| `JumpDirection` | `jd_manager` with the address analysis (`addr_machine`) its own engine iterates on demand | `Dependants` |
| `Cfg` | `cfg` with its update stack, `commit_updates` and three observers: decoder, recorder, jump direction manager | - |
| `Decoder` | `dectran`, `analysis_dectran`, `sweep`, the transformers of a decoded block, the driver's loop | - |
| `BfsIterator` | `bfs_iterator`, and a loop that rewrites the graph on the way | - |
| `PhiInserter` | `phi_inserter`: collecting tasks and carrying them out | `BfsIterator` |
| `ValueSets`, `ValueSet` | `value_set` and its three subclasses as operators; expressions evaluated with them | - |
| `VsdState` | `vsd_state` and `num_evaluator`: a value set for each variable | `ValueSets` |
| `EqualityState` | `equality_state`: classes of variables at known distances | - |
| `AlsState` | `als_state`, with `inverse_set_map`: what a variable may point to | - |
| `Converter` | `converter`: from expressions over words to expressions over integers | - |
| `Regions` | `io_region` and `retrieve_field` | - |
| `SummaryMemory` | loads, stores and assignments of `summary_memory_state` | `Regions` |
| `Rename` | `summary_memory_state::rename` | - |
| `SmsCompat` | `sms_compat` with `merge_region_iterator`: join, widening and order of memory states | `Regions` |
| `SummaryApplication` | `apply_summary` | - |
| `Mempath` | `mempath` and `herbrand_answer` | - |
| `SummaryDstack` | `summary_dstack` under the engine: contexts, call graph, summaries, reference counts | - |
| `MC*` | the instances for TLC | |
| `*Proofs` | the theorems | |

Each domain module runs the abstract operations and, beside them, the program the
state is about; soundness is that the one covers the other. A concrete step that
has no abstract counterpart does not exist, so the properties compare two
computations and restate neither.

### Fixpoint, ConstraintSystem

State and code: `nodes`, `payload` are the graph; `state`, `deps` (`_dependants`),
`fixpoint_pending`, `rec` (the recorder's `updates`) belong to `fp_analysis`;
`worklist`, `pending`, `postprocess` are the locals of `iterate`,
`updated_dirty` is the engine's member, and the remaining variables are the
locals of one turn of the loop. `initial`, `widened` and `changes` are history.

| action | code |
|---|---|
| `Start` | `iterate` up to its loop |
| `Postprocess`, `End` | the lambda `end` |
| `PopWorklist`, `PopPending` | `next`, `fp_priority_queue::pop`, `fp_analysis::constraints_at` |
| `Evaluate` | one call of `process_constraint`, with the commit inside the transformer |
| `Finish` | `record_stop_commit` to the end of the turn |
| `Change` | a transformer that changes the graph between iterations, and its commit |

A turn of the loop is not one step: each constraint is evaluated in a step of
its own, because the graph, the marks of `notify` and the recorder change
between them. A visit only inserts edges: transformers look for an edge before they
insert it (`summary_dstack.cpp:347-359`), and the decoder, notified of it, rewrites
edges of the block it has just merged, which nobody has collected yet. Edges are
replaced and erased between iterations (`Change`). Domain states are an abstract set with the operations of
`domain_state`; transformers and the edges they find are constant operators of
edge, payload and state, so that every analysis with one context is an instance.
The order of the worklist is a constant.

`ConstraintSystem` says what a caller relies on: while the engine runs, states
change one at a time and the graph gets edges and loses none; it returns only
when every constraint it has been told of is solved. `Implements` is checked and
proved: every step of `Fixpoint` is a step of it or none.

Assumptions: `DomainAssumption` is what `domain_state` promises (a preorder,
`join` an upper bound, `box` above what is boxed). The proofs need transformers
that are strict (`Strict`): a node whose first visit yields bottom is equal to
what it was and is not propagated. Some analyses in the repository do not meet
them (see *Limits*).

### FpRoots

The worklist algorithm in single steps, one edge at a time. `Fixpoint` uses
`RootsOf`, the set it returns, and `RootsCorrect` is what justifies that.

### JumpDirection

`Ask` is a question for the direction of a jump or the address of a node, which
iterates if something was committed since the last one; `Commit` is the commit of
whoever changes the graph, with the notification of the inner engine and of the
manager. A visit of the inner engine is one step, as its transformers insert no
edges. `Direction` is the answer from the addresses known at the time: the inner
engine asks for it too, in the middle of its iteration, and both the state and
whether it is propagated depend on it. Edges are inserted and replaced only; an
edge may be flagged BACKWARD by `decomposer`, and a call has no direction.

### Cfg

An update list is read in order by everybody who reads it, and what an update
does depends on its edge alone, so the model keeps the last update of each edge.
`Commit` and the actions of `Deliver` are the loop of `commit_updates` with one
step per observer; `DecoderBegins`, the operations on the graph while the
decoder has its turn, and `DecoderEnds` are `analysis_dectran::notify`, whose
operations are left open: any change of the graph. `Register`, `Unregister`,
`RecordUpdates`, `RecordStopCommit` are the ways an analysis attaches itself,
records and leaves.

### Decoder

A program is a function from addresses to the statements the decoder library
gives for the instruction there (external, one address each, `<<>>` where it
fails). The module follows the graph from there through `decomposer`,
`goto_ip_adder`, `ip_propagator` and `trivial_connector`, with the node numbers
they give, the merge into the whole graph, the updates `commit_updates` delivers
to the decoder, and the nodes the decoder frees and replaces while it is
notified. An exception leaves the rest of the list undelivered; the driver goes
on with the next function. A node that cannot be decoded becomes one that leads
to itself. `address_node_map` lives as long as the decoder.

### BfsIterator, PhiInserter

`seen`, `inner_component`, `components` and `end` are the iterator's members;
`edges` is the graph, turned round when the iterator goes backwards. `starts`,
`passed` and `expanded` are history, and say what a loop over the nodes has got.
`Advance` is `operator++`, `Skip` is `skip`, both with `check_next_component`;
`Rewrite` is the body of the loop of `decomposer::transform`, which gives the
node it is at other edges and creates nodes.

`PhiInserter` runs `phi_inserter::transform` on that iterator: `Collect` is one
turn of its loop, `Update` the loop of `update`, `Transform` one task, which may throw.
`PhisInserted` speaks of every moment of the second loop, and of the graph an exception
leaves behind. `graph`
is `edge_payloads`, `tasks` and `handed` are locals. Which edges need a phi edge
(`needs`) is left open: it depends on the results of reaching definitions.

### The numeric domains

`ValueSets` translates the double dispatch over the three subclasses of
`value_set`. `ValueSet` evaluates one expression on value sets (`abs`) and on
integers (`val`) in step: arithmetic with an operand, comparison, solving an
equation for a variable, joining with another path, being restricted by a
condition, and being boxed at a loop head. Results that are not representable
stop the evaluation: `int64_t` overflow is undefined in the code.

`VsdState` has a value set for each variable. `assume` refines one variable after
the other until nothing changes, and each refinement is a step: the state is
sound between any two of them. `EqualityState` and `AlsState` sit above; of their
child they keep what they ask it for, a number or nothing, and a set of offsets
for each variable (residues modulo the number of values of a register). The members
of a class of `EqualityState` are at any distances from each other. Two of
their maps are redundant, `back` of the classes and the way back of
`inverse_set_map`, and must be inverse to the other (`Indexed`, `WayBack`).

`Converter` runs a program on words and, beside it, a numeric domain that loses
nothing, the exact set of valuations. What is checked is therefore the conversion
and the use the memory domain makes of it, and no precision of a domain.

### The memory domain

A cell stands for eight bits; a value is the row of its cells, a digit or what a
cell held at the entry of the function. `Regions` has how fields are found,
created, split and replaced; `SummaryMemory` runs instructions on overlapping
ranges of registers, of what pointers lead to and of the binary, with strong and
weak updates. `SmsCompat` makes two states compatible: what is planned while two
regions are compared runs afterwards, one change after the other, on regions the
earlier ones have changed. `Rename` keeps the ids as objects shared between keys
of maps, elements of sets and fields, as they are replaced in place in the order
of their counters, without building any map again.

`SummaryApplication` finds out what the pointers of a summary stand for in the
caller, by walking through the entry of the summary, detects pointers that alias,
and writes the fields of the summary to the caller. `Mempath` follows the paths
of requested pointers through the caller's state into the state a callee starts
with. Fields of both are words of one size.

### SummaryDstack

The memory state of a node is cut down to one pointer. Functions call through it,
set it, loop and return; the analysis learns whom they call, decodes them,
applies summaries, asks callers for a pointer that comes from outside, makes a
context for each if it tabulates, counts who is going to read a state and discards
it at zero. A visit of the engine is a step. When the analysis has stopped, the
program is run (`cpu`) and held against the result.

## Runs

A run checks several parts, which do not interact: the variable `part` says which
one a behaviour belongs to, and the variables of the others keep one value. The
composed definitions are in the `MC` modules.

| run | instance | shows |
|---|---|---|
| `engines` | `roots` on every base set and every subset of 9 edges over 4 nodes; `SummaryDstack` on programs of 4 short functions, with and without contexts | the roots are right; the interprocedural analysis stops, settled, and reads nothing it has discarded |
| `fixpoint` | `ordered`: one graph of 5 nodes with a loop, a second function and a jump backwards, edges found in two stages, one to a new node, 3 changes out of 4 between iterations, widening to top; `any_order`: graphs with some of 10 edges, nodes popped in any order, widening = join | the engine implements `ConstraintSystem`, returns, with a solution, revisits what it widened; in the second part the solution is the least one |
| `cfg` | `Cfg` with 2 nodes, 3 operations, scopes 2 deep; `Decoder` on all programs of 3 instructions that end in a return or jump, and of 2, with two symbol sets, blockwise or not, 1 resolved jump | derived sets agree with the edges; the graph runs as the code does, whatever was decoded before; the decoder comes to rest |
| `bfs_iterator` | every graph with some of 8 edges over 4 nodes, any skips, one node rewritten; `PhiInserter` on every graph with some of 6 edges | no node is missed, none comes three times, the order is breadth first; the right edges are split once, or up to the task that throws |
| `value_set` | all value sets over -2..2; 2 variables and a symbol; 2 statements over words of 3 bits | soundness, climbing, bounds, and that the conversion loses nothing |
| `summaries` | renaming 2 fields among 8 ids; 3 instructions on overlapping fields; two ways of 2 instructions that meet, of 3 that meet twice | order, shape and separation of ids; memory covered and framed; states aligned, covered and stable |
| `relations` | 4 variables in classes at distances from each other; 2 variables and 2 pointers modulo 3 | distances and aliases true of the run, both maps inverse, no offset without alias |
| `calls` | `JumpDirection` on 6 nodes in 3 blocks with 2 commits; caller of 2 instructions, callee of 2 or 3, one call, one allocation; 3 accesses and 3 writes behind one register | addresses are exact, loops are cut and questions answered; summaries applied soundly; requests answered; contexts complete |
| `decoder_unresolved` | `Decoder` | **violation** |
| `summary_dstack_contexts` | `SummaryDstack`, several entries and contexts | **violation** |
| `equality_offsets` | `EqualityState` with classes merged at other distances | **violation** |
| `equality_spread` | `EqualityState` with values told to variables that are no representatives | **violation** |

### Bounds, and why they are enough

- `FpRoots`: withdrawing a root takes three nodes, withdrawing it through an edge
  to a swept node four.
- `JumpDirection`: a loop inside an instruction, one inside a block, one through
  two blocks against their numbering; two commits insert an edge that closes a
  loop after a question, and replace a jump by a call.
- `Fixpoint`: a loop, a loop inside it, an exit, an edge found by an edge that was
  found, a node with two predecessors of which one is behind it; three changes put,
  replace and erase an edge around two iterations. The state space is finite
  through `MaxChanges` and because an edge is found once.
- `Cfg`: three operations are what an update inside a scope that contradicts one
  outside and is contradicted later needs (`MaxNodes`, `MaxOps`, `MaxDepth`).
- `Decoder`: with three instructions blocks overlap, a jump leads into the middle
  of a block that is decoded, and a call leads to one; `MaxNodes` of 60 cuts
  nothing. An indirect jump is resolved at most once (`MaxResolved`).
- `BfsIterator`: a start node that is reached late needs two others and a cycle
  through it; a rewritten node is left by the edges it got, which takes one
  `Rewrite` (`MaxRewrites`). `PhiInserter`: a start node with a loop, one in front
  of another, a node with two ways into it.
- `ValueSet`: every sign and every order of two limits occurs over -2..2; the
  theorems cover every `MaxInt`. `MaxGrowth` stands for `vs_finite::max_growth` (512): the
  intervals two others share, and the quotients of a set by unknown numbers, are
  listed up to that size. It is unsigned, and so are the comparisons with the ends of a
  set (`TooFar`). 1 lets every case of each test occur.
- `VsdState`, `AlsState`, `EqualityState` have no bound on the number of
  operations: their state spaces are finite. A class of four variables can lose its
  smallest member, and two classes of two can merge. Values of `EqualityState` are
  -1..1, distances -2..2, which the differences of values are; boxes do not go on with
  larger ones.
- `Converter`: words of three bits have four negative numbers, so both signs,
  wrapping and both extensions occur; two statements compare what one has computed.
- `SummaryMemory`: an access can overlap two fields that two others made
  (`Length` 3). `SmsCompat`: two instructions on each way give fields that overlap
  those of the other; states that meet again (`Rounds` 2) have renamed pointers.
- `SummaryApplication`, `Mempath`: an alias conflict takes two pointers to one
  place; a path of two steps needs a field behind a field. `MaxAllocs` of 1 leaves
  the second object of a heap region out, see below.
- `SummaryDstack`: a chain of four functions has a request passed on by a caller
  that has to ask its own, and a cycle among three.

`CHECK_DEADLOCK FALSE` stands where a part ends or reaches a bound. The
engine of `Fixpoint` may never deadlock, and is checked for it.

### Fairness

Everything runs on one thread, so what is assumed is that a loop, once entered, is
executed: `WF` of the steps of `iterate` in `Fixpoint` and `JumpDirection`, of
`Next` in `FpRoots`. It is neither assumed that `iterate` is called, nor that the
graph changes, nor that somebody asks. In the composed runs the same is written
`[]<>Resting \/ []<><<Loops>>_vars`, where `Resting` is that no loop has anything
to do, which is weak fairness without ENABLED.

## What the runs found

Four runs violate what the repository says of itself; `PROJECT.json` quotes it.

- `decoder_unresolved`: `transduce` drops what `transform_ur` returns, so a
  computed jump in the first block is not among `get_unresolved()`, as a test
  expects.
- `summary_dstack_contexts`: a call edge is evaluated in the context its head is
  visited in, which a caller may not have; the assertion that a node belongs to a
  function (`summary_dstack.cpp:602`) fails.
- `equality_offsets`: `merge` (`equality_state.cpp:138`) puts the members of one class
  into the other with the distances they have to their own representative. With
  y = x + 1, assuming z - y = 0 makes z equal to x, and not to y.
- `equality_spread`: what a condition tells of a variable that is not the
  representative is assigned to every other member with its own distance
  (`equality_state.cpp:531`). With y = z = x - 1, assuming y = -1 gives z the number of x.

Other places where code and comments disagree are stated in the modules and not
run, or excluded from a run by a named constant:

- A cycle that nothing leads to has no root and is never visited
  (`fp_analysis.cpp:81`, `EveryNodeReached`). The instances of `JumpDirection` enter
  every loop for that reason.
- A traversal does not put the node it begins with into the set of visited nodes
  (`bfs_iterator.cpp:22`, `AlreadyVisited`) and delivers it again when a cycle leads
  back. `phi_inserter` then has two tasks for one edge and throws on the second.
  `AtMostTwice` and `ThrowsOnlyOnRevisit` show that nothing worse happens.
- Finite value sets are ordered by their hull and met by intersection
  (`vs_finite.cpp:246`, `MeetIsGreatest`); `VsdEngineBounds` shows that the engine
  gets the bounds it relies on all the same. The exclusive or of two unknown
  constants is 0 (`num_evaluator.cpp:120`), and the limit of an interval is masked
  (`vs_open.cpp:392`).
- `value_set` divides by keeping the exact quotients, which is what solving an equation
  for a variable asks for and what its test expects (`value_set.cpp:102-113` of the
  tester). `num_evaluator.cpp:117` evaluates the divisions of the program with it as
  well: 1 / 2 becomes the empty set, and what follows counts as unreachable. The run
  `value_set` divides by -1.
- `equality_state`: `EqLeftOut` names five cases the passing run leaves out. A zero
  extension is taken to equal what it extends (`extended`); a class is not rebased on
  its new representative when the old one leaves, nor when classes are joined
  (`unrebased`); a weak assignment of a member of its class ignores their distance
  (`weak`); `merge` ignores the distances of the variables that became equal
  (`displaced`), and so does what is spread over a class (`spread`). The last two are
  the findings above.
- `als_state`: a variable without aliases after a narrowing answers 0
  (`Untracked = FALSE` leaves it out); aliases of a scaled variable are not scaled.
- `summary_memory_state`: `LeftOut` names an assignment whose right side reads a gap
  its left side has just filled, a suffix that is dropped behind a gap, and a
  load from several regions that skips one, because the places in it overlap.
- `sms_compat`: a widening skips a region only the second state has, behind a pointer
  without a name, on purpose ("we don't propagate nameless regions", `sms_compat.cpp:421-424`); what a loop
  writes there is lost. `JoinCovers` is about joins. The coverage of overlapping fields is computed from the larger
  size instead of the larger end (`CoverageAsserted`); a region whose pointer was
  merged with other fields is forgotten (`NothingForgotten`).
- `apply_summary`: a second call of a function that allocates overwrites the one
  heap region strongly (`LoadsSound`).
- `mempath`: a local field without a size decides whether a second request is passed
  on (`SizeDiffers`); a place with a static address and a heap pointer is followed
  wrongly.
- `converter`: numbers that have left the range of their words are compared as
  they are. The run leaves that out (`LeftOut = {"wrapped"}`) and shows the conversion
  of everything else.
- When the engine does not observe the graph (`Observed = FALSE`, as the driver
  sets it up), an edge that is found by a visit that leaves its source's state as it
  was schedules only roots: `Solution` promises nothing for it (`Tracked`).

## Proofs

| module | theorems | hypotheses |
|---|---|---|
| `FpRootsProofs` | `RootsTyped`, `RootsSafe`: `Spec => []TypeOK`, `[]RootsCorrect` | nodes are numbers |
| `FixpointProofs` | `TypeCorrect`, `SolutionSafe`, `WideningSafe`: `[]TypeOK`, `[]Solution`, `[]WideningRevisited`; `Refinement`: `Spec => Implements` | `DomainAssumption`, `TransformAssumption`, `ChangesAssumption`, strict transformers |
| | `BelowSafe`, `LeastSafe`: `[]BelowSolutions`, `[]Least` | besides these `Monotone`, `EntriesKept`; `LeastSafe`: `Observed` |
| `JumpDirectionProofs` | `JumpTyped`, `AddressesExact`, `EveryLoopCut`: `[]TypeOK`, `[]AddressExact`, `[]LoopsCut` | `GraphAssumption`, `LayoutAssumption` |
| `CfgProofs` | `CfgTyped`, `InEdgesSafe`, `JdManagerSafe`, `RecorderSafe`; `MergeEmbeds` | bounds are numbers, merged graphs are graphs |
| `BfsIteratorProofs` | `IteratorTyped`, `LoopComplete`, `DeliveredAtMostTwice`, `BreadthFirstOrder` | nodes are finitely many numbers, edges join nodes |
| | `PhiLoopsOver`, `ThrowsSafe`, `InsertedSafe`: the loop of `PhiInserter` | the same |
| `ValueSetProofs` | `Soundness`, `OperationsBound`, `WideningTerminates` | operands are value sets of representable integers |
| | `VsdTyped`, `VsdBounds`, `VsdSoundSafe`: `[](TypeOK /\ NoEmptyValue)`, `[]EngineBounds`, `[]VsdSound` of `VsdState` | `VsdAssumption`; `VsdSoundSafe`: `[][~Misjudged]_vsd_vars` |
| `AlsStateProofs` | `AlsTyped`, `WayBackSafe`, `MissingSafe`, `AlsSoundSafe`: `[]TypeOK`, `[]WayBack`, `[]MissingIsTop`, `[]AlsSound` | `AlsAssumption`, `InputsAssumption`; `MissingSafe`: `~Untracked`; `AlsSoundSafe`: `~Untracked`, `[]Unscaled(als)` |
| `SummaryProofs` | `RenameTyped`, `OrderSafe`, `ShapeSafe`, `ApartSafe` | bounds are numbers |
| | `MemorySafe`: `[]MemorySound` | `SummaryMemoryAssumption`, `LeftOut = {"gap", "suffix", "skip"}` |

*FpRoots.* `RootsCorrect` is not inductive. The invariant adds that whatever was
swept is reachable from a root or was withdrawn, and that the successors inside
the base set of every node that was expanded are no roots and not left; when
nothing is left, exactly the nodes without predecessors remain.

*Fixpoint.* `Solution` speaks of the end of the iteration. The invariant says,
for every node and constraint, who is going to repair it if it does not hold:
the constraint of an edge holds, or its sink or a node that will propagate to it
is in the worklist, pending, marked, recorded or being visited; during a visit
the accumulator lies above everything evaluated so far in the graph as it was
then, and what has changed since is marked or recorded. `WideningRevisited` gets
an invariant of its own on top of it. The refinement needs the same invariant: the
step `End` is a `Return` of `ConstraintSystem` because every constraint is solved
there, and all other steps change one state, or only add to the graph.

`Solution` says that the result is above what the constraints make of it; that it
is not higher than it has to be is `Least`. This holds where transformers are
monotone and widening does no more than join, as for reaching definitions and
machine addresses (`Monotone`), and where no edge is found to an entry
(`EntriesKept`), whose start state is never taken back. The invariant is
`BelowSolutions`: no state, and during a visit no accumulator, is above any
assignment that solves the graph there is by then. It survives that the graph
grows because the nodes without predecessors stay the same ones, so an assignment
that solves the larger graph solves the smaller one; and that states are
overwritten, because what replaces them comes from states that are below every
solution. TLC checks both hypotheses for `any_order` (`LeastHypotheses`), and
`Exact` compares the result there with an iteration.

*JumpDirection.* `LayoutAssumption`, about two functions `Block` and `Pos`, is what decoder and
transformers give every graph: a plain node lies in the block it is entered from,
and within a block only flagged edges lead back (`decomposer` flags the one that
closes the loop of a statement); every address is reached from one nothing leads
to. TLC evaluates it for the run. Two different addresses have no
join (`addr_machine` returns bottom), and an edge passes its address on only when
it is evaluated in time, so the invariant has to say: a node has no other address
than that of its block, hence addresses join and are never lost; an edge from a
node that has its address to one that has not leads to a node in the worklist or
among those `notify` marked; the entries have their address or are pending.
The value at a node is a fold over its constraints, so the proof first shows that
the fold of the community modules unfolds. When somebody asks, nothing is left to
visit, and a set closed under the edges holds every address node. A cycle without
a jump backwards would then climb in the order of addresses and, within a block,
of positions; its node with the greatest address and position is the witness of
`LoopsCut`.

*Cfg.* The quantity that is invariant is the *net* effect of everything a
follower has still to read: the list it has not been handed yet, then the stack
from bottom to top. Applied to what it knows, it gives the edges of the graph.
Every operation changes graph and net alike, a pop does not change it, and at
the end of a delivery the net has moved into what is known. `MergeEmbeds`: the
renumbering of `merge` is injective apart from the merge node and fills the new ids.

*BfsIterator.* The nodes delivered followed by the nodes enqueued make a line
that only grows at its end: by neighbours that are not seen yet, or by the next
start node. The invariant says what a line may look like: it holds the start
nodes that are not in `components` any more and the nodes seen, and a node
occurs in it twice only if it is a start node that was seen after it was put
there. It adds that a node that was left has all its neighbours seen, unless the
iterator is there again and its edges have been rewritten; `Complete` follows at
the end, where the line is what was delivered. For `BreadthFirst` the line keeps,
as long as nothing is rewritten or skipped, that its nodes have been put there by
earlier ones in turn, and that all neighbours of nodes delivered are in it. The
distance, a recursive function, then increases along it: an induction over the
distance, by the least element of a set of numbers.

*PhiInserter.* Its loop is a loop of `BfsIterator` (`PhiLoopsOver`), whose
invariants hold therefore. The edges gone and the tasks left are together the edges
considered that need a phi edge; a task occurs twice only if its node was
delivered twice; the numbers of new nodes are fresh, so that each has exactly the
two edges of its task. `PhisInserted` follows for every moment of the loop: a task that
throws has made a node and erased nothing. So does `ThrowsOnlyOnRevisit`.

*ValueSet.* `Sound` is inductive together with `TypeInv`: each action is closed
by a lemma on its operation, proved kind by kind (top, finite, open). The bounds
of intervals rest on three facts about integers: finite sets have a smallest and
a greatest element, multiplication keeps or turns the order, and truncated
division never rounds past what it bounds. The other two properties are facts
about the operations and follow from `TypeInv`. The theorems hold for every
`MaxInt` and every set of operands, although only for results that are
representable.

*VsdState.* `VsdTypes` says that the state and the loop of `assume` are well formed: an
element is the value set of a variable and not empty, the equations are those of one
of the conditions, and the loop stands at one of its terms. With it and the lemmas
on value sets `EngineBounds` is proved variable by variable, the climbing by comparing
the sets of variables with an interval and with nothing known.

`VsdSound` needs more (`VsdCovers`): while the loop of `assume` runs, the values of
the variables satisfy the condition. Said of sets of numbers this is of no use in
the middle of an equation, so it is said of one choice: there are partial sums, from
the last term to the first, the last a member of the constant, whose first one makes
the condition true (`ChainOf`). Then

- one of the equations made of the condition has a chain for the same values whose
  first sum is 0 (`EquationZero`);
- an equation that is zero, without its i-th term, has a chain that ends at minus
  that term, so that dividing by the scale, which leaves no remainder, gives a set
  with the variable's value (`RestChain`);
- the join over the equations of what they leave of a variable has its value
  (`RefinedSound`), and it does not become bottom while the execution is alive.

Evaluation and chains are folds over the terms of a sequence; `QueryLinIs` and
`LinValuesIs` turn them into functions of the position. `VsdAssumption` asks that ids
do not clash, that states that come from elsewhere have no empty element, that no
term has the scale 0, and 2 ^ size > 0, as the provers know nothing of powers; TLC
evaluates it.

`Misjudged` is a step that assigns what the code is known to evaluate wrongly, or
that the model keeps coarser than the program: a quotient; an exclusive or whose
equal operands have several values (`num_evaluator.cpp:120`); an interval that is
cut off to a size (`vs_open.cpp:392`); and the weak assignment of an expression
without a value, which makes the state bottom although the assignment may not
happen (`vsd_state.cpp:167`). The run `value_set` takes no such step, but its second
part has instances of all operators, of the division the one by -1, which is exact.
Division by a constant inside `assume` is covered by the theorem.

*AlsState.* `TypeOK` and `WayBack` are inductive together, and `MissingIsTop`
with them. Every operation is made of putting and erasing one variable, mostly in
loops: over the variables of a condition, over those the way back gives for a
pointer, over those two states share, over pairs of names. The folds of the
community modules do not come with an induction principle the provers can use, so
`AlsStateProofs` first states one: a fold over a finite set, from any choice of the next element,
stays in a set of results that has the base and is closed under the step
(`FoldEnds`), or in a family of sets indexed by what has been folded (`FoldStays`),
from which the domain of a merged map follows. Removing a pointer goes through the
variables the way back gave when the loop began, and is right because a step
changes the aliases of no other variable. `equate_kill` runs two loops over the same pairs, in the map and
in the child, and `MissingIsTop` is kept by the two together, pair by pair. It needs
`~Untracked`: a condition would narrow the offset of a variable that is not in the
map, and a box keeps offsets of the second state for variables the first does not
have. `InputsAssumption` says that states that come from elsewhere are states this
one could be in.

`AlsSound` says that the state covers a run of the program: the value of each variable
is one of its aliases plus an offset of the child, `queryVal` and `queryAls` answer
with it, and joins and settled boxes are upper bounds. The invariant is `Sound`
together with the two above; it needs `MissingIsTop` because a merge takes a variable
that one side does not have for a number. The steps are:

- a sum of terms is a base plus offsets modulo the number of values (`SumApartAll`): with no
  pointer among the aliases the run chose it is a number, with one it is at an offset
  of that pointer, and with several `simplify_ptr_sum` answers the bad one, which
  covers everything (`SumFits`, `ExprFits`);
- a condition removes offsets only of variables it tracks, and none the run has;
- a pointer that is killed becomes the bad one in every alias set that has it;
- `equate_kill` renames the aliases first, then the variables, in the map and in the
  child. A new name is nowhere in the state (`IsNew`), so after each pair the
  state covers the run with that pair renamed (`FreshPtr`, `FreshVar`);
- a merge has the aliases and offsets of both sides, and a box that keeps a state
  whole has nothing to gain from the other.

`[]Unscaled(als)` says of the run that an expression which is assigned has a factor
other than 1 only in front of what is a number or unknown. The code leaves the other
case open (`als_state.cpp:290-292`, "What about scaled pointers?"): twice a pointer
`p` would have the alias `p`, at twice the offset. Every state of the run `relations`
satisfies it.

*Rename.* Ids are replaced one at a time, so for a while old and new ones
stand side by side. The invariant (`Halfway`, `Pending`) says that a place that was
not reached holds what it held, and that the others hold ids later than all there
were, in the same order, because they are reached in the order of their counters.

*SummaryMemory.* `MemoryInv` says that the fields are `Layouts` (the fields of a
region do not overlap and lie within its cells, as `check_consistency` asks) and that
they let every cell be what it is (`Lets`): what its field says, or, where there is
no field, what it was at the entry. `Sound` and `Framed` are the two halves of `Lets`.
Each operator has a lemma on what it does to what the fields let cells be:

- `retrieve_field` says nothing new of the cells outside the range it is asked for
  (`OutsideWeaker`), unless it drops a suffix, and of those inside only in a gap, where
  the new field has its content of the entry whatever was there (`FieldsIs`,
  `MakeOk`); the sum of the sizes of overlapped fields never takes the new pieces past
  where those fields end, because they do not overlap each other (`ExtentIs`);
- a read keeps every field and what is known of it, and its value is in line with
  the memory, be it that of one field or put together from several (`LookOk`, `ReadOk`);
- a strong update covers the memory after the write, a weak one the memory before
  and after (`Writes`). A store goes through regions and offsets in loops, in
  any order as far as the lemmas are concerned, which use the principle on folds of
  `AlsStateProofs`. Accesses closer to each other than they are long are written as
  unknown, and of the others no two overlap (`OverlappingsAre`), so that writing one
  leaves the fields retrieved for the rest where they are;
- a load may answer with the value of one place only if there is one place; with
  several it answers unknown, unless their values are the same;
- a test excludes a run only if the content is known.

The hypothesis leaves out the three cases known to go wrong (see above), as the run
does. Registers, regions, their sizes, ranges, right-hand sides, targets, conditions
and the number of instructions are arbitrary.

### Checked by TLC only

- Liveness, which the provers do not handle: `Ends`, `Answered`, `Terminates`, `Settles`.
- `Exact`, whose reference is an iteration.
- Modules with RECURSIVE operators, where the prover has no SMT: `Converter`,
  `Decoder`, `Mempath`, `SmsCompat`, `SummaryApplication`.
- `EqSound`, with the five cases of `EqLeftOut` left out, for the expressions and
  conditions of the instance.
- Of `VsdEngineBounds` the half `AssumeEnds`: that the loop of `assume` ends with its
  third pass is a bound for the conditions of the instance. `EngineBounds`,
  the other half, is `VsdBounds`.
- `Settled` and `NothingGoneIsRead` are not proved.

## Limits

- `Fixpoint` has the single context 0 and the forward direction; contexts and
  reference counts are in `SummaryDstack`, with the sizes given above.
- Transformers of `Fixpoint` are functions of edge, payload and state. Those of
  `summary_dstack` also read summaries of other nodes, with dependencies they add
  themselves.
- `caller` has bottom for its start state (`caller.cpp:70`, "This is wrong!"), and
  is not propagated from an entry with several constraints.
- Overflow of `int64_t` is left out everywhere, and sizes are below 32 bits: the masks
  of `vs_finite.cpp:334` and `vs_open.cpp:386` are shifts of an `int`.
- `rename` keeps one object for the variable of a counter
  (`summary_memory_state.cpp:1249`); `Rename` has one object for each id, shared by all
  that hold it, so a second object of the same counter, whose places the code would
  not rename, does not occur.
- `Mempath` does not choose what the size that was never initialised compares to
  (`mempath.cpp:213`): `SizeDiffers` is a constant, and the run sets it to FALSE. `Passed`
  says nothing of the other outcome.
- `AlsState` leaves conditions and boxes on variables without aliases out, and in
  `replace_pointers` does not add up the factors of terms with the same alias;
  `SummaryApplication` leaves out calls with an alias conflict, which the code
  ignores, an unreachable summary and accesses through the bad pointer; `Mempath`
  a field that holds static addresses and heap pointers at once.
- Not modelled: the SSA pipeline with `liveness`, `reaching_defs`, `adaptive_rd`
  and `renamer`, which the driver never runs and whose backward constraints throw
  (`fp_analysis.cpp:38`); `ismt`, which produces formulas for an external solver;
  `memory_state` and `dstack`, the predecessors of the summary domain; `addr`,
  `caller`, `resolved_connector`, which nothing constructs; the iteration of
  `fcollect`; statistics, printing, copying and visitors.

## Plan

The next proofs, by what they would say:

1. `VsdState`: for which conditions the loop of `assume` ends (`AssumeEnds`), and which
   quotients `value_set` evaluates soundly, to leave fewer of them out of `VsdSoundSafe`.
2. `SummaryDstack`: that no state is read after it was discarded
   (`NothingGoneIsRead`), by counting, for each node, those who have still to read it.
3. `EqualityState`: that the map back is inverse to the classes (`Indexed`) and, with
   the five cases left out, `EqSound`.
