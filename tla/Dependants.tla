---------------------------- MODULE Dependants ----------------------------
(***************************************************************************)
(* The dependency graph of an analysis.  fp_analysis keeps a map           *)
(* dependants_t from a node to the nodes whose constraint reads its state; *)
(* here it is the set of its pairs <<source, sink>>.                       *)
(***************************************************************************)

\* The sinks recorded for a source: dependants_t::operator[].
DependantsOf(deps, node) == {e[2] : e \in {d \in deps : d[1] = node}}

\* Both ends of the edges an update names.
Endpoints(edges) == {e[1] : e \in edges} \cup {e[2] : e \in edges}

\* What fp_analysis::roots returns: the members of all on which no member of
\* all has an edge.  FpRoots models the loops that compute it.
RootsOf(all, deps) == {n \in all : \A m \in all : <<m, n>> \notin deps}

=============================================================================
