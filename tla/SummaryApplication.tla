------------------------- MODULE SummaryApplication --------------------------
(***************************************************************************)
(* Applying the summary of a function to the state of its caller.          *)
(*                                                                         *)
(* Both are states of the memory domain: for each register and each        *)
(* dereferenced pointer a region of fields.  A field that is accessed for  *)
(* the first time holds a symbolic pointer of its own.  What the symbolic  *)
(* pointers of the summary stand for in the caller is found out by walking *)
(* through the entry of the summary (ptr_map); then the fields of the      *)
(* summary are written to the caller.                                      *)
(*                                                                         *)
(* The summary takes different symbolic pointers for different places.  A  *)
(* caller that calls the function with pointers to the same place makes it *)
(* wrong; such conflicts are detected, and the call ignored.               *)
(*                                                                         *)
(* Beside the states runs a concrete memory.  Fields are words, offsets    *)
(* count words; how fields overlap is the matter of Regions.               *)
(***************************************************************************)
EXTENDS Integers, Sequences, FiniteSets, FiniteSetsExt, TLC

CONSTANTS Registers,     \* natural numbers
          Instructions,  \* of the caller and the functions it calls
          CallerLength,  \* bound: instructions before a call, or after it
          CalleeLength,  \* bound: instructions of a function
          MaxCalls,      \* bound on the calls
          MaxAllocs,     \* bound on the objects that are allocated
          Words          \* the words of an object

SummaryApplicationAssumption ==
  /\ Registers \subseteq Nat \ {0}
  /\ CallerLength \in Nat /\ CalleeLength \in Nat /\ MaxCalls \in Nat /\ MaxAllocs \in Nat

VARIABLES caller,   \* the state of the caller
          summary,  \* that of the function which is running, from its entry on
          mem,      \* the words that have been written: <<object, offset>> -> <<object, offset>>
          allocs,   \* the number of objects allocated so far
          calls,
          len,      \* instructions of the caller, or the function, so far
          pc,       \* who is running
          wrong     \* has there been a wrong aliasing assumption?

vars == <<caller, summary, mem, allocs, calls, len, pc, wrong>>

-----------------------------------------------------------------------------
(* Ids name registers, the special pointers, what has been allocated and symbolic *)
(* pointers: that of a field is named for its place, and for whose state it is in. *)

Reg(r) == <<"reg", <<r>>>>
Null == <<"null", <<>>>>    \* the base of numbers
Bad == <<"bad", <<>>>>
Heap == <<"heap", <<0>>>>   \* of the one allocation site
Sub(who, id, o) == <<who, Append(id[2], o)>>

\* A value: pointers with the same offsets, {} if these are unknown.
Val(ids, offs) == [ids |-> ids, offs |-> offs]
Unknown == Val({Bad}, {})

JoinOffs(a, b) == IF a = {} \/ b = {} THEN {} ELSE a \cup b
JoinVal(v, w) == Val(v.ids \cup w.ids, JoinOffs(v.offs, w.offs))
Plus(as, bs) == {a + b : a \in as, b \in bs}

\* Pointer sets are sets of <<id, offsets>>.
AlsOf(v) == {<<id, v.offs>> : id \in v.ids}
ValOf(ptrs) ==
  Val({p[1] : p \in ptrs}, IF \E p \in ptrs : p[2] = {} THEN {} ELSE UNION {p[2] : p \in ptrs})

-----------------------------------------------------------------------------
(* States.  Each field has a variable for the entry, which keeps the field's      *)
(* symbolic pointer, and one for the exit, whose value is given here.             *)

Start == <<>>
Fields(s, id) == IF id \in DOMAIN s THEN DOMAIN s[id] ELSE {}
Get(s, who, id, o) == IF o \in Fields(s, id) THEN s[id][o] ELSE Val({Sub(who, id, o)}, {0})
Put(s, id, o, v) == (id :> ((o :> v) @@ (IF id \in DOMAIN s THEN s[id] ELSE <<>>))) @@ s
Fetch(s, who, id, o) == Put(s, id, o, Get(s, who, id, o))

\* Special pointers, and those with unknown offsets, are ignored.
Cleaned(ptrs) == {p \in ptrs : p[1] \notin {Null, Bad}}
Places(ptrs, o) == UNION {{<<p[1], n + o>> : n \in p[2]} : p \in Cleaned(ptrs)}
IsStrong(ptrs) == \E p \in Cleaned(ptrs) : Cleaned(ptrs) = {p} /\ Cardinality(p[2]) = 1

\* update_multiple: where there are several places, each may have been written.
UpdateMultiple(s, who, ptrs, o, v) ==
  FoldSet(LAMBDA p, acc : Put(acc, p[1], p[2],
                              IF IsStrong(ptrs) THEN v ELSE JoinVal(v, Get(acc, who, p[1], p[2]))),
          s, Places(ptrs, o))

FetchAll(s, who, ptrs, o) == FoldSet(LAMBDA p, acc : Fetch(acc, who, p[1], p[2]), s, Places(ptrs, o))

\* The instructions, in the state of the caller ("c") or of the function ("s").
TransferFrom(s, read, v, who, i) ==
  LET to == Reg(i.to)
      vals(loaded) == {Get(loaded, who, p[1], p[2]) : p \in Places(AlsOf(v), 0)}
      content(ws) == IF ws = {} THEN Unknown ELSE FoldSet(JoinVal, CHOOSE w \in ws : TRUE, ws)
      load(loaded) == Put(loaded, to, 0, content(vals(loaded)))
  IN  CASE i.op = "move" -> Put(read, to, 0, Val(v.ids, Plus(v.offs, {i.add})))
        [] i.op = "either" ->
             Put(Fetch(read, who, to, 0), to, 0, JoinVal(v, Get(s, who, to, 0)))
        [] i.op = "const" -> Put(s, to, 0, Val({Null}, {i.add}))
        [] i.op = "malloc" ->
             Put(s, to, 0, Val({Null, Heap} \cup (IF Heap \in DOMAIN s THEN {Bad} ELSE {}), {0}))
        [] i.op = "load" -> load(FetchAll(read, who, AlsOf(v), 0))
        [] i.op = "store" -> UpdateMultiple(Fetch(read, who, to, 0), who,
                                            AlsOf(Get(s, who, to, 0)), 0, v)

Transfer(s, who, i) ==
  TransferFrom(s, Fetch(s, who, Reg(i.from), 0), Get(s, who, Reg(i.from), 0), who, i)

-----------------------------------------------------------------------------
(* apply_summary *)

\* What the fields of a region hold at the entry of the summary is what they hold
\* in the caller, in any of the places the region may stand for.
BuildPmapRegion(acc, key, ptrs) ==
  LET als(site, o) == UNION {AlsOf(Get(site, "c", p[1], p[2])) : p \in Places(ptrs, o)}
      added(a, site, ps, new) ==
        LET known == IF ps \in DOMAIN a.map THEN a.map[ps] ELSE {}
        IN  [site |-> site, map |-> (ps :> (known \cup new)) @@ a.map,
             work |-> IF new \subseteq known THEN a.work ELSE a.work \cup {ps}]
      fetched(a, site, o) == added(a, site, Sub("s", key, o), als(site, o))
      field(o, a) == fetched(a, FetchAll(a.site, "c", ptrs, o), o)
  IN  FoldSet(field, acc, Fields(summary, key))

\* The worklist, in rounds, until there is nothing new.
RECURSIVE Explore(_)
Explore(acc) ==
  IF acc.work = {} THEN acc
  ELSE Explore(FoldSet(LAMBDA ps, a : BuildPmapRegion(a, ps, a.map[ps]),
                       [acc EXCEPT !.work = {}], acc.work))

Mapping ==
  LET regs == {id \in DOMAIN summary : id[1] = "reg"}
      begin == [site |-> caller, work |-> {},
                map |-> (Null :> {<<Null, {0}>>}) @@ (Bad :> {<<Bad, {0}>>})]
      registers == FoldSet(LAMBDA id, a : BuildPmapRegion(a, id, {<<id, {0}>>}), begin, regs)
      own == <<Heap, {0}>>
      heap == BuildPmapRegion([registers EXCEPT !.map = (Heap :> {own}) @@ @], Heap, {own})
  IN  Explore(IF Heap \in DOMAIN summary THEN heap ELSE registers)

\* Faulty variant of Conflict: only two different pointers without offsets are
\* compared.
ConflictPlain(map) ==
  \E a, b \in DOMAIN map \cap DOMAIN summary :
    a # b /\ (\E p \in map[a] : p \in map[b] /\ p[2] = {0})
    /\ DOMAIN summary[a] \cap DOMAIN summary[b] # {}

\* Two regions of the summary, or two offsets of one, have fields at the same place
\* of one region of the caller, or an offset is unknown there.
Conflict(map) ==
  LET accessed == DOMAIN map \cap DOMAIN summary
      standsFor(c) == UNION {{<<ps, p[2]>> : p \in {q \in map[ps] : q[1] = c}} : ps \in accessed}
      touched(ptr) == {<<ptr, n, o>> : n \in ptr[2], o \in DOMAIN summary[ptr[1]]}
  IN  \E c \in UNION {{p[1] : p \in map[ps]} : ps \in accessed} :
        /\ Cardinality(standsFor(c)) > 1
        /\ \/ \E ptr \in standsFor(c) : ptr[2] = {}
           \/ \E t, u \in UNION {touched(ptr) : ptr \in standsFor(c)} :
                t # u /\ t[2] + t[3] = u[2] + u[3]

\* The pointers of the summary, as the caller's.
InCaller(map, v) ==
  UNION {CASE id \in {Heap, Null} -> {<<id, v.offs>>}
           [] id = Bad -> {<<Bad, {}>>}
           [] OTHER -> IF id \in DOMAIN map
                       THEN {<<p[1], Plus(p[2], v.offs)>> : p \in map[id]} ELSE {} : id \in v.ids}

\* process_region.  A pointer to what both have allocated may be bad.
ProcessRegion(site, map, key, ptrs) ==
  LET value(v) ==
        LET als == InCaller(map, v)
            both == Heap \in v.ids /\ Heap \in DOMAIN caller
        IN  IF als = {} THEN Unknown ELSE ValOf(als \cup (IF both THEN {<<Bad, {0}>>} ELSE {}))
  IN  FoldSet(LAMBDA o, acc : UpdateMultiple(acc, "c", ptrs, o, value(summary[key][o])),
              site, DOMAIN summary[key])

Pointers(s, who, id) == UNION {{Sub(who, id, o)} \cup s[id][o].ids : o \in Fields(s, id)}

\* vars_relations: the regions one can get to from the registers, along what is
\* known of the entry or of the exit.
RECURSIVE Reachable(_, _, _)
Reachable(s, found, next) ==
  IF next = {} THEN found
  ELSE LET ids == UNION {Pointers(s, "c", id) : id \in next}
       IN  Reachable(s, found \cup next, ids \ (found \cup next))

Project(s) ==
  LET regs == {id \in DOMAIN s : id[1] = "reg"}
      kept == regs \cup Reachable(s, {}, regs)
  IN  [id \in DOMAIN s \cap kept |-> s[id]]

\* Where the assumptions of the summary are wrong, it is taken for the identity.
Applied(m) ==
  LET registers == {id \in DOMAIN summary : id[1] = "reg"}
      derefs == (DOMAIN summary \ registers) \cap DOMAIN m.map
      written == FoldSet(LAMBDA id, site : ProcessRegion(site, m.map, id, {<<id, {0}>>}), m.site, registers)
      applied == FoldSet(LAMBDA id, site : ProcessRegion(site, m.map, id, m.map[id]), written, derefs)
  IN  IF Conflict(m.map) THEN [conflict |-> TRUE, state |-> m.site]
      ELSE [conflict |-> FALSE, state |-> Project(applied)]

ApplySummary == Applied(Mapping)

-----------------------------------------------------------------------------
(* The concrete memory.  An object is an id and, for what has been allocated, a   *)
(* number.  At the entry of the caller every word points to an object of its own. *)

Obj(id) == <<id, 0>>
Content(cell) == IF cell \in DOMAIN mem THEN mem[cell] ELSE <<Obj(Sub("c", cell[1][1], cell[2])), 0>>
RegContent(r) == Content(<<Obj(Reg(r)), 0>>)

\* A word of an object, at most as deep in the memory as the run looks.  What has
\* been allocated, but not written, holds no pointers.
IsPlace(ptr) ==
  LET id == ptr[1][1]
  IN  id # Null /\ ptr[2] \in Words /\ Len(id[2]) <= 3 /\ (id = Heap \/ id[2][1] # 0)

Execute(i) ==
  LET v == RegContent(i.from)
      target == RegContent(i.to)
      set(cell, x) == mem' = (cell :> x) @@ mem
      to == <<Obj(Reg(i.to)), 0>>
  IN  CASE i.op = "move" -> set(to, <<v[1], v[2] + i.add>>)
        [] i.op = "either" -> set(to, v) \/ set(to, target)
        [] i.op = "const" -> set(to, <<Obj(Null), i.add>>)
        [] i.op = "malloc" -> set(to, <<<<Heap, allocs + 1>>, 0>>) \/ set(to, <<Obj(Null), 0>>)
        [] i.op = "load" -> IsPlace(v) /\ set(to, Content(v))
        [] i.op = "store" -> IsPlace(target) /\ set(target, v)

\* An access through a bad pointer is ignored by the domain; it is left out.
Allowed(s, who, i) ==
  LET known(r) == Bad \notin Get(s, who, Reg(r), 0).ids
  IN  /\ i.op = "load" => known(i.from)
      /\ i.op = "store" => known(i.to)
      /\ i.op = "malloc" => allocs < MaxAllocs

-----------------------------------------------------------------------------

Init ==
  /\ caller = Start /\ summary = Start /\ mem = <<>>
  /\ allocs = 0 /\ calls = 0 /\ len = 0 /\ pc = "caller" /\ wrong = FALSE

Run ==
  \E i \in Instructions :
    /\ Execute(i)
    /\ allocs' = IF i.op = "malloc" THEN allocs + 1 ELSE allocs
    /\ IF pc = "caller"
       THEN /\ len < CallerLength /\ Allowed(caller, "c", i)
            /\ caller' = Transfer(caller, "c", i) /\ UNCHANGED summary
       ELSE /\ len < CalleeLength /\ Allowed(summary, "s", i)
            /\ summary' = Transfer(summary, "s", i) /\ UNCHANGED caller
    /\ len' = len + 1
    /\ UNCHANGED <<calls, pc, wrong>>

Call ==
  /\ pc = "caller" /\ calls < MaxCalls /\ ~wrong
  /\ pc' = "callee" /\ calls' = calls + 1 /\ len' = 0
  /\ summary' = Start
  /\ UNCHANGED <<caller, mem, allocs, wrong>>

Return ==
  /\ pc = "callee"
  /\ \E res \in {ApplySummary} : caller' = res.state /\ wrong' = res.conflict
  /\ pc' = "caller" /\ len' = 0 /\ summary' = Start
  /\ UNCHANGED <<mem, allocs, calls>>

Next == Run \/ Call \/ Return

Spec == Init /\ [][Next]_vars

-----------------------------------------------------------------------------

TypeOK ==
  /\ \A s \in {caller, summary} : \A id \in DOMAIN s : \A o \in DOMAIN s[id] :
       s[id][o].ids # {} /\ \A n \in s[id][o].ids : n[1] \in {"null", "bad", "heap", "c", "s"}
  /\ pc = "caller" => \A id \in DOMAIN caller : id[1] # "s"

Describes(v, x) == Bad \in v.ids \/ (x[1][1] \in v.ids /\ (v.offs = {} \/ x[2] \in v.offs))

\* After a call the state of the caller says what is true of the memory, whatever
\* pointers the function got, followed, moved and wrote through, unless the
\* conflict has been noticed.
Sound ==
  pc = "caller" /\ ~wrong =>
    \A id \in DOMAIN caller : \A o \in DOMAIN caller[id] :
      \A n \in IF id = Heap THEN 1 .. allocs ELSE {0} :
        Describes(caller[id][o], Content(<<<<id, n>>, o>>))

\* A word the state has no field for is as it was at the entry of the caller: what
\* the function has changed has arrived in the caller, and nothing that can still
\* be reached is projected away.
Framed ==
  pc = "caller" /\ ~wrong =>
    \A cell \in DOMAIN mem :
      \/ cell[2] \in Fields(caller, cell[1][1])
      \/ cell[1][1] = Heap
      \/ mem[cell] = <<Obj(Sub("c", cell[1][1], cell[2])), 0>>

\* What is loaded through a register that holds no bad pointer is what is there.
LoadsSound ==
  pc = "caller" /\ ~wrong =>
    \A r \in Registers :
      LET x == RegContent(r)  v == Get(caller, "c", Reg(r), 0)
      IN  Bad \notin v.ids /\ <<x[1], x[2]>> \in DOMAIN mem /\ x[2] \in Fields(caller, x[1][1])
          => Describes(caller[x[1][1]][x[2]], Content(x))
=============================================================================
