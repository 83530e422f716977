------------------------------- MODULE Mempath -------------------------------
(***************************************************************************)
(* What a function needs to know of its callers.                           *)
(*                                                                         *)
(* A function that calls through a pointer it has got from outside asks    *)
(* its callers for it.  It names the pointer by a path: a register, and    *)
(* the offsets to follow from there (mempath).  A caller follows the path  *)
(* through its own state.  Where it ends in static memory, the pointers    *)
(* are put into the state the function starts with; where it ends in a     *)
(* pointer that is unknown to the caller too, the request goes on to the   *)
(* callers of the caller.  With tabulation there is a context for each     *)
(* combination of pointers.                                                *)
(*                                                                         *)
(* States are those of SummaryApplication: fields are words.               *)
(***************************************************************************)
EXTENDS Integers, Sequences, FiniteSets, SequencesExt, TLC

CONSTANTS Registers,    \* natural numbers
          Offsets,
          Values,       \* what a caller writes: sets of pointers <<id, offsets>>
          MaxAccesses,  \* bound on the fields of the function's entry
          MaxWrites,    \* bound on the fields the caller writes
          Tabulation,   \* a context for each combination of pointers
          SizeDiffers   \* outcomes of a comparison with a size that is never set

MempathAssumption ==
  /\ Registers \subseteq Nat /\ MaxAccesses \in Nat /\ MaxWrites \in Nat
  /\ Tabulation \in BOOLEAN /\ SizeDiffers \subseteq BOOLEAN /\ SizeDiffers # {}

VARIABLES callee,   \* the entry of the function
          reqs,     \* paths it has asked for, as a sequence
          from,     \* the state of the caller
          to,       \* the state the function starts with
          done,     \* requests that have been dealt with
          left,     \* paths for the callers of the caller
          errors,   \* pointers no path has been found to
          pc

vars == <<callee, reqs, from, to, done, left, errors, pc>>

-----------------------------------------------------------------------------
(* Pointers.  "var" names a symbolic pointer of a state, "static" an address of   *)
(* the program, "heap" an allocation.                                             *)

Reg(r) == <<"reg", r>>
Null == <<"null", 0>>
Bad == <<"bad", 0>>
Heap == <<"heap", 0>>
Static(n) == <<"static", n>>

IsStatic(ptr) == ptr[1][1] = "static"
IsPlain(ptr) == ptr[1][1] \in {"var", "heap"} /\ Cardinality(ptr[2]) = 1
Offset(ptr) == CHOOSE o \in ptr[2] : TRUE

\* For each place the symbolic pointer it held at the entry, and what it holds.
Empty == [in |-> <<>>, out |-> <<>>]
NewName(s) == <<"var", Cardinality(DOMAIN s.in) + 1>>

Fetch(s, place) ==
  IF place \in DOMAIN s.out THEN s
  ELSE [in |-> (place :> NewName(s)) @@ s.in, out |-> (place :> {<<NewName(s), {0}>>}) @@ s.out]

Assign(s, place, ptrs) ==
  LET assigned(read) == [read EXCEPT !.out[place] = ptrs] IN assigned(Fetch(s, place))

-----------------------------------------------------------------------------
(* from_aliases: a path for each of the pointers *)

\* Everything that is found below a region of the entry, with the offsets to it.
RECURSIVE Below(_, _, _)
Below(s, owner, steps) ==
  UNION {LET next == Append(steps, place[2])
         IN  {<<s.in[place], next>>} \cup Below(s, s.in[place], next) :
           place \in {p \in DOMAIN s.in : p[1] = owner}}

PathsTo(s, id) ==
  UNION {{[base |-> r, steps |-> found[2]] : found \in {b \in Below(s, Reg(r), <<>>) : b[1] = id}} :
           r \in Registers}

FromAliases(s, ids) ==
  LET asked == ids \ {Null, Bad}
  IN  [paths |-> UNION {PathsTo(s, id) : id \in asked},
       errors |-> Cardinality({id \in asked : PathsTo(s, id) = {}})]

-----------------------------------------------------------------------------
(* resolve, split: where a path leads in the caller *)

FetchAll(s, places) == FoldSet(LAMBDA p, acc : Fetch(acc, p), s, places)

\* Faulty variant of PlacesOf: the offset of the pointer is not added.
PlacesBehind(ptrs, step) == {<<ptr[1], step>> : ptr \in {p \in ptrs : IsPlain(p)}}

PlacesOf(ptrs, step) == {<<ptr[1], Offset(ptr) + step>> : ptr \in {p \in ptrs : IsPlain(p)}}

\* The pointers at each length of the path: static ones end it, those with several
\* offsets are dropped.  Fields that are not there yet are made.
RECURSIVE Follow(_, _, _, _)
Follow(s, steps, i, places) ==
  LET ending(found, rest) == [rest EXCEPT !.at = (i :> {p \in found : IsStatic(p)}) @@ @]
      at(read, found) ==
        IF i = Len(steps) \/ found = {} THEN [state |-> read, at |-> i :> found]
        ELSE ending(found, Follow(read, steps, i + 1, PlacesOf(found, steps[i + 1])))
      follow(read) == at(read, UNION {read.out[p] : p \in places})
  IN  follow(FetchAll(s, places))

Resolve(s, path) == Follow(s, path.steps, 1, {<<Reg(path.base), path.steps[1]>>})

Immediate(res) == [len \in DOMAIN res.at |-> {p \in res.at[len] : IsStatic(p)}]
Symbolic(res) == UNION {{p \in res.at[len] : ~IsStatic(p)} : len \in DOMAIN res.at}

Extracted(res, up) ==
  [state |-> res.state, immediate |-> Immediate(res), left |-> up.paths, errors |-> up.errors]

\* _extract
Extract(s, path) ==
  LET extract(res) == Extracted(res, FromAliases(res.state, {p[1] : p \in Symbolic(res)}))
  IN  extract(Resolve(s, path))

-----------------------------------------------------------------------------
(* propagate: the pointers are put where the path leads in the function.          *)

Result(s, status) == [state |-> s, status |-> status]

\* unpack_singleton: neither the null pointer nor static memory counts.
Unpacked(ptrs) == {p \in ptrs : ~IsStatic(p) /\ p[1] \notin {Null, Bad}}

\* A field that exists is compared in size with a variable that has no value.
\* (differs is what comes out of that.)
RECURSIVE Put(_, _, _, _, _, _)
Put(s, steps, i, owner, ptrs, differs) ==
  LET place == <<owner, steps[i]>>
      behind(read, next) ==
        IF Cardinality(next) # 1 THEN Result(read, "failed")
        ELSE Put(read, steps, i + 1, (CHOOSE p \in next : TRUE)[1], ptrs, differs)
      put(read) == IF i = Len(steps) THEN Result(Assign(read, place, ptrs), "ok")
                   ELSE behind(read, Unpacked(read.out[place]))
  IN  IF place \in DOMAIN s.out /\ differs THEN Result(s, "warned") ELSE put(Fetch(s, place))

Propagate(s, path, len, ptrs, differs) ==
  IF ptrs = {} THEN Result(s, "ok")
  ELSE Put(s, SubSeq(path.steps, 1, len), 1, Reg(path.base), ptrs, differs)

\* One request after the other, and for each the shorter parts first.
RECURSIVE PropagateAll(_, _, _, _)
PropagateAll(s, path, immediate, differs) ==
  IF DOMAIN immediate = {} THEN Result(s, "ok")
  ELSE LET len == Min(DOMAIN immediate)
           after(first) ==
             IF first.status = "failed" THEN first
             ELSE PropagateAll(first.state, path,
                               [l \in DOMAIN immediate \ {len} |-> immediate[l]], differs)
       IN  after(Propagate(s, path, len, immediate[len], differs))

-----------------------------------------------------------------------------
(* Tabulation *)

\* extract_table_keys: an assignment gives one pointer to one part of a path.
TableKeys(path, immediate) ==
  UNION {UNION {{[path |-> [path EXCEPT !.steps = SubSeq(@, 1, len)], ptr |-> <<p[1], {o}>>] :
                   o \in p[2]} : p \in immediate[len]} : len \in DOMAIN immediate}

\* Faulty variant of Turn: it ends when the last digit is through.
RECURSIVE TurnLast(_, _, _)
TurnLast(lists, digits, seen) ==
  LET now == seen \cup {{lists[i][digits[i]] : i \in DOMAIN lists}}
      d == Len(lists)
  IN  IF digits[d] = Len(lists[d]) THEN now
      ELSE TurnLast(lists, [digits EXCEPT ![d] = @ + 1], now)

\* The odometer: the last digit that can go on does, those behind it start again.
RECURSIVE Turn(_, _, _)
Turn(lists, digits, seen) ==
  LET now == seen \cup {{lists[i][digits[i]] : i \in DOMAIN lists}}
      more == {i \in DOMAIN lists : digits[i] < Len(lists[i])}
      d == Max(more)
  IN  IF more = {} THEN now
      ELSE Turn(lists, [i \in DOMAIN lists |-> IF i < d THEN digits[i]
                                               ELSE IF i = d THEN digits[i] + 1 ELSE 1], now)

\* tabulation_keys: none if there is a request without an assignment; what comes
\* behind that request is not looked at.
TabulationKeys(s, paths) ==
  LET ones == [i \in DOMAIN paths |-> 1]
      result(exs, keys, seen) ==
        [left |-> UNION {exs[i].left : i \in seen},
         errors |-> FoldSet(LAMBDA i, n : n + exs[i].errors, 0, seen),
         keys |-> IF \E i \in DOMAIN keys : keys[i] = {} THEN {}
                  ELSE Turn([i \in DOMAIN keys |-> SetToSeq(keys[i])], ones, {})]
      seen(missing) == IF missing = {} THEN DOMAIN paths ELSE 1 .. Min(missing)
      keyed(exs, keys) == result(exs, keys, seen({i \in DOMAIN keys : keys[i] = {}}))
      extracted(exs) == keyed(exs, [i \in DOMAIN paths |-> TableKeys(paths[i], exs[i].immediate)])
  IN  extracted([i \in DOMAIN paths |-> Extract(s, paths[i])])

\* The order of paths: by register, by length, and the greater offsets first.
PathLess(p, q) ==
  LET differing == {i \in DOMAIN p.steps : p.steps[i] # q.steps[i]}
  IN  \/ p.base < q.base
      \/ p.base = q.base /\ Len(p.steps) < Len(q.steps)
      \/ /\ p.base = q.base /\ Len(p.steps) = Len(q.steps)
         /\ differing # {} /\ p.steps[Min(differing)] > q.steps[Min(differing)]

Sorted(paths) == SetToSortSeq(paths, PathLess)

\* The start of a context.  Where two assignments are for the same path it is left
\* open which one comes first.
RECURSIVE Instantiate(_, _, _)
Instantiate(s, key, differs) ==
  IF key = {} THEN Result(s, "ok")
  ELSE LET after(a, first) ==
             IF first.status = "failed" THEN first ELSE Instantiate(first.state, key \ {a}, differs)
           next(a) == after(a, Propagate(s, a.path, Len(a.path.steps), {a.ptr}, differs))
       IN  next(CHOOSE a \in key : \A b \in key : ~PathLess(b.path, a.path))

-----------------------------------------------------------------------------

Init ==
  /\ callee = Empty /\ from = Empty /\ to = <<>>
  /\ reqs = <<>> /\ done = 0 /\ left = {} /\ errors = 0 /\ pc = "callee"

\* The function reads a field: of a register, or behind a pointer.
Access ==
  /\ pc = "callee" /\ Cardinality(DOMAIN callee.in) < MaxAccesses
  /\ \E owner \in {Reg(r) : r \in Registers} \cup {callee.in[p] : p \in DOMAIN callee.in} :
       \E o \in Offsets :
         /\ <<owner, o>> \notin DOMAIN callee.in
         /\ callee' = Fetch(callee, <<owner, o>>)
  /\ UNCHANGED <<reqs, from, to, done, left, errors, pc>>

\* It calls through some of the pointers it has got.
Ask ==
  /\ pc = "callee"
  /\ \E ids \in SUBSET {callee.in[p] : p \in DOMAIN callee.in} :
       /\ ids # {} /\ Cardinality(ids) <= 2
       /\ reqs' = Sorted(FromAliases(callee, ids).paths)
  /\ pc' = "asked"
  /\ UNCHANGED <<callee, from, to, done, left, errors>>

\* A caller.  The entry of the function is not looked at any more.
Caller ==
  /\ pc = "asked" /\ pc' = "caller"
  /\ callee' = Empty
  /\ UNCHANGED <<reqs, from, to, done, left, errors>>

\* What a caller has read or written: registers, and what they lead to.
Held(s) == UNION {s.out[p] : p \in DOMAIN s.out}

Write ==
  /\ pc = "caller" /\ Cardinality(DOMAIN from.out) < MaxWrites
  /\ \E owner \in {Reg(r) : r \in Registers} \cup {ptr[1] : ptr \in Held(from)} :
       \E o \in Offsets :
         /\ owner[1] \notin {"static", "null", "bad"} /\ <<owner, o>> \notin DOMAIN from.out
         /\ \/ from' = Fetch(from, <<owner, o>>)
            \/ \E v \in Values : from' = Assign(from, <<owner, o>>, v)
            \/ \E p \in DOMAIN from.in : from' = Assign(from, <<owner, o>>, {<<from.in[p], {0}>>})
  /\ UNCHANGED <<callee, reqs, to, done, left, errors, pc>>

Enter ==
  /\ pc = "caller" /\ pc' = "call"
  /\ to' = ({} :> Empty)
  /\ UNCHANGED <<callee, reqs, from, done, left, errors>>

\* accumulate_all, for the next request.
Accumulate ==
  /\ pc = "call" /\ ~Tabulation /\ done < Len(reqs)
  /\ \E differs \in SizeDiffers, ex \in {Extract(from, reqs[done + 1])} :
       /\ \E res \in {PropagateAll(to[{}], reqs[done + 1], ex.immediate, differs)} :
            /\ to' = ({} :> res.state)
            /\ pc' = IF res.status = "failed" THEN "failed" ELSE pc
       /\ from' = ex.state
       /\ left' = left \cup ex.left
       /\ errors' = errors + ex.errors
  /\ done' = done + 1
  /\ UNCHANGED <<callee, reqs>>

\* tabulate_all: a context for each combination.
Tabulate ==
  /\ pc = "call" /\ Tabulation /\ done < Len(reqs)
  /\ \E differs \in SizeDiffers, tab \in {TabulationKeys(from, reqs)} :
       /\ \E starts \in {[key \in tab.keys |-> Instantiate(Empty, key, differs)]} :
            /\ to' = [key \in tab.keys |-> starts[key].state] @@ to
            /\ pc' = IF \E key \in tab.keys : starts[key].status = "failed" THEN "failed" ELSE pc
       /\ left' = tab.left /\ errors' = tab.errors
  /\ from' = FoldSet(LAMBDA i, s : Extract(s, reqs[i]).state, from, DOMAIN reqs)
  /\ done' = Len(reqs)
  /\ UNCHANGED <<callee, reqs>>

Next == Access \/ Ask \/ Caller \/ Write \/ Enter \/ Accumulate \/ Tabulate

Spec == Init /\ [][Next]_vars

-----------------------------------------------------------------------------

TypeOK ==
  /\ \A s \in {callee, from} \cup {to[k] : k \in DOMAIN to} :
       /\ DOMAIN s.in \subseteq DOMAIN s.out
       /\ Cardinality({s.in[p] : p \in DOMAIN s.in}) = Cardinality(DOMAIN s.in)
  /\ done \in 0 .. Len(reqs) /\ errors \in Nat
  /\ \A i \in DOMAIN reqs : reqs[i].base \in Registers /\ reqs[i].steps # <<>>
  /\ pc \in {"callee", "asked", "caller", "call", "failed"}

\* The place a path leads to at the entry of a function.
RECURSIVE AtEntry(_, _, _, _)
AtEntry(s, steps, i, owner) ==
  IF <<owner, steps[i]>> \notin DOMAIN s.in THEN Null
  ELSE IF i = Len(steps) THEN s.in[<<owner, steps[i]>>]
  ELSE AtEntry(s, steps, i + 1, s.in[<<owner, steps[i]>>])

Entered(s, path) == AtEntry(s, path.steps, 1, Reg(path.base))

\* One of the memories the caller's state describes: what each field holds.
Memories(s) ==
  LET several == {p \in DOMAIN s.out : Cardinality(s.out[p]) > 1}
      ptrs == UNION {s.out[p] : p \in several}
  IN  {[p \in DOMAIN s.out |-> IF p \in several THEN m[p] ELSE CHOOSE x \in s.out[p] : TRUE] :
         m \in {m \in [several -> ptrs] : \A p \in several : m[p] \in s.out[p]}}

\* Where a path ends in it, and after how many steps.  It is lost at a pointer that
\* has several offsets, or none to follow.
RECURSIVE Way(_, _, _, _)
Way(m, steps, i, owner) ==
  LET place == <<owner[1], owner[2] + steps[i]>>
      x == m[place]
  IN  IF place \notin DOMAIN m THEN [len |-> i, ptr |-> <<Bad, {0}>>]
      ELSE IF IsStatic(x) \/ i = Len(steps) THEN [len |-> i, ptr |-> x]
      ELSE IF ~IsPlain(x) THEN [len |-> i, ptr |-> <<Bad, {0}>>]
      ELSE Way(m, steps, i + 1, <<x[1], Offset(x)>>)

Ends(m, path) == Way(m, path.steps, 1, <<Reg(path.base), 0>>)

\* What a function that starts in s finds there.
RECURSIVE Finds(_, _, _, _)
Finds(s, steps, i, owner) ==
  LET place == <<owner, steps[i]>>
  IN  IF place \notin DOMAIN s.out THEN {}
      ELSE IF i = Len(steps) THEN s.out[place]
      ELSE UNION {Finds(s, steps, i + 1, p[1]) : p \in {q \in s.out[place] : IsPlain(q)}}

Knows(s, path, len, id, o) ==
  \E p \in Finds(s, SubSeq(path.steps, 1, len), 1, Reg(path.base)) : p[1] = id /\ o \in p[2]

Finished == pc = "failed" \/ (pc = "call" /\ done = Len(reqs))

\* A path that is asked for leads, at the entry of the function, to the pointer the
\* function has called; and there is one for each that is reachable.
Located ==
  pc = "asked" =>
    /\ \A i \in DOMAIN reqs : Entered(callee, reqs[i]) \in {callee.in[p] : p \in DOMAIN callee.in}
    /\ Cardinality({Entered(callee, reqs[i]) : i \in DOMAIN reqs}) = Len(reqs)
    /\ Len(reqs) > 0

\* Without tabulation the function starts with all the pointers the caller may hold
\* where it has asked for them.
Passed ==
  Finished /\ ~Tabulation =>
    \A m \in Memories(from) : \A i \in DOMAIN reqs :
      LET end == Ends(m, reqs[i])
      IN  IsStatic(end.ptr) => \A o \in end.ptr[2] : Knows(to[{}], reqs[i], end.len, end.ptr[1], o)

\* With tabulation, whatever the caller's memory is, if all that was asked for is
\* known there is a context that starts with just that.
Keyed ==
  Finished /\ Tabulation =>
    \A m \in Memories(from) :
      LET end(i) == Ends(m, reqs[i])
          part(i) == <<reqs[i].base, SubSeq(reqs[i].steps, 1, end(i).len)>>
      IN  (\A i \in DOMAIN reqs : IsStatic(end(i).ptr)) =>
            \A os \in [DOMAIN reqs -> Offsets] :
              (\A i \in DOMAIN reqs : os[i] \in end(i).ptr[2]) =>
                \/ \E i, j \in DOMAIN reqs : part(i) = part(j) /\ os[i] # os[j]
                \/ \E key \in DOMAIN to \ {{}} : \A i \in DOMAIN reqs :
                     Finds(to[key], part(i)[2], 1, Reg(part(i)[1]))
                       = {<<end(i).ptr[1], {os[i]}>>}

\* A pointer that is unknown to the caller too is asked for again: the path leads, at
\* the entry of the caller, to the pointer that is now in the place the function meant.
Deferred ==
  Finished /\ ~Tabulation =>
    \A m \in Memories(from) : \A i \in DOMAIN reqs :
      LET id == Ends(m, reqs[i]).ptr[1]
      IN  id[1] = "var" /\ PathsTo(from, id) # {} /\ Ends(m, reqs[i]).len = Len(reqs[i].steps)
          => \E path \in left : Entered(from, path) = id
=============================================================================
