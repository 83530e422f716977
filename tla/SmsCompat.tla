----------------------------- MODULE SmsCompat ------------------------------
(***************************************************************************)
(* sms_compat: two states of the memory domain are made compatible, that   *)
(* is, get the same regions with the same fields under the same names, so  *)
(* that the child domain can compare or join them.                         *)
(*                                                                         *)
(* A state is [fields, alias]: the regions by their ids, and for each      *)
(* input the symbolic pointer it holds, which is the id of the region it   *)
(* points to.  An id is <<path, owner>>: where its pointer was found, going *)
(* from a register through offsets and sizes, and who named it.  Inputs of  *)
(* registers are named by register, offset and size (owner 0), those behind *)
(* pointers get a new name in each state.                                   *)
(***************************************************************************)
EXTENDS Regions, SequencesExt

CONSTANTS Registers,  \* <<<<name>>, 0>>: the ids that mean the same in every state
          Ranges,     \* <<offset, size>>: what an instruction accesses
          Depth,      \* bound: how many pointers are followed
          Length,     \* bound: how many instructions run on each of two ways
          Rounds,     \* bound: how often the ways meet
          Widenings   \* whether they are joined (FALSE) or widened (TRUE): one of these

SmsCompatAssumption ==
  /\ Depth \in Nat /\ Length \in Nat /\ Rounds \in Nat /\ Widenings \subseteq BOOLEAN
  /\ \A r \in Registers : Len(r[1]) = 1 /\ r[2] = 0

VARIABLES a, b,      \* the states on two ways through the program
          acts,      \* how many instructions have run since they parted
          meetings   \* history: whether they were widened each time they have met

vars == <<a, b, acts, meetings>>

\* The pointer an input of this region holds.
Fresh(owner, r, off, size) == <<r[1] \o <<off, size>>, IF r \in Registers THEN 0 ELSE owner>>

IsPtr(key) == Len(key[1]) > 1

Empty == [fields |-> [r \in Registers |-> NoFields], alias |-> <<>>]

Inputs(fields) == UNION {{<<r, o>> : o \in DOMAIN fields[r].in} : r \in DOMAIN fields}

\* The fields with the names of the inputs that are new.
Named(s, owner, f) ==
  LET Kept(i) == i \in DOMAIN s.alias /\ f[i[1]].in[i[2]] = s.fields[i[1]].in[i[2]]
  IN  [fields |-> f,
       alias |-> [i \in Inputs(f) |->
                    IF Kept(i) THEN s.alias[i] ELSE Fresh(owner, i[1], i[2], f[i[1]].in[i[2]])]]

\* retrieve_field
RetrieveField(s, owner, r, off, size, replacement) ==
  Named(s, owner, Retrieve(s.fields, r, off, size, replacement, TRUE).fields)

AddRegion(s, key) == [s EXCEPT !.fields = (key :> NoFields) @@ @]

-----------------------------------------------------------------------------
(* merge_region_iterator: the fields of two regions, those that end first     *)
(* first, each with the one of the other region it meets.                     *)

NoPartner == [first |-> FALSE, off |-> 0, size |-> 0]

\* The fields of a region in order.
FieldSeq(in, first) ==
  LET os == SetToSortSeq(DOMAIN in, <)
  IN  [i \in DOMAIN os |-> [first |-> first, off |-> os[i], size |-> in[os[i]]]]

End(f) == f.off + f.size
Meet(f, g) == f.off < End(g) /\ g.off < End(f) /\ ~(f.off = g.off /\ f.size = g.size)
Equal(f, g) == f.off = g.off /\ f.size = g.size

\* xc and yc: the current field of this region has met one that ended before.
RECURSIVE Merged(_, _, _, _)
Merged(xs, ys, xc, yc) ==
  IF xs = <<>> /\ ys = <<>> THEN <<>>
  ELSE IF ys = <<>>
  THEN <<[collision |-> xc, ending |-> xs[1], partner |-> NoPartner]>> \o Merged(Tail(xs), ys, FALSE, yc)
  ELSE IF xs = <<>>
  THEN <<[collision |-> yc, ending |-> ys[1], partner |-> NoPartner]>> \o Merged(xs, Tail(ys), xc, FALSE)
  ELSE LET x == xs[1]  y == ys[1]
           meet == Meet(x, y)
           collision == xc \/ yc \/ meet
           xFirst == IF collision THEN End(x) <= End(y) ELSE End(x) < End(y)
       IN  IF ~collision /\ Equal(x, y)
           THEN <<[collision |-> FALSE, ending |-> x, partner |-> y]>>
                \o Merged(Tail(xs), Tail(ys), FALSE, FALSE)
           ELSE <<[collision |-> collision,
                   ending |-> IF xFirst THEN x ELSE y,
                   partner |-> IF ~meet THEN NoPartner ELSE IF xFirst THEN y ELSE x]>>
                \o (IF Equal(x, y) THEN Merged(Tail(xs), Tail(ys), FALSE, FALSE)
                    ELSE IF End(x) <= End(y) THEN Merged(Tail(xs), ys, FALSE, yc \/ meet)
                    ELSE Merged(xs, Tail(ys), xc \/ meet, FALSE))

MergedRegions(in1, in2) == Merged(FieldSeq(in1, TRUE), FieldSeq(in2, FALSE), FALSE, FALSE)

-----------------------------------------------------------------------------
(* compatMatchSeparate *)

NoSpan == [from |-> 0, to |-> 0]
Closed(acc) == IF acc.span = NoSpan THEN acc
               ELSE [acc EXCEPT !.spans = Append(@, acc.span), !.span = NoSpan]

\* Faulty variant of Spanned: the field that ends first is all there is.
SpannedFirst(span, d) ==
  [from |-> IF span = NoSpan THEN Min({d.ending.off, d.partner.off}) ELSE span.from, to |-> End(d.ending)]

\* Fields that meet are to become one.
Spanned(span, d) ==
  [from |-> IF span = NoSpan THEN Min({d.ending.off, d.partner.off}) ELSE span.from,
   to |-> Max({End(d.ending), End(d.partner)})]

\* What is missing on one side, and the ranges that conflict.
Plan(in1, in2) ==
  LET Next1(acc, d) ==
        IF d.collision
        THEN IF d.partner = NoPartner THEN acc ELSE [acc EXCEPT !.span = Spanned(@, d)]
        ELSE LET closed == Closed(acc)
             IN  IF d.partner # NoPartner THEN closed
                 ELSE [closed EXCEPT !.missing = Append(@, d.ending)]
  IN  Closed(FoldLeft(Next1, [span |-> NoSpan, spans |-> <<>>, missing |-> <<>>], MergedRegions(in1, in2)))

\* The two regions get the fields they miss; those that conflict are replaced by
\* one on either side.
Carried(st, ka, kb, plan) ==
  LET missing(f) == [side |-> IF f.first THEN "b" ELSE "a", off |-> f.off, size |-> f.size,
                     replacement |-> FALSE]
      replaced(span, side) == [side |-> side, off |-> span.from, size |-> span.to - span.from,
                               replacement |-> TRUE]
      steps == [i \in DOMAIN plan.missing |-> missing(plan.missing[i])]
               \o [i \in DOMAIN plan.spans |-> replaced(plan.spans[i], "a")]
               \o [i \in DOMAIN plan.spans |-> replaced(plan.spans[i], "b")]
      carry(s, step) ==
        [s EXCEPT ![step.side] =
           RetrieveField(@, IF step.side = "a" THEN st.owners[1] ELSE st.owners[2],
                         IF step.side = "a" THEN ka ELSE kb, step.off, step.size, step.replacement)]
  IN  FoldLeft(carry, [st EXCEPT !.conflicts = @ \/ plan.spans # <<>>], steps)

MatchFields(st, ka, kb) == Carried(st, ka, kb, Plan(st.a.fields[ka].in, st.b.fields[kb].in))

\* The pointers the inputs of two regions hold at the same places.
Upcoming(st, ka, kb) ==
  LET pointers(ds) ==
        [i \in DOMAIN ds |-> <<st.a.alias[<<ka, ds[i].ending.off>>], st.b.alias[<<kb, ds[i].partner.off>>]>>]
  IN  pointers(SelectSeq(MergedRegions(st.a.fields[ka].in, st.b.fields[kb].in),
                         LAMBDA d : ~d.collision /\ d.partner # NoPartner))

\* Faulty variants of PushPair: both pointers must have been dereferenced; a
\* widening adds regions, too.
PushPairBoth(widening, st, pair) ==
  IF pair[1] \in DOMAIN st.a.fields /\ pair[2] \in DOMAIN st.b.fields
  THEN [st EXCEPT !.queue = Append(@, pair), !.keys = @ \cup {pair[1]}] ELSE st
PushPairAlways(widening, st, pair) ==
  LET inA == pair[1] \in DOMAIN st.a.fields
      inB == pair[2] \in DOMAIN st.b.fields
  IN  IF ~inA /\ ~inB THEN st
      ELSE [st EXCEPT !.a = IF inA THEN @ ELSE AddRegion(@, pair[1]),
                      !.b = IF inB THEN @ ELSE AddRegion(@, pair[2]),
                      !.queue = Append(@, pair), !.keys = @ \cup {pair[1]}]

\* The regions two pointers point to have to be matched, too, if one of them has
\* been accessed; in a widening only if the first one has.
PushPair(widening, st, pair) ==
  LET inA == pair[1] \in DOMAIN st.a.fields
      inB == pair[2] \in DOMAIN st.b.fields
  IN  IF (~inA /\ ~inB) \/ (widening /\ ~inA /\ IsPtr(pair[2])) THEN st
      ELSE [st EXCEPT !.a = IF inA THEN @ ELSE AddRegion(@, pair[1]),
                      !.b = IF inB THEN @ ELSE AddRegion(@, pair[2]),
                      !.queue = Append(@, pair), !.keys = @ \cup {pair[1]}]

PushAll(widening, st, upcoming) ==
  FoldLeft(LAMBDA s, pair : PushPair(widening, s, pair),
           [st EXCEPT !.equal = @ \o SelectSeq(upcoming, LAMBDA p : p[1] # p[2])], upcoming)

RECURSIVE Match(_, _)
Match(widening, st) ==
  IF st.queue = <<>> THEN st
  ELSE LET ka == st.queue[1][1]  kb == st.queue[1][2]
           push(matched) == PushAll(widening, matched, Upcoming(matched, ka, kb))
       IN  Match(widening, push(MatchFields([st EXCEPT !.queue = Tail(@)], ka, kb)))

\* The regions whose ids are global begin.
CompatMatchSeparate(widening, owners, x, y) ==
  LET roots == {k \in DOMAIN x.fields \cup DOMAIN y.fields : ~IsPtr(k)}
      with(s) == [s EXCEPT !.fields = [k \in roots \cup DOMAIN @ |-> IF k \in DOMAIN @ THEN @[k] ELSE NoFields]]
      order == SetToSeq(roots)
  IN  Match(widening, [a |-> with(x), b |-> with(y), keys |-> roots, conflicts |-> FALSE, equal |-> <<>>,
                       owners |-> owners,
                       queue |-> [i \in DOMAIN order |-> <<order[i], order[i]>>]])

-----------------------------------------------------------------------------
(* compat *)

\* equate_kill and rename_rk: the second state takes over a name of the first.
\* A region of that name it still has is erased.
Renamed(s, pair) ==
  LET To(k) == IF k = pair[2] THEN pair[1] ELSE k
      val(v) == [i \in DOMAIN v |-> <<To(v[i][1]), v[i][2]>>]
      keys == {To(k) : k \in DOMAIN s.fields}
      from(k) == IF k = pair[1] /\ pair[2] \in DOMAIN s.fields THEN pair[2] ELSE k
      region(io) == [io EXCEPT !.out = [o \in DOMAIN @ |-> [@[o] EXCEPT !.val = val(@)]]]
      f == [k \in keys |-> region(s.fields[from(k)])]
  IN  [fields |-> f, alias |-> [i \in Inputs(f) |-> To(s.alias[<<from(i[1]), i[2]>>])]]

\* join_region_map: the same field on both sides, what both know of it.
JoinedRegion(x, y) ==
  [in |-> x.in,
   out |-> [o \in DOMAIN x.out |->
              [size |-> x.out[o].size, val |-> IF x.out[o].val = y.out[o].val THEN x.out[o].val ELSE Top]]]

Compat(widening, owners, x, y) ==
  LET renamed(m) == [conflicts |-> m.conflicts, a |-> m.a, b |-> FoldLeft(Renamed, m.b, m.equal),
                     keys |-> m.keys \cap DOMAIN m.a.fields]
  IN  renamed(CompatMatchSeparate(widening, owners, x, y))

SameFields(x, y) ==
  /\ x.in = y.in
  /\ DOMAIN x.out = DOMAIN y.out /\ \A o \in DOMAIN x.out : x.out[o].size = y.out[o].size

\* The assertions of join_region_map: a partner for each region and each field.
Compatible(c) ==
  \A k \in c.keys : k \in DOMAIN c.b.fields /\ SameFields(c.a.fields[k], c.b.fields[k])

\* domop of summary_memory_state, with the join of the child.
Joined(widening, owners, x, y) ==
  LET region(c) == [k \in c.keys |-> JoinedRegion(c.a.fields[k], c.b.fields[k])]
      state(c, f) == [fields |-> f, alias |-> [i \in Inputs(f) |-> c.a.alias[i]]]
      join(c) == state(c, region(c))
  IN  join(Compat(widening, owners, x, y))

\* What the variables of one state say implies what those of the other do.
ChildGreaterEq(x, y) ==
  \A k \in DOMAIN x.fields :
    /\ k \in DOMAIN y.fields
    /\ \A o \in DOMAIN x.fields[k].out :
         /\ o \in DOMAIN y.fields[k].out /\ x.fields[k].out[o].size = y.fields[k].out[o].size
         /\ x.fields[k].out[o].val \in {Top, y.fields[k].out[o].val}

GreaterEq(x, y) ==
  LET holds(c) == ~c.conflicts /\ ChildGreaterEq(c.a, c.b) IN holds(Compat(FALSE, <<-1, -2>>, x, y))

-----------------------------------------------------------------------------
(* The program: two ways that part and meet again.                            *)

\* What an instruction reads or writes: a range of a register, or of what an
\* input points to.
Accessible(s) ==
  Registers \cup {k \in {s.alias[i] : i \in DOMAIN s.alias} : Len(k[1]) <= 2 * Depth + 1}

Access(s, owner, r, range, val) ==
  LET known == IF r \in DOMAIN s.fields THEN s ELSE AddRegion(s, r)
      retrieved == RetrieveField(known, owner, r, range[1], range[2], FALSE)
  IN  [retrieved EXCEPT !.fields = IF val = Top THEN @ ELSE SetVal(@, r, range[1], val)]

Written(size) == {Top, [i \in 1 .. size |-> Digit(0)]}

\* Names that have not been used.
Owners == <<2 * Len(meetings) + 1, 2 * Len(meetings) + 2>>

Init == a = Empty /\ b = Empty /\ acts = <<0, 0>> /\ meetings = <<>>

\* One way first, then the other: they do not affect each other.
RunA ==
  /\ Len(meetings) < Rounds /\ acts[1] < Length /\ acts[2] = 0
  /\ \E r \in Accessible(a), range \in Ranges : \E val \in Written(range[2]) :
       a' = Access(a, Owners[1], r, range, val)
  /\ acts' = [acts EXCEPT ![1] = @ + 1]
  /\ UNCHANGED <<b, meetings>>

RunB ==
  /\ Len(meetings) < Rounds /\ acts[2] < Length
  /\ \E r \in Accessible(b), range \in Ranges : \E val \in Written(range[2]) :
       b' = Access(b, Owners[2], r, range, val)
  /\ acts' = [acts EXCEPT ![2] = @ + 1]
  /\ UNCHANGED <<a, meetings>>

\* Both ways go on with the state of the node where they meet.
Meeting(widening) ==
  /\ Len(meetings) < Rounds
  /\ \E joined \in {Joined(widening, Owners, a, b)} : a' = joined /\ b' = joined
  /\ acts' = <<0, 0>>
  /\ meetings' = Append(meetings, widening)

Next == RunA \/ RunB \/ \E widening \in Widenings : Meeting(widening)

Spec == Init /\ [][Next]_vars

-----------------------------------------------------------------------------
(* Properties *)

Consistent(s) ==
  /\ Registers \subseteq DOMAIN s.fields
  /\ DOMAIN s.alias = Inputs(s.fields)
  /\ \A i \in DOMAIN s.alias : s.alias[i][1] = i[1][1] \o <<i[2], s.fields[i[1]].in[i[2]]>>
  /\ \A k \in DOMAIN s.fields :
       LET out == s.fields[k].out
       IN  /\ DOMAIN s.fields[k].in = DOMAIN out
           /\ \A o \in DOMAIN out :
                /\ s.fields[k].in[o] = out[o].size /\ Len(out[o].val) \in {0, out[o].size}
                /\ \A o2 \in DOMAIN out : o2 > o => o2 >= Ends(out, o)

\* check_consistency of both states, each input with the pointer found there.
TypeOK == Consistent(a) /\ Consistent(b)

\* The assertions of join_region_map: whatever fields the two ways have created,
\* split and replaced, behind whichever pointers, after the match each region of
\* the result has a partner with exactly the same fields.
Aligned == \A widening \in Widenings : Compatible(Compat(widening, Owners, a, b))

\* The regions an input of a reachable region points to; a region whose pointer
\* has been replaced is not.
RECURSIVE ReachableFrom(_, _)
ReachableFrom(s, ks) ==
  LET next == ks \cup {s.alias[i] : i \in {i \in DOMAIN s.alias : i[1] \in ks}}
  IN  IF next = ks THEN ks ELSE ReachableFrom(s, next)

Reachable(s) == ReachableFrom(s, Registers)
Unknown == <<>>

\* What these regions of a state say of a cell: some content at the entry, a digit,
\* or nothing.  A cell without a field is as it was.
Says(s, ks, path, c) ==
  LET places == UNION {{<<k, o>> : o \in {o \in DOMAIN s.fields[k].out :
                                             c >= o /\ c < Ends(s.fields[k].out, o)}} :
                       k \in {k \in ks \cap DOMAIN s.fields : k[1] = path}}
      said(val, o) == IF val = Top THEN Unknown ELSE <<val[c - o + 1][1][1], val[c - o + 1][2]>>
  IN  IF places = {} THEN {<<path, c>>} ELSE {said(ValueOf(s.fields, p[1], p[2]), p[2]) : p \in places}

CellsAccessed == UNION {range[1] .. range[1] + range[2] - 1 : range \in Ranges}

\* The other state may still have regions whose pointer has been replaced.
Covers(x, y) ==
  \A k \in Reachable(x), c \in CellsAccessed :
    Says(x, Reachable(x), k[1], c) \subseteq {Unknown} \cup Says(y, DOMAIN y.fields, k[1], c)

\* Where operator>= answers yes, fixpoint drops the new state: it must be covered.
OrderSound == GreaterEq(a, b) => Covers(a, b)

\* A region one way has written is in the result.
NothingForgotten ==
  [][meetings' # meetings =>
       \A s \in {a, b} : {k[1] : k \in DOMAIN s.fields} \subseteq {k[1] : k \in DOMAIN a'.fields}]_vars

\* field_converage: where the fields of a region begin, and how much there is to
\* the end of the last.
Coverage(in) ==
  IF in = <<>> THEN [from |-> 0, size |-> 0]
  ELSE [from |-> Min(DOMAIN in), size |-> Max({o + in[o] : o \in DOMAIN in}) - Min(DOMAIN in)]

\* The assertion at the end of compat: the fields of a register reach as far as
\* those of the two states.
CoverageAsserted ==
  \A r \in Registers :
    LET x == Coverage(a.fields[r].in)  y == Coverage(b.fields[r].in)
    IN  a.fields[r].in # <<>> /\ b.fields[r].in # <<>>
        => Coverage(Compat(FALSE, Owners, a, b).a.fields[r].in)
             = [from |-> Min({x.from, y.from}), size |-> Max({x.size, y.size})]
=============================================================================
