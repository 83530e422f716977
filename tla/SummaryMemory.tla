--------------------------- MODULE SummaryMemory ----------------------------
(***************************************************************************)
(* The memory domain: registers and dereferenced pointers are regions, a   *)
(* region a row of fields, each with a variable for its content at the     *)
(* entry of the function and one for its content now.                      *)
(*                                                                         *)
(* Beside the state runs the memory, cell by cell (a cell stands for eight *)
(* bits).  A cell holds a digit or what cell c of region r held at the     *)
(* entry, <<r, c>>.  What the child domain knows of a field is the         *)
(* sequence of its cells or nothing.                                       *)
(***************************************************************************)
EXTENDS Regions, Folds

CONSTANTS Registers, Derefs,  \* ids of regions: variables and symbolic pointers
          Static,             \* of the Derefs those in the binary
          Cells,              \* the number of cells of each region
          Ranges,             \* <<region, offset, size>>: what instructions access
          Sources,            \* right-hand sides: digits, or a range
          Targets,            \* addresses: a set of offsets for each region they may lie in
          Conditions,         \* a range and digits: is this its content?
          Length,             \* bound: how many instructions are run
          LeftOut             \* cases of retrieve_field and load that are left out

Region == Registers \cup Derefs

Cell == (Region \cup {Numbers}) \X Int
Access == Region \X Nat \X (Nat \ {0})
Numeral == Seq({Numbers} \X Nat) \ {<<>>}

SummaryMemoryAssumption ==
  /\ Numbers \notin Region /\ Registers \cap Derefs = {} /\ Static \subseteq Derefs
  /\ Cells \in [Region -> Nat] /\ Length \in Nat
  /\ LeftOut \subseteq {"gap", "suffix", "skip"}
  /\ Ranges \subseteq Access
  /\ \A range \in Ranges : range[1] \in Registers /\ range[2] + range[3] <= Cells[range[1]]
  /\ Sources \subseteq [kind : {"digits"}, digits : Numeral] \cup [kind : {"range"}, range : Ranges]
  /\ \A target \in Targets :
       /\ IsFiniteSet(DOMAIN target) /\ DOMAIN target \in (SUBSET Derefs) \ {{}}
       /\ \A r \in DOMAIN target : IsFiniteSet(target[r]) /\ target[r] \in (SUBSET Nat) \ {{}}
  /\ Conditions \subseteq [range : Ranges, digits : Numeral]
  /\ \A cond \in Conditions : Len(cond.digits) = cond.range[3]

ASSUME SummaryMemoryAssumption

VARIABLES sms,  \* the state: whether it is bottom, and the fields of each region
          mem,  \* the memory, or Dead
          done  \* the number of instructions that have run

vars == <<sms, mem, done>>

Dead == <<>>
EmptyRegions == [r \in Region |-> NoFields]
Content(m, r, off, size) == [i \in 1 .. size |-> m[<<r, off + i - 1>>]]

\* static_memory::read: the content of a static region is that of the binary.
Image == Digit(1)
Meaning(cell) == IF cell[1] \in Static THEN Image ELSE cell

-----------------------------------------------------------------------------
(* Reading and writing *)

\* The sum of the fields, each scaled to its place: a pointer can only be the
\* lowest.
Assembled(out, off, size, over) ==
  LET field(c) == CHOOSE o \in over : o <= c /\ c < Ends(out, o)
  IN  IF \E o \in over :
           \/ out[o].val = Top
           \/ o # off /\ \E i \in DOMAIN out[o].val : out[o].val[i][1] # Numbers
      THEN Top
      ELSE [i \in 1 .. size |-> out[field(off + i - 1)].val[off + i - field(off + i - 1)]]

\* transLEReg: fields that make up the range are put together (transLERegFields); a
\* range never written or read becomes a field; a range that conflicts with the fields is unknown.
Read(fields, r, off, size) ==
  LET retrieved(res) == [fields |-> res.fields, val |-> IF res.ok THEN ValueOf(res.fields, r, off) ELSE Top]
      out == fields[r].out
      over == Overlapped(out, off, size)
  IN  IF Exact(out, off, size, over) THEN [fields |-> fields, val |-> Assembled(out, off, size, over)]
      ELSE retrieved(Retrieve(fields, r, off, size, FALSE, FALSE))

\* A value that may be this or that.
Either(vals) == IF Cardinality(vals) = 1 THEN CHOOSE val \in vals : TRUE ELSE Top

ReadSource(fields, src) ==
  IF src.kind = "digits" THEN [fields |-> fields, val |-> src.digits]
  ELSE Read(fields, src.range[1], src.range[2], src.range[3])

SizeOf(src) == IF src.kind = "digits" THEN Len(src.digits) ELSE src.range[3]

\* What the instruction itself computes.
SourceContent(m, src) ==
  IF src.kind = "digits" THEN src.digits
  ELSE Content(m, src.range[1], src.range[2], src.range[3])

Written(m, r, off, content) ==
  [cell \in DOMAIN m |->
     IF cell \in CellsOf(r, off, Len(content)) THEN content[cell[2] - off + 1] ELSE m[cell]]

Running == ~sms.bottom /\ mem # Dead
Allowed(case) == case \notin LeftOut
Overlaps(a, b) == CellsOf(a[1], a[2], a[3]) \cap CellsOf(b[1], b[2], b[3]) # {}

-----------------------------------------------------------------------------
(* The instructions *)

State(fields) == [bottom |-> FALSE, fields |-> fields]
Bottom == [bottom |-> TRUE, fields |-> EmptyRegions]

Init ==
  /\ sms = State(EmptyRegions)
  /\ mem = [cell \in UNION {CellsOf(r, 0, Cells[r]) : r \in Region} |-> Meaning(cell)]
  /\ done = 0

\* The field of the left side is retrieved before the right side is read.
Assign(lhs, src) ==
  /\ Running
  /\ \E res \in {Retrieve(sms.fields, lhs[1], lhs[2], lhs[3], FALSE, TRUE)} :
       /\ res.case # "suffix" \/ Allowed("suffix")
       /\ res.case = "gap" /\ src.kind = "range" /\ Overlaps(lhs, src.range) => Allowed("gap")
       /\ \E rhs \in {ReadSource(res.fields, src)} :
            sms' = State(SetVal(rhs.fields, lhs[1], lhs[2], rhs.val))
  /\ mem' = Written(mem, lhs[1], lhs[2], SourceContent(mem, src))

\* overlappings: offsets closer to the next than the access is long, and others.
\* The last of several close ones is both if there are more behind it.
Overlappings(offsets, size) ==
  LET Next1(o) == Min({o2 \in offsets : o2 > o})
      close == {o \in offsets \ {Max(offsets)} : Next1(o) < o + size}
      overlapping == close \cup {Next1(o) : o \in close}
  IN  [overlapping |-> overlapping,
       other |-> (offsets \ (close \cup {Max(offsets)})) \cup ({Max(offsets)} \ overlapping)]

\* One offset after the other, the lowest first.
Ascending(step(_, _), acc, offsets) ==
  MapThenFoldSet(LAMBDA o, a : step(a, o), acc, LAMBDA o : o, Max, offsets)

\* What updating a region has done so far: its fields, and the cases met.
Located(acc, r, o, size) ==
  LET res == Retrieve(acc.fields, r, o, size, FALSE, TRUE)
  IN  [fields |-> res.fields, cases |-> acc.cases \cup {res.case}]

Topified(acc, r, o, size) ==
  LET res == Retrieve(acc.fields, r, o, size, FALSE, TRUE)
  IN  [fields |-> SetVal(res.fields, r, o, Top), cases |-> acc.cases \cup ({res.case} \ {"gap"})]

\* Each of these accesses writes what the source is by then, or perhaps.
Updated(acc, r, others, src, strong) ==
  LET locate(a, o) == Located(a, r, o, SizeOf(src))
      update(fields, o) ==
        LET val == ReadSource(fields, src).val
        IN  SetVal(fields, r, o, IF strong THEN val ELSE Either({val, ValueOf(fields, r, o)}))
      write(a) == [a EXCEPT !.fields = Ascending(update, @, others)]
  IN  write(Ascending(locate, acc, others))

\* update_multiple for one region: accesses that overlap each other leave fields
\* nothing is known of, the others are written, if there are several perhaps.
UpdateRegion(acc, r, offsets, src, strong) ==
  LET topify(a, o) == Topified(a, r, o, SizeOf(src))
      found == Overlappings(offsets, SizeOf(src))
  IN  Updated(Ascending(topify, acc, found.overlapping), r, found.other, src, strong)

IsStrong(target) == Cardinality(DOMAIN target) = 1 /\ \A r \in DOMAIN target : Cardinality(target[r]) = 1

\* Bad and null pointers are ignored, with a warning; a target has none.
Store(target, src) ==
  /\ Running
  /\ \E res \in {FoldSet(LAMBDA r, acc : UpdateRegion(acc, r, target[r], src, IsStrong(target)),
                     [fields |-> ReadSource(sms.fields, src).fields, cases |-> {}], DOMAIN target)} :
       /\ "suffix" \in res.cases => Allowed("suffix")
       /\ "gap" \in res.cases => Allowed("gap") \/ IsStrong(target)
       /\ sms' = State(res.fields)
  /\ \E r \in DOMAIN target : \E o \in target[r] : mem' = Written(mem, r, o, SourceContent(mem, src))

\* initialize_static: what is read for the first time is as in the binary.
ReadStatic(fields, r, off, size) ==
  LET initialized(res) ==
        IF res.changed THEN SetVal(res.fields, r, off, [i \in 1 .. size |-> Image]) ELSE fields
  IN  IF r \in Static THEN initialized(Retrieve(fields, r, off, size, FALSE, FALSE)) ELSE fields

\* Regions in which the accesses would overlap each other are skipped.
Skipped(target, size) == {r \in DOMAIN target : Overlappings(target[r], size).overlapping # {}}

ReadAll(fields, places, size) ==
  FoldSet(LAMBDA p, f : Read(ReadStatic(f, p[1], p[2], size), p[1], p[2], size).fields, fields, places)

Load(lhs, target) ==
  /\ Running
  /\ \E skipped \in {Skipped(target, lhs[3])} :
       \E places \in {UNION {{<<r, o>> : o \in target[r]} : r \in DOMAIN target \ skipped}} :
         /\ skipped # {} /\ places # {} => Allowed("skip")
         /\ \E res \in {Retrieve(ReadAll(sms.fields, places, lhs[3]), lhs[1], lhs[2], lhs[3], FALSE, TRUE)} :
              /\ res.case = "suffix" => Allowed("suffix")
              /\ \E vals \in {{Read(res.fields, p[1], p[2], lhs[3]).val : p \in places}} :
                   sms' = State(SetVal(res.fields, lhs[1], lhs[2],
                                       IF vals = {} THEN Top ELSE Either(vals)))
  /\ \E r \in DOMAIN target : \E o \in target[r] :
       mem' = Written(mem, lhs[1], lhs[2], Content(mem, r, o, lhs[3]))

IsNumber(val) == val # Top /\ \A i \in DOMAIN val : val[i][1] = Numbers

\* The range is a field of its own.
IsField(fields, range) ==
  range[2] \in DOMAIN fields[range[1]].out /\ fields[range[1]].out[range[2]].size = range[3]

\* Faulty variant of AssumedOf: the disequality teaches the number, too.
AssumedEither(res, range, digits, positive) ==
  IF IsNumber(res.val) /\ (res.val = digits) # positive THEN Bottom
  ELSE IF ~IsNumber(res.val) /\ IsField(res.fields, range)
  THEN State(SetVal(res.fields, range[1], range[2], digits))
  ELSE State(res.fields)

\* assume and assume_not of an equation whose range has been read.  A field that
\* is no number yet becomes this one; a range of several fields, or one that
\* conflicts with them, stays.
AssumedOf(res, range, digits, positive) ==
  IF IsNumber(res.val) /\ (res.val = digits) # positive THEN Bottom
  ELSE IF positive /\ ~IsNumber(res.val) /\ IsField(res.fields, range)
  THEN State(SetVal(res.fields, range[1], range[2], digits))
  ELSE State(res.fields)

\* The run goes on if the content decides the condition so.
Assume(cond, positive) ==
  /\ Running
  /\ sms' = AssumedOf(Read(sms.fields, cond.range[1], cond.range[2], cond.range[3]),
                      cond.range, cond.digits, positive)
  /\ LET content == Content(mem, cond.range[1], cond.range[2], cond.range[3])
     IN  mem' = IF (content = cond.digits) = positive THEN mem ELSE Dead

\* The model's regions end somewhere.
Fits(target, size) == \A r \in DOMAIN target : \A o \in target[r] : o + size <= Cells[r]

Instruction ==
  \/ \E lhs \in Ranges, src \in Sources : SizeOf(src) = lhs[3] /\ Assign(lhs, src)
  \/ \E target \in Targets, src \in Sources : Fits(target, SizeOf(src)) /\ Store(target, src)
  \/ \E lhs \in Ranges, target \in Targets : Fits(target, lhs[3]) /\ Load(lhs, target)
  \/ \E cond \in Conditions, positive \in BOOLEAN : Assume(cond, positive)

Next == done < Length /\ done' = done + 1 /\ Instruction

Spec == Init /\ [][Next]_vars

-----------------------------------------------------------------------------
(* Properties *)

\* check_consistency of summary_memory_state, with the values: every region has
\* the same fields before and after, they do not overlap, and what is known of a
\* field is known of each of its cells.
TypeOK ==
  /\ sms.bottom \in BOOLEAN
  /\ \A r \in Region :
       LET io == sms.fields[r]
       IN  /\ DOMAIN io.in = DOMAIN io.out
           /\ \A o \in DOMAIN io.out :
                /\ io.in[o] = io.out[o].size /\ io.out[o].size > 0
                /\ Len(io.out[o].val) \in {0, io.out[o].size}
                /\ \A o2 \in DOMAIN io.out : o2 > o => o2 >= Ends(io.out, o)
  /\ sms.bottom => sms = Bottom

\* What the state says of the fields holds of the memory: after any sequence of
\* assignments, loads, stores and tests of any overlapping ranges, whatever fields
\* retrieve_field has split, merged and replaced on the way.
Sound ==
  mem # Dead =>
    /\ ~sms.bottom
    /\ \A r \in Region : \A o \in DOMAIN sms.fields[r].out :
         LET val == sms.fields[r].out[o].val
         IN  \A i \in DOMAIN val : mem[<<r, o + i - 1>>] = Meaning(val[i])

Covered(fields) ==
  {cell \in UNION {CellsOf(r, 0, Cells[r]) : r \in Region} :
     \E o \in DOMAIN fields[cell[1]].out :
       cell \in CellsOf(cell[1], o, fields[cell[1]].out[o].size)}

\* A summary speaks of the cells that have a field only, so a caller takes over
\* the others as they were: what the function has changed has a field.
Framed ==
  mem # Dead => \A cell \in DOMAIN mem \ Covered(sms.fields) : mem[cell] = Meaning(cell)

\* The state covers the memory, and what is not said to have changed is as it was at
\* the entry.
MemorySound == TypeOK /\ Sound /\ Framed
=============================================================================
