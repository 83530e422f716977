------------------------------ MODULE Regions ------------------------------
(***************************************************************************)
(* The regions of the memory domain: io_region and its retrieve_field.  A  *)
(* region is [in, out]: in maps the offset of a field to its size, out to  *)
(* its size and what the child domain knows of its value, the sequence of  *)
(* its cells or nothing.  A cell holds a digit or what cell c of region r  *)
(* held at the entry, <<r, c>>.  No field is longer than a word.           *)
(***************************************************************************)
EXTENDS Integers, Sequences, FiniteSetsExt

CONSTANT Numbers  \* no region has this id: <<Numbers, n>> is the digit n

Top == <<>>     \* nothing is known of a field
Digit(n) == <<Numbers, n>>
CellsOf(r, off, size) == {<<r, c>> : c \in off .. off + size - 1}
AtEntry(r, off, size) == [i \in 1 .. size |-> <<r, off + i - 1>>]

NoFields == [in |-> <<>>, out |-> <<>>]
ValueOf(fields, r, off) == fields[r].out[off].val
SetVal(fields, r, off, val) == [fields EXCEPT ![r].out[off].val = val]

Ends(out, o) == o + out[o].size
Overlapped(out, off, size) == {o \in DOMAIN out : o < off + size /\ Ends(out, o) > off}

\* The overlapped fields that follow each other without a gap, from off on.
Contiguous(out, off, over) ==
  {o \in over : off \in over /\ \A o2 \in over : o2 < o => Ends(out, o2) \in over}

\* These fields make up the range.
Exact(out, off, size, over) ==
  Contiguous(out, off, over) = over /\ \E o \in over : Ends(out, o) = off + size

\* Where the new field and those it overlaps begin and end; the sizes of the old
\* ones, which are apart, are summed up.
Extent(out, off, size, over) ==
  LET total == Cardinality(UNION {o .. Ends(out, o) - 1 : o \in over})
  IN  IF over = {} THEN [first |-> off, end |-> off + size]
      ELSE [first |-> Min(over \cup {off}), end |-> Max({Min(over) + total, off + size})]

\* The pieces shifted and added up; the child can shift only zero.
Combined(out, off, size, over) ==
  IF \A o \in over : /\ out[o].val # Top
                     /\ o # off => \A i \in DOMAIN out[o].val : out[o].val[i] = Digit(0)
  THEN [i \in 1 .. size |-> IF i <= out[off].size THEN out[off].val[i] ELSE Digit(0)]
  ELSE Top

\* What was known by the entry of a field that is gone is known no more.
Forgotten(val, gone) == IF {val[i] : i \in DOMAIN val} \cap gone # {} THEN Top ELSE val

ForgetEntry(fields, gone) ==
  [r \in DOMAIN fields |->
     [in |-> fields[r].in,
      out |-> [o \in DOMAIN fields[r].out |->
                 [size |-> fields[r].out[o].size, val |-> Forgotten(fields[r].out[o].val, gone)]]]]

\* The new field and what is left of overlapped ones before and after it.
Pieces(off, size, ext) ==
  LET before == {o \in {ext.first} : o < off}
      after == {o \in {off + size} : o < ext.end}
  IN  [o \in {off} \cup before \cup after |->
         IF o = off THEN size ELSE IF o < off THEN off - ext.first ELSE ext.end - o]

Placed(io, off, val, pieces, removed) ==
  [in |-> [o \in DOMAIN pieces \cup (DOMAIN io.in \ removed) |->
             IF o \in DOMAIN pieces THEN pieces[o] ELSE io.in[o]],
   out |-> [o \in DOMAIN pieces \cup (DOMAIN io.out \ removed) |->
              IF o \in DOMAIN pieces THEN [size |-> pieces[o], val |-> IF o = off THEN val ELSE Top]
              ELSE io.out[o]]]

\* The field of a region at off of this size: there is one, or there is room for
\* one, or it takes the place of others.
Retrieve(fields, r, off, size, replacement, handleConflicts) ==
  LET out == fields[r].out
      over == Overlapped(out, off, size)
      ext == Extent(out, off, size, over)
      pieces == Pieces(off, size, ext)
      contiguous == over = {} \/ Exact(out, off, size, over)
      gone == UNION {CellsOf(r, o, out[o].size) : o \in over}
      val == IF contiguous /\ over # {} /\ ~replacement THEN Forgotten(Combined(out, off, size, over), gone)
             ELSE IF replacement \/ DOMAIN pieces # {off} THEN Top
             ELSE AtEntry(r, off, size)
      case == IF \E o \in over : Ends(out, o) > ext.end THEN "suffix"
              ELSE IF ~contiguous /\ DOMAIN pieces = {off} THEN "gap"
              ELSE "plain"
      forgot == ForgetEntry(fields, gone)
  IN  IF Contiguous(out, off, over) = {off} /\ out[off].size = size
      THEN [ok |-> TRUE, fields |-> fields, changed |-> FALSE, case |-> "plain"]
      ELSE IF ~handleConflicts /\ (Contiguous(out, off, over) # {} \/ ~contiguous)
      THEN [ok |-> FALSE, fields |-> fields, changed |-> FALSE, case |-> "plain"]
      ELSE [ok |-> TRUE, changed |-> TRUE, case |-> case,
            fields |-> [forgot EXCEPT ![r] = Placed(forgot[r], off, val, pieces, over)]]
=============================================================================
