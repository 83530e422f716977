---------------------------- MODULE MCSummaries ----------------------------
(***************************************************************************)
(* What is done to the summary of a function, each alone: its variables    *)
(* are renamed, its regions are read and written, and the regions of two   *)
(* states are matched where two ways meet.  part names the one that runs.  *)
(***************************************************************************)
EXTENDS Rename, SummaryMemory, TLC

CONSTANT Parts

VARIABLES part,
          a, b, acts, meetings

-----------------------------------------------------------------------------
(* SummaryMemory: two registers, what one of them points to, and a word of   *)
(* the binary.                                                               *)

MCRegisters == {"A", "B"}
MCDerefs == {"*p", "text"}
MCStatic == {"text"}
MCCells == "A" :> 4 @@ "B" :> 1 @@ "*p" :> 3 @@ "text" :> 2
MCRanges == {<<"A", 0, 1>>, <<"A", 0, 2>>, <<"A", 1, 1>>, <<"A", 1, 2>>, <<"A", 2, 2>>, <<"A", 0, 3>>,
             <<"B", 0, 1>>}

MCDigit(n) == <<"digit", n>>
MCSources == {[kind |-> "digits", digits |-> <<MCDigit(0)>>],
              [kind |-> "digits", digits |-> <<MCDigit(0), MCDigit(1)>>]}
             \cup {[kind |-> "range", range |-> range] : range \in {<<"A", 0, 1>>, <<"A", 0, 2>>, <<"B", 0, 1>>}}

\* One place, two places, places that overlap, two regions, the binary.
MCTargets == {"*p" :> {0}, "*p" :> {0, 2}, "*p" :> {0, 1}, "text" :> {0},
              "*p" :> {1} @@ "text" :> {1}}

MCConditions == {[range |-> <<"B", 0, 1>>, digits |-> <<MCDigit(0)>>],
                 [range |-> <<"A", 0, 2>>, digits |-> <<MCDigit(0), MCDigit(1)>>]}

-----------------------------------------------------------------------------
(* SmsCompat: one register, and what its parts point to: accesses that       *)
(* overlap, or pointers that are followed further and ways that meet twice.  *)

NoRegion == <<<<"digit">>, 0>>
MCRegister == <<<<"A">>, 0>>
Overlapping == {<<0, 1>>, <<1, 1>>, <<0, 2>>, <<1, 2>>}

Meet == INSTANCE SmsCompat
          WITH Numbers <- NoRegion, Registers <- {MCRegister}, Ranges <- Overlapping,
               Depth <- 1, Length <- 2, Rounds <- 1, Widenings <- BOOLEAN
Again == INSTANCE SmsCompat
           WITH Numbers <- NoRegion, Registers <- {MCRegister}, Ranges <- {<<0, 1>>},
                Depth <- 2, Length <- 3, Rounds <- 2, Widenings <- {FALSE}

ASSUME CompatAssumption == Meet!SmsCompatAssumption /\ Again!SmsCompatAssumption

-----------------------------------------------------------------------------

compat_vars == <<a, b, acts, meetings>>
part_vars == <<part, rename_vars, vars, compat_vars>>

NoCompat == a = 0 /\ b = 0 /\ acts = 0 /\ meetings = 0

PartInit ==
  /\ part \in Parts
  /\ RenameInit
  /\ Init
  /\ CASE part = "meet" -> Meet!Init
       [] part = "again" -> Again!Init
       [] OTHER -> NoCompat

Compat ==
  \/ part = "meet" /\ Meet!Next
  \/ part = "again" /\ Again!Next

PartNext ==
  /\ part' = part
  /\ \/ part = "rename" /\ RenameStep /\ UNCHANGED <<vars, compat_vars>>
     \/ part = "memory" /\ Next /\ UNCHANGED <<rename_vars, compat_vars>>
     \/ Compat /\ UNCHANGED <<rename_vars, vars>>

PartSpec == PartInit /\ [][PartNext]_part_vars

-----------------------------------------------------------------------------

\* SmsCompat: whatever fields the two ways have created, split and replaced, the match
\* gives each region a partner with the same fields, as join_region_map asserts; and a
\* state that is dropped because operator>= says so is covered.
Aligned ==
  /\ part = "meet" => Meet!TypeOK /\ Meet!Aligned /\ Meet!OrderSound
  /\ part = "again" => Again!TypeOK /\ Again!Aligned

\* SmsCompat: the state of a node covers those of the two ways that lead there, no
\* matter which fields were inserted, merged with others or renamed.
JoinCovers ==
  [][/\ part = "meet" /\ meetings' = <<FALSE>> => Meet!Covers(a', a) /\ Meet!Covers(a', b)
     /\ part = "again" /\ meetings' # meetings => Again!Covers(a', a) /\ Again!Covers(a', b)]_part_vars

\* SmsCompat: meeting the same ways again brings nothing new, and a widening adds no
\* region behind a pointer: a loop that follows pointers comes to an end.
Stable ==
  [][part = "meet" /\ meetings' # meetings =>
       /\ \A s \in {a, b} : Meet!GreaterEq(a', Meet!Joined(meetings'[1], <<-3, -4>>, a', s))
       /\ meetings'[1] => {k \in DOMAIN a'.fields : Meet!IsPtr(k)} \subseteq DOMAIN a.fields]_part_vars
=============================================================================
