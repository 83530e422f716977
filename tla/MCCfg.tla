------------------------------- MODULE MCCfg -------------------------------
(***************************************************************************)
(* The graph and its observers, and the decoder that fills it and lets     *)
(* itself be notified of its own changes, each alone: part names the one   *)
(* that runs.                                                              *)
(***************************************************************************)
EXTENDS Cfg

CONSTANT Parts

VARIABLES part,
          code, blockwise, g, address_node_map, unresolved, f_heads, intervals, todo,
          thrown, fresh, list, resolved, pc

-----------------------------------------------------------------------------
(* Cfg: a block of two nodes and one that ends in a loop. *)

MCGraphs == {[size |-> 2, edges |-> {<<0, 1>>}],
             [size |-> 2, edges |-> {<<0, 1>>, <<1, 0>>}]}

-----------------------------------------------------------------------------
(* Decoder: programs of two and three instructions. *)

Code == INSTANCE Decoder
          WITH Codes <- {}, SymbolSets <- {}, Blockwise <- {}, MaxResolved <- 0, MaxNodes <- 0,
               updates <- list

Jump(t) == <<Code!NextIp, Code!Branch("JUMP", <<"addr", t>>)>>
IfJump(t) == <<Code!NextIp, Code!CBranch("c", <<"addr", t>>, <<"ip", 0>>)>>
Call(t) == <<Code!NextIp, Code!Branch("CALL", <<"addr", t>>)>>
Indirect == <<Code!NextIp, Code!Branch("JUMP", <<"any", 0>>)>>
Ret == <<Code!NextIp, Code!Branch("RET", <<"any", 0>>)>>
Straight == <<Code!NextIp, Code!Op("x")>>
Move == <<Code!NextIp, Code!Ite("c", <<Code!Op("y")>>, <<>>), Code!Op("z")>>
Repeat == <<Code!NextIp, Code!While("c", <<Code!Op("y")>>)>>
Invalid == <<>>

Instructions(targets) ==
  {Indirect, Ret, Straight, Move, Repeat, Invalid}
    \cup {Jump(t) : t \in targets} \cup {IfJump(t) : t \in targets} \cup {Call(t) : t \in targets}

\* The shorter ones may run into the end of the text section.
DecoderCodes ==
  {c \in [0 .. 2 -> Instructions({0, 1, 2})] : c[2] \in {Ret, Jump(0)}}
    \cup [0 .. 1 -> Instructions({0, 2})]

Dec == INSTANCE Decoder
         WITH Codes <- DecoderCodes, SymbolSets <- {{0}, {0, 1}}, Blockwise <- BOOLEAN,
              MaxResolved <- 1, MaxNodes <- 60, updates <- list

ASSUME DecoderAssumption == Dec!DecoderAssumption

-----------------------------------------------------------------------------

dec_vars == <<code, blockwise, g, address_node_map, unresolved, f_heads, intervals, todo,
              thrown, fresh, list, resolved, pc>>
part_vars == <<part, vars, dec_vars>>

NoDecoder ==
  /\ code = 0 /\ blockwise = 0 /\ g = 0 /\ address_node_map = 0 /\ unresolved = 0 /\ f_heads = 0
  /\ intervals = 0 /\ todo = 0 /\ thrown = 0 /\ fresh = 0 /\ list = 0 /\ resolved = 0 /\ pc = "none"

PartInit == /\ part \in Parts
            /\ Init
            /\ IF part = "decoder" THEN Dec!Init ELSE NoDecoder

PartNext ==
  /\ part' = part
  /\ \/ part = "cfg" /\ Next /\ UNCHANGED dec_vars
     \/ part = "decoder" /\ Dec!Next /\ UNCHANGED vars

PartSpec == PartInit /\ [][PartNext]_part_vars

\* The driver and commit_updates go on by themselves, up to the bound of the model.
Resting == part = "cfg" \/ ~Dec!Running
PartFairSpec == PartSpec /\ ([]<>Resting \/ []<><<PartNext>>_part_vars)

-----------------------------------------------------------------------------

\* Decoder: the graph runs as the code does, whatever was decoded before; every
\* function that is called has been added, and the bytes counted are those of the
\* blocks, however they overlap.  The graph is well formed, and every jump has been
\* followed when the decoder is at rest.
Faithful ==
  part = "decoder" =>
    Dec!TypeOK /\ Dec!Faithful /\ Dec!Complete /\ Dec!CalledIsAdded /\ Dec!BytesCounted

\* Decoder: the decoder and those who notify it come to an end.
Settles == part = "decoder" => Dec!Settles

\* Decoder: a jump that could not be followed is among get_unresolved().
UnresolvedKnown == part = "decoder" => Dec!UnresolvedKnown
=============================================================================
