------------------------------- MODULE FecPath -------------------------------
(***************************************************************************)
(* Forward error correction on a media path: CallEncoder groups the frames *)
(* of a Codec2 tier into blocks and adds RaptorQ repair symbols            *)
(* (wzp-client/src/call.rs, wzp-fec/src/encoder.rs); datagrams are lost,   *)
(* repeated and reordered; a relay in forward mode feeds them to its       *)
(* decoder and passes on what comes out (wzp-relay/src/pipeline.rs,        *)
(* wzp-fec/src/decoder.rs).  The Android engine makes the same two calls   *)
(* to the decoder.                                                         *)
(*                                                                         *)
(* Blocks are numbered without wrapping; only BlockIds of their numbers    *)
(* fit the header.  A symbol is known by the block it was computed from    *)
(* and its index there.  RaptorQ is external: K different symbols computed *)
(* from one block give its frames, fewer give nothing.                     *)
(***************************************************************************)
EXTENDS Integers, FiniteSets

CONSTANTS
  K,           \* frames_per_block: 5 to 10
  R,           \* repair symbols of a block: fec_ratio times K, rounded up
  BlockIds,    \* block ids are one byte of the header: 256
  MaxBlocks,   \* bound: blocks begun
  MaxSwitches  \* bound: profile changes

VARIABLES
  opus,       \* the profile's codec is Opus
  number,     \* the block under construction, counted without wrapping
  block_id,   \* block_id
  symbols,    \* frame_in_block = source_symbols.len()
  switches,   \* profile changes so far
  net,        \* packets on the way
  blocks,     \* the decoder's blocks: header field -> symbols added
  recovered,  \* blocks whose frames try_decode returned
  handed      \* history: packets handed to ingest

vars == <<opus, number, block_id, symbols, switches, net, blocks, recovered, handed>>


(* A packet is [field, of, index, bare]: the fec_block field, with the block
   id in its low byte and the symbol's index in the high one; the block and
   index its payload was computed from; and whether it is the bare frame that
   source packets carry, without the length prefix that build_block_data puts
   before the frames it computes repair symbols from. *)

\* The field of a packet outside every block.
NoFec == [sym |-> 0, blk |-> 0]

Init ==
  /\ opus \in BOOLEAN
  /\ number = 0 /\ block_id = 0 /\ symbols = 0 /\ switches = 0
  /\ net = {} /\ blocks = [f \in {} |-> {}] /\ recovered = {} /\ handed = {}

-----------------------------------------------------------------------------
(* The sender                                                              *)

Source == [field |-> [sym |-> symbols, blk |-> block_id],
           of |-> number, index |-> symbols, bare |-> TRUE]

\* generate_repair.
Repairs == {[field |-> [sym |-> i, blk |-> block_id],
             of |-> number, index |-> i, bare |-> FALSE] : i \in K..K + R - 1}

\* encode_frame in a Codec2 tier: the frame, and with a block's last one the
\* repair symbols and finalize_block.
EncodeCodec2 ==
  /\ ~opus /\ number < MaxBlocks
  /\ IF symbols + 1 < K
       THEN /\ net' = net \union {Source}
            /\ symbols' = symbols + 1
            /\ UNCHANGED <<number, block_id>>
       ELSE /\ net' = net \union {Source} \union Repairs
            /\ symbols' = 0
            /\ number' = number + 1
            /\ block_id' = (block_id + 1) % BlockIds
  /\ UNCHANGED <<opus, switches, blocks, recovered, handed>>

\* encode_frame in an Opus tier: no block, the field is zero.
EncodeOpus ==
  /\ opus /\ number < MaxBlocks
  /\ net' = net \union {[field |-> NoFec, of |-> number, index |-> 0, bare |-> TRUE]}
  /\ number' = number + 1
  /\ UNCHANGED <<opus, block_id, symbols, switches, blocks, recovered, handed>>

\* set_profile: a new encoder; the block under construction is given up, its
\* id goes to the next one.
SetProfile ==
  /\ switches < MaxSwitches
  /\ switches' = switches + 1
  /\ opus' \in BOOLEAN
  /\ symbols' = 0
  /\ number' = IF symbols = 0 THEN number ELSE number + 1
  /\ UNCHANGED <<block_id, net, blocks, recovered, handed>>

-----------------------------------------------------------------------------
(* The network and the relay                                               *)

Lose ==
  /\ \E p \in net : net' = net \ {p}
  /\ UNCHANGED <<opus, number, block_id, symbols, switches, blocks, recovered, handed>>

\* try_decode: the symbols of one entry give the frames of block b.  A bare
\* frame is a symbol of no block: its first bytes are not a length.
Decodes(entry, b) == Cardinality({s \in entry : s.of = b /\ ~s.bare}) >= K

\* add_symbol: what an entry holds afterwards.  One that is decoded is left
\* alone, or starts over when it was decoded two seconds ago.
Added(entry, s) ==
  IF \E b \in 0..MaxBlocks : Decodes(entry, b)
    THEN {entry, {s}}
    ELSE {entry \union {s}}

Entry(f) == IF f \in DOMAIN blocks THEN blocks[f] ELSE {}

\* RelayPipeline::ingest, up to the frames it hands to its jitter buffer: the
\* decoder's block is the whole field, the symbol's index its high byte.  A
\* datagram that stays on the way may be handed in again.  The pipeline's own
\* profile changes, which replace its decoder, are left out.
Ingest ==
  \E p \in net :
    LET symbol == [of |-> p.of, index |-> p.field.sym, bare |-> p.bare]
    IN  /\ net' \in {net, net \ {p}}
        /\ handed' = handed \union {p}
        /\ \E entry \in Added(Entry(p.field), symbol) :
             /\ blocks' = [f \in DOMAIN blocks \union {p.field} |->
                             IF f = p.field THEN entry ELSE blocks[f]]
             /\ recovered' = recovered \union
                  {b \in 0..MaxBlocks : Decodes(entry, b)}
        /\ UNCHANGED <<opus, number, block_id, symbols, switches>>

Next == EncodeCodec2 \/ EncodeOpus \/ SetProfile \/ Lose \/ Ingest

Spec == Init /\ [][Next]_vars

-----------------------------------------------------------------------------

\* A receiver that lost a frame of a block and got K of its K + R symbols,
\* whichever they are, has the block's frames: "FEC decoder needs any K of K+R
\* symbols to reconstruct a block" (docs/ARCHITECTURE.md).  Here it is about
\* what CallEncoder makes of a block and the relay's pipeline, like the Android
\* engine, of what arrives.
AnyKSuffice ==
  \A b \in 0..MaxBlocks :
    LET got == {p.index : p \in {q \in handed : q.of = b}}
    IN  Cardinality(got) >= K /\ ~(0..K - 1 \subseteq got) => b \in recovered
=============================================================================
