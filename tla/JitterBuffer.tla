---------------------------- MODULE JitterBuffer ----------------------------
(***************************************************************************)
(* The receiver's jitter buffer, JitterBuffer of                           *)
(* crates/wzp-proto/src/jitter.rs, under the decode loops that drive it.   *)
(* Every loop is the same (cli.rs:601-604, 733-740, wzp-web main.rs:397,   *)
(* echo_test.rs:166-176): a source packet arrives, CallDecoder::ingest     *)
(* pushes it, whatever push makes of it, and one decode_next pops.         *)
(* Nothing else pops: the clock of playout is the arrival of packets.      *)
(*                                                                         *)
(* A packet is [src, n]: the n-th packet of its sender.  Every sender      *)
(* numbers from 0 (CallEncoder::new), so a sender that joins again, or     *)
(* another one that takes its place in a federated room, jumps backward;   *)
(* the buffer takes a jump of more than ResetDistance for that and starts  *)
(* over.  The network loses and reorders.  It does not repeat: QUIC takes  *)
(* no packet twice, and the anti-replay window (CryptoSession) refuses a   *)
(* copy that another hop made.                                             *)
(*                                                                         *)
(* The names differ from those of CryptoSession, so that one module can    *)
(* extend both (MediaPathProofs).                                          *)
(***************************************************************************)
EXTENDS Integers, FiniteSets, FiniteSetsExt

CONSTANTS
  SeqMod,         \* sequence numbers are u32: 2^32 of them
  HalfWindow,     \* seq_before looks back this far: 0x8000
  ResetDistance,  \* a longer jump back is a new sender: 100
  MaxDepth,       \* max_depth, 250
  MinDepth,       \* min_depth, 3 to 25: playout starts with this many
  First,          \* what the first sender has sent when the receiver comes
  MaxSenders,     \* bound: senders one after the other
  MaxEmitted,     \* bound: packets a sender sends from then on
  Reach           \* bound: a packet is overtaken by fewer than this many

ASSUME BoundsAssumption ==
  /\ {SeqMod, HalfWindow, MaxDepth, MinDepth, MaxSenders, MaxEmitted}
       \subseteq Nat \ {0}
  /\ {ResetDistance, First, Reach} \subseteq Nat
  /\ 2 * HalfWindow <= SeqMod /\ ResetDistance < HalfWindow
  /\ MinDepth <= MaxDepth

VARIABLES
  sender,    \* who sends now
  emitted,   \* how many packets it has sent
  arriving,  \* its packets on the way
  buffer,    \* buffer: packets waiting, at most one for a number
  next,      \* next_playout_seq, counted on when the numbers wrap
  begun,     \* initialized: some packet has come
  played,    \* stats.packets_played > 0
  heard      \* the last packet played of the present sender, -1 at first

jitterVars ==
  <<sender, emitted, arriving, buffer, next, begun, played, heard>>

Packet == [src : 1..MaxSenders, n : 0..First + MaxEmitted - 1]

\* The sequence number in a packet's header.
Seq(p) == p.n % SeqMod

\* wrapping_sub.
Minus(a, b) == (a - b) % SeqMod

\* seq_before: a comes before b, by less than HalfWindow.
SeqBefore(a, b) == Minus(b, a) \in 1..HalfWindow - 1

JitterInit ==
  /\ sender = 1 /\ emitted = First /\ arriving = {}
  /\ buffer = {} /\ next = 0 /\ begun = FALSE /\ played = FALSE
  /\ heard = -1

-----------------------------------------------------------------------------
(* The sender and the network                                              *)

\* The sender's next packet; what it overtakes by Reach is lost.
SendNext ==
  /\ emitted < MaxEmitted + (IF sender = 1 THEN First ELSE 0)
  /\ emitted' = emitted + 1
  /\ arriving' = {p \in arriving : emitted - p.n < Reach}
                   \union {[src |-> sender, n |-> emitted]}
  /\ UNCHANGED <<sender, buffer, next, begun, played, heard>>

Lose ==
  /\ \E p \in arriving : arriving' = arriving \ {p}
  /\ UNCHANGED <<sender, emitted, buffer, next, begun, played, heard>>

\* The sender joins again, or another takes its place: it numbers from 0.  A
\* join takes several round trips, so no old packet is on the way by then.
NewSender ==
  /\ sender < MaxSenders
  /\ sender' = sender + 1 /\ emitted' = 0 /\ arriving' = {} /\ heard' = -1
  /\ UNCHANGED <<buffer, next, begun, played>>

-----------------------------------------------------------------------------
(* push                                                                    *)

\* next_playout_seq as the checks of push see it: the first packet sets it.
Expected(p) == IF begun THEN next ELSE p.n

Duplicate(p) == \E q \in buffer : Seq(q) = Seq(p)

\* Already played out, or skipped.
Late(p) == played /\ SeqBefore(p.n, Expected(p))

\* Mutant: every late packet starts the buffer over.
FromNewSenderIfLate(p) == Late(p)

\* Late by so much that it must be a new sender's.
FromNewSender(p) == Late(p) /\ Minus(Expected(p), p.n) > ResetDistance

\* push drops the packet.
Refused(p) == Duplicate(p) \/ (Late(p) /\ ~FromNewSender(p))

\* The buffer with the packet in it: alone, when it starts the buffer over.
Filled(p) == (IF FromNewSender(p) THEN {} ELSE buffer) \union {p}

\* Where playout goes on: at the packet when it starts the buffer over or is
\* the earliest before playout has begun.
From(p) ==
  IF FromNewSender(p) \/ (~played /\ SeqBefore(p.n, Expected(p)))
  THEN p.n ELSE Expected(p)

\* The packets that go when the buffer overflows: the one with the smallest
\* number, which after the numbers wrap is not the one that waits longest.
Overflow(buf) ==
  IF Cardinality(buf) <= MaxDepth THEN {}
  ELSE {q \in buf : \A r \in buf : Seq(q) <= Seq(r)}

\* Playout moves past an evicted packet that was still to come.
Past(out, from) ==
  LET to == {q \in out : SeqBefore(from, q.n + 1)}
  IN  IF to = {} THEN from
      ELSE from + Minus((CHOOSE q \in to : TRUE).n + 1, from)

\* push: what waits, and where playout is, after the packet.
Pushed(p) ==
  IF Refused(p) THEN [buffer |-> buffer, next |-> Expected(p)]
  ELSE LET out == Overflow(Filled(p))
       IN  [buffer |-> Filled(p) \ out, next |-> Past(out, From(p))]

-----------------------------------------------------------------------------
(* pop                                                                     *)

\* Not NotReady: playout, once begun, never waits for the buffer again.
Ready(buf) == Cardinality(buf) >= MinDepth \/ played

\* Playout moves on by one, whether the packet is there or missing.
Pop(buf, from) ==
  LET due == {q \in buf : Seq(q) = from % SeqMod}
  IN  /\ buffer' = buf \ due
      /\ played' = (played \/ due # {})
      /\ \/ due = {} /\ next' = from + 1 /\ heard' = heard
         \/ \E q \in due : /\ next' = (IF q.src = sender THEN q.n ELSE from) + 1
                          /\ heard' = IF q.src = sender THEN q.n ELSE heard

\* pop before playout has begun: NotReady.
Wait(buf, from) ==
  buffer' = buf /\ next' = from /\ UNCHANGED <<played, heard>>

\* decode_next: one pop.
DecodeNext(s) ==
  \/ ~Ready(s.buffer) /\ Wait(s.buffer, s.next)
  \/ Ready(s.buffer) /\ Pop(s.buffer, s.next)

\* Mutant: the loop pops for repair packets too.
ArriveOrRepair ==
  /\ \/ \E p \in arriving :
          arriving' = arriving \ {p} /\ DecodeNext(Pushed(p))
     \/ /\ begun /\ UNCHANGED arriving
        /\ DecodeNext([buffer |-> buffer, next |-> next])
  /\ begun' = TRUE /\ UNCHANGED <<sender, emitted>>

\* A source packet arrives: ingest pushes it and decode_next pops.
Arrive ==
  /\ \E p \in arriving :
       arriving' = arriving \ {p} /\ DecodeNext(Pushed(p))
  /\ begun' = TRUE /\ UNCHANGED <<sender, emitted>>

JitterNext == SendNext \/ Lose \/ NewSender \/ Arrive

JitterSpec == JitterInit /\ [][JitterNext]_jitterVars

-----------------------------------------------------------------------------
(* Properties                                                              *)

\* The types, and the depth that push promises never to exceed.
JitterTypeOK ==
  /\ sender \in 1..MaxSenders /\ emitted \in 0..First + MaxEmitted
  /\ arriving \subseteq Packet /\ buffer \subseteq Packet
  /\ Cardinality(buffer) <= MaxDepth
  /\ \A p, q \in buffer : Seq(p) = Seq(q) => p = q
  /\ next \in Nat
  /\ begun \in BOOLEAN /\ played \in BOOLEAN
  /\ heard \in -1..First + MaxEmitted - 1

\* What is heard of one sender is heard in order and once, whatever the
\* network reorders and whatever is reset or evicted in between, at the wrap
\* of the numbers too: no late packet is taken for a new sender and rewinds
\* playout.
PlayedInOrder ==
  [][sender' = sender => heard' = heard \/ heard' > heard]_jitterVars

\* Playout never runs further ahead of the sender it plays than the network
\* reorders, though it moves on at every packet, found or not, dropped or
\* not: a buffer that got ahead for good would drop every packet to come as
\* late (jitter.rs:366, cli.rs:735 - "1 source = 1 audio frame").
PlayoutNotAhead ==
  heard >= 0 => next <= emitted + Reach

\* A packet that waits is one that playout is still to come to (jitter.rs:272:
\* a jump back is a new sender's - "reset instead of dropping").  Not so when
\* the jump is too long for seq_before (JitterBuffer_long_call.cfg).
NothingStranded == \A p \in buffer : p.n >= next
=============================================================================
