---------------------------- MODULE CryptoSession ----------------------------
(***************************************************************************)
(* One direction of an encrypted media stream: EncryptingTransport and     *)
(* ChaChaSession at both ends, the receiver's AntiReplayWindow, and a      *)
(* datagram path between them that loses, duplicates and reorders.         *)
(*                                                                         *)
(* Packets are numbered 0, 1, 2, ... for the specification; the wire       *)
(* carries the number modulo SeqSpace (2^32 in the code), and the window   *)
(* is a vector of words of WordBits bits (64 in the code), bit b of word w *)
(* standing for the packet w*WordBits+b behind the highest. A packet opens *)
(* only under the key that sealed it; a key is identified by how many      *)
(* rekeys led to it.                                                       *)
(***************************************************************************)
EXTENDS Integers, FiniteSets

CONSTANTS
  SeqSpace,   \* size of the wire sequence space
  WordBits,   \* bits in a word of the bitmap
  Window,     \* window_size
  MaxSent,    \* bound: packets sent
  MaxRekeys   \* bound: rekeys

ASSUME SessionAssumption ==
  /\ SeqSpace \in Nat /\ WordBits \in Nat \ {0} /\ Window \in Nat \ {0}
  /\ MaxSent \in Nat /\ MaxRekeys \in Nat
  /\ SeqSpace % 2 = 0
  /\ Window < SeqSpace \div 2

VARIABLES
  sent,         \* packets sealed so far: 0 .. sent-1
  rekeyedAt,    \* rekeyedAt[k]: the first packet sealed under key k
  sendKey,      \* the sender's key
  recvKey,      \* the receiver's key
  pending,      \* ends with a pending_rekey_secret
  initialized,  \* AntiReplayWindow.initialized
  highest,      \* AntiReplayWindow.highest
  bitmap,       \* AntiReplayWindow.bitmap
  verdict,      \* result of the last decrypt that authenticated
  last,         \* history: the packet it was about
  newest,       \* history: the packet that highest stands for
  delivered,    \* history: packets handed to the application, as far back
                \* as one can still arrive
  twice         \* history: some packet was handed over twice

window == <<initialized, highest, bitmap>>
keys == <<sendKey, recvKey, pending, rekeyedAt>>
vars == <<sent, keys, window, verdict, last, newest, delivered, twice>>

Half == SeqSpace \div 2
Words == (Window + WordBits - 1) \div WordBits
Ends == {"send", "recv"}
Wire(n) == n % SeqSpace
KeyOf(n) == CHOOSE k \in 0..sendKey :
              /\ rekeyedAt[k] <= n
              /\ k < sendKey => n < rekeyedAt[k + 1]

Init ==
  /\ sent = 0
  /\ rekeyedAt = [k \in 0..MaxRekeys |-> 0]
  /\ sendKey = 0
  /\ recvKey = 0
  /\ pending = {}
  /\ initialized = FALSE
  /\ highest = 0
  /\ bitmap = [w \in 0..(Words - 1) |-> {}]
  /\ verdict = "none"
  /\ last = -1
  /\ newest = -1
  /\ delivered = {}
  /\ twice = FALSE

-----------------------------------------------------------------------------
(* AntiReplayWindow *)

GetBit(bm, offset) ==
  /\ offset \div WordBits < Words
  /\ offset % WordBits \in bm[offset \div WordBits]

SetBit(bm, offset) ==
  [w \in DOMAIN bm |->
     IF w = offset \div WordBits THEN bm[w] \cup {offset % WordBits}
                                 ELSE bm[w]]

AdvanceWithoutCarry(bm, shift) ==
  LET wordShift == shift \div WordBits
      bitShift == shift % WordBits
  IN  [w \in DOMAIN bm |->
         IF shift >= Window \/ w < wordShift THEN {}
         ELSE {b \in 0..(WordBits - 1) : b - bitShift \in bm[w - wordShift]}]

\* Shift every entry away by shift positions, one word at a time from the
\* top; what a word pushes out is carried into the word above it.
AdvanceWindow(bm, shift) ==
  LET wordShift == shift \div WordBits
      bitShift == shift % WordBits
      Low(w) == {b \in 0..(WordBits - 1) : b - bitShift \in bm[w - wordShift]}
      Carry(w) == IF bitShift > 0 /\ w > wordShift
                  THEN {b \in 0..(WordBits - 1) :
                          b + WordBits - bitShift \in bm[w - wordShift - 1]}
                  ELSE {}
  IN  [w \in DOMAIN bm |->
         IF shift >= Window \/ w < wordShift THEN {} ELSE Low(w) \cup Carry(w)]

WrappingSub(a, b) == (a - b) % SeqSpace

AheadByComparison(seq) == seq > highest

\* seq is ahead of highest in wrapping arithmetic.
Ahead(seq) == WrappingSub(seq, highest) \in 1..(Half - 1)

\* seq is behind highest, still in the window, and its bit is clear.
Unseen(seq) ==
  LET behind == WrappingSub(highest, seq)
  IN  /\ WrappingSub(seq, highest) >= Half
      /\ behind < Window
      /\ ~GetBit(bitmap, behind)

\* check_and_update(seq)
CheckAndUpdate(seq) ==
  \/ /\ ~initialized
     /\ initialized' = TRUE
     /\ highest' = seq
     /\ bitmap' = SetBit(bitmap, 0)
     /\ verdict' = "Ok"
  \/ /\ initialized
     /\ Ahead(seq)
     /\ bitmap' = SetBit(AdvanceWindow(bitmap, WrappingSub(seq, highest)), 0)
     /\ highest' = seq
     /\ verdict' = "Ok"
     /\ UNCHANGED initialized
  \/ /\ initialized
     /\ ~Ahead(seq)
     /\ Unseen(seq)
     /\ bitmap' = SetBit(bitmap, WrappingSub(highest, seq))
     /\ verdict' = "Ok"
     /\ UNCHANGED <<initialized, highest>>
  \/ /\ initialized
     /\ ~Ahead(seq)
     /\ ~Unseen(seq)
     /\ verdict' = "ReplayDetected"
     /\ UNCHANGED window

-----------------------------------------------------------------------------
(* The session *)

\* EncryptingTransport::send_media. Half the sequence space is never lost in
\* one piece (2^31 packets are more than a year of audio).
Send ==
  /\ sent < MaxSent
  /\ sent - newest < Half
  /\ sent' = sent + 1
  /\ UNCHANGED <<keys, window, verdict, last, newest, delivered, twice>>

\* A copy of packet n comes out of the path. Copies are not held back for
\* half the sequence space either.
OnPath(n) == n < sent /\ newest - n < Half

ReceiveMarksFirst(n) ==
  /\ OnPath(n)
  /\ CheckAndUpdate(Wire(n))
  /\ last' = n
  /\ \/ /\ KeyOf(n) = recvKey
        /\ newest' = IF verdict' = "Ok" /\ n > newest THEN n ELSE newest
        /\ delivered' = delivered \cup (IF verdict' = "Ok" THEN {n} ELSE {})
     \/ /\ KeyOf(n) # recvKey
        /\ UNCHANGED <<newest, delivered>>
  /\ UNCHANGED <<sent, keys, twice>>

\* EncryptingTransport::recv_media on packet n: open it, then check for a
\* replay; what fails to open leaves the window alone.
Receive(n) ==
  /\ OnPath(n)
  /\ \/ /\ KeyOf(n) = recvKey
        /\ CheckAndUpdate(Wire(n))
        /\ last' = n
        /\ newest' = IF verdict' = "Ok" /\ n > newest THEN n ELSE newest
        /\ delivered' = {m \in delivered \cup
                                 (IF verdict' = "Ok" THEN {n} ELSE {}) :
                           newest' - m < Half}
        /\ twice' = (twice \/ (verdict' = "Ok" /\ n \in delivered))
     \/ /\ KeyOf(n) # recvKey
        /\ UNCHANGED <<window, verdict, last, newest, delivered, twice>>
  /\ UNCHANGED <<sent, keys>>

InitiateRekey(e) ==
  /\ sendKey + recvKey + Cardinality(pending) < 2 * MaxRekeys
  /\ e \notin pending
  /\ IF e = "send" THEN sendKey <= recvKey ELSE recvKey <= sendKey
  /\ pending' = pending \cup {e}
  /\ UNCHANGED <<sent, sendKey, recvKey, rekeyedAt, window, verdict, last,
                 newest, delivered, twice>>

\* complete_rekey at one end, once the other end's ephemeral key is known.
\* The two ends switch at different times; the windows are kept.
CompleteRekey(e) ==
  /\ e \in pending
  /\ \/ /\ e = "send"
        /\ "recv" \in pending \/ recvKey > sendKey
        /\ sendKey' = sendKey + 1
        /\ rekeyedAt' = [rekeyedAt EXCEPT ![sendKey + 1] = sent]
        /\ UNCHANGED recvKey
     \/ /\ e = "recv"
        /\ "send" \in pending \/ sendKey > recvKey
        /\ recvKey' = recvKey + 1
        /\ UNCHANGED <<sendKey, rekeyedAt>>
  /\ pending' = pending \ {e}
  /\ UNCHANGED <<sent, window, verdict, last, newest, delivered, twice>>

Next ==
  \/ Send
  \/ \E n \in 0..(MaxSent - 1) : Receive(n)
  \/ \E e \in Ends : InitiateRekey(e) \/ CompleteRekey(e)

Spec == Init /\ [][Next]_vars

-----------------------------------------------------------------------------
(* Properties *)

\* The variables have the types of the fields they model.
TypeOK ==
  /\ sent \in 0..MaxSent
  /\ rekeyedAt \in [0..MaxRekeys -> 0..MaxSent]
  /\ sendKey \in 0..MaxRekeys
  /\ recvKey \in 0..MaxRekeys
  /\ pending \subseteq Ends
  /\ initialized \in BOOLEAN
  /\ highest \in 0..(SeqSpace - 1)
  /\ bitmap \in [0..(Words - 1) -> SUBSET (0..(WordBits - 1))]
  /\ verdict \in {"none", "Ok", "ReplayDetected"}
  /\ last \in -1..(MaxSent - 1)
  /\ newest \in -1..(MaxSent - 1)
  /\ delivered \subseteq 0..(MaxSent - 1)
  /\ twice \in BOOLEAN

\* The application never gets a packet twice, across wrap-around of the
\* sequence number, window jumps and rekeys that keep the windows.
DeliveredOnce == ~twice

\* The window remembers exactly the delivered packets it covers: bit o is set
\* iff the packet o behind the newest one was delivered.
BitmapIsHistory ==
  initialized =>
    /\ highest = Wire(newest)
    /\ \A o \in 0..(Window - 1) :
         GetBit(bitmap, o) <=> (newest - o) \in delivered

\* The unwrapped ideal of the receiver: the bitmap read as packet numbers.
Ideal == INSTANCE ReplayWindow WITH
  Packet <- 0..(MaxSent - 1),
  seen <- {newest - o : o \in {p \in 0..(Window - 1) :
                                 initialized /\ GetBit(bitmap, p)}}

\* Words, wrap-around and keys included, decrypt gives every packet the
\* verdict of an ideal window over unwrapped numbers: nothing twice, and
\* nothing fresh refused.
ImplementsIdealWindow == Ideal!Spec

=============================================================================
