------------------------------ MODULE MediaPathProofs ------------------------------
(* Proofs about what becomes of media packets on their way: CryptoSession,    *)
(* JitterBuffer and FecPath, each for any of its sizes and bounds.            *)
EXTENDS CryptoSession, JitterBuffer, FiniteSetTheorems, WellFoundedInduction, TLAPS

(* FecPath follows as an instance of its own.                                *)
CONSTANTS K, R, BlockIds, MaxBlocks, MaxSwitches
VARIABLES opus, number, block_id, symbols, switches, net, blocks, recovered, handed

Fec == INSTANCE FecPath

\* A division has one quotient and one remainder.
LEMMA DivModUnique ==
  ASSUME NEW m \in Nat \ {0}, NEW q \in Int, NEW r \in 0..(m - 1),
         NEW a, a = q * m + r
  PROVE  a \div m = q /\ a % m = r
OBVIOUS

\* The quotient and the remainder make up the dividend.
LEMMA DivMod ==
  ASSUME NEW m \in Nat, m > 0, NEW a \in Int,
         NEW q, q = a \div m, NEW r, r = a % m
  PROVE  q \in Int /\ r \in 0..(m - 1) /\ a = q * m + r
<1>1. q \in Int /\ r \in 0..(m - 1)
  OBVIOUS
<1>2. a = q * m + r
  BY SMT
<1> QED
  BY <1>1, <1>2

\* Multiplication distributes over a difference.
LEMMA Distribute ==
  ASSUME NEW s \in Int, NEW q \in Int, NEW p \in Int
  PROVE  (p - q) * s = p * s - q * s /\ p * s \in Int /\ q * s \in Int
OBVIOUS

\* The sizes are numbers, and the window is less than half the sequence space.
LEMMA HalfFacts ==
  /\ Half \in Nat /\ SeqSpace = 2 * Half /\ Window < Half /\ Window \in Nat \ {0}
  /\ SeqSpace \in Nat \ {0} /\ WordBits \in Nat \ {0}
BY SessionAssumption DEF Half

\* Packet numbers on the wire differ by as much as the packet numbers, up to a
\* multiple of the sequence space.
LEMMA WireDifference ==
  ASSUME NEW n \in Int, NEW h \in Int, NEW d \in 0..(SeqSpace - 1),
         NEW k \in Int, n - h = d + k * SeqSpace
  PROVE  WrappingSub(Wire(n), Wire(h)) = d
<1> DEFINE s == SeqSpace
           q == n \div s
           p == h \div s
           u == n % s
           v == h % s
           c == (p - q) + k
<1>0. WrappingSub(Wire(n), Wire(h)) = (u - v) % s
  BY DEF WrappingSub, Wire
<1>1. s \in Nat \ {0} /\ s > 0
  BY HalfFacts
<1>2. q \in Int /\ u \in 0..(s - 1) /\ n = q * s + u
  BY <1>1, DivMod
<1>3. p \in Int /\ v \in 0..(s - 1) /\ h = p * s + v
  BY <1>1, DivMod
<1>4. d \in 0..(s - 1) /\ n - h = d + k * s
  OBVIOUS
<1> HIDE DEF s, q, p, u, v
<1>5. c \in Int /\ c * s = p * s - q * s + k * s
  BY <1>1, <1>2, <1>3
<1>6. u - v = c * s + d
  <2>1. p * s \in Int /\ q * s \in Int /\ k * s \in Int /\ c * s \in Int
    BY <1>1, <1>2, <1>3, <1>5
  <2> HIDE DEF c
  <2> QED
    BY <1>1, <1>2, <1>3, <1>4, <1>5, <2>1
<1> HIDE DEF c
<1>7. ASSUME NEW a, a = u - v
      PROVE  a % s = d
  <2>1. a = c * s + d
    BY <1>6, <1>7
  <2> QED
    BY <1>1, <1>4, <1>5, <2>1, DivModUnique
<1> QED
  BY <1>0, <1>7

\* wrapping_sub of two numbers less than the sequence space apart.
LEMMA WrapSub ==
  ASSUME NEW n \in Int, NEW h \in Int
  PROVE  /\ n - h \in 0..(SeqSpace - 1) => WrappingSub(Wire(n), Wire(h)) = n - h
         /\ h - n \in 1..(SeqSpace - 1) => WrappingSub(Wire(n), Wire(h)) = n - h + SeqSpace
<1>1. SeqSpace \in Nat
  BY HalfFacts
<1>2. CASE n - h \in 0..(SeqSpace - 1)
  <2>1. n - h = (n - h) + 0 * SeqSpace
    BY <1>1
  <2> QED
    BY <2>1, <1>1, <1>2, WireDifference
<1>3. CASE h - n \in 1..(SeqSpace - 1)
  <2> DEFINE d == n - h + SeqSpace
  <2>1. d \in 0..(SeqSpace - 1) /\ -1 \in Int /\ n - h = d + (-1) * SeqSpace
    BY <1>1, <1>3
  <2>2. ~(n - h \in 0..(SeqSpace - 1))
    BY <1>1, <1>3
  <2> HIDE DEF d
  <2>3. WrappingSub(Wire(n), Wire(h)) = d
    BY <2>1, WireDifference, Zenon
  <2> QED
    BY <2>2, <2>3 DEF d
<1> QED
  BY <1>2, <1>3

-----------------------------------------------------------------------------

\* What the window's words hold.
BitmapType == [0..(Words - 1) -> SUBSET (0..(WordBits - 1))]

\* The bits of the window fit its words.
LEMMA OffsetFits ==
  ASSUME NEW o \in 0..(Window - 1)
  PROVE  /\ Words \in Nat
         /\ o \div WordBits \in 0..(Words - 1)
         /\ o % WordBits \in 0..(WordBits - 1)
<1> DEFINE q == o \div WordBits
           r == o % WordBits
           s == (Window + WordBits - 1) % WordBits
<1>0. WordBits \in Nat /\ WordBits > 0 /\ Window \in Nat
  BY HalfFacts
<1>1. q \in Int /\ r \in 0..(WordBits - 1) /\ o = q * WordBits + r
  BY <1>0, DivMod
<1>2. /\ Words \in Int /\ s \in 0..(WordBits - 1)
      /\ Window + WordBits - 1 = Words * WordBits + s
  BY <1>0, DivMod DEF Words
<1> HIDE DEF q, r, s
<1>3. q >= 0
  <2>1. CASE q <= -1
    <3>1. q * WordBits <= (-1) * WordBits
      BY <2>1, <1>1, <1>0
    <3>2. q * WordBits \in Int
      BY <1>1, <1>0
    <3> QED
      BY <3>1, <3>2, <1>0, <1>1
  <2> QED
    BY <2>1, <1>1
<1>4. q < Words
  <2>1. CASE q >= Words
    <3>1. q * WordBits >= Words * WordBits
      BY <2>1, <1>1, <1>2, <1>0
    <3>2. q * WordBits \in Int /\ Words * WordBits \in Int
      BY <1>1, <1>2, <1>0
    <3> QED
      BY <3>1, <3>2, <1>0, <1>1, <1>2
  <2> QED
    BY <2>1, <1>1, <1>2
<1> QED
  BY <1>1, <1>2, <1>3, <1>4 DEF q, r

\* A word and a bit of it are one offset.
LEMMA OffsetIs ==
  ASSUME NEW o \in Nat, NEW q \in Nat, NEW r \in 0..(WordBits - 1)
  PROVE  (o \div WordBits = q /\ o % WordBits = r) <=> o = q * WordBits + r
<1>0. WordBits \in Nat /\ WordBits > 0
  BY HalfFacts
<1> DEFINE a == o \div WordBits
           b == o % WordBits
<1>1. a = o \div WordBits /\ b = o % WordBits
  OBVIOUS
<1> HIDE DEF a, b
<1>2. o = a * WordBits + b
  BY <1>0, <1>1, DivMod
<1>3. o = q * WordBits + r => a = q /\ b = r
  BY <1>0, <1>1, DivModUnique
<1> QED
  BY <1>1, <1>2, <1>3

\* Setting a bit of the window sets that bit and no other.
LEMMA GetAfterSet ==
  ASSUME NEW bm \in BitmapType, NEW o \in 0..(Window - 1), NEW p \in 0..(Window - 1)
  PROVE  /\ SetBit(bm, o) \in BitmapType
         /\ GetBit(SetBit(bm, o), p) <=> p = o \/ GetBit(bm, p)
<1>1. /\ Words \in Nat
      /\ o \div WordBits \in 0..(Words - 1) /\ p \div WordBits \in 0..(Words - 1)
      /\ o % WordBits \in 0..(WordBits - 1) /\ p % WordBits \in 0..(WordBits - 1)
  BY OffsetFits
<1>2. o \div WordBits = p \div WordBits /\ o % WordBits = p % WordBits => o = p
  <2>1. o \in Nat /\ p \in Nat
    BY HalfFacts
  <2> QED
    BY <1>1, <2>1, OffsetIs
<1>3. SetBit(bm, o) \in BitmapType
  BY <1>1 DEF SetBit, BitmapType
<1>4. SetBit(bm, o)[p \div WordBits] =
        IF p \div WordBits = o \div WordBits
          THEN bm[p \div WordBits] \cup {o % WordBits} ELSE bm[p \div WordBits]
  BY <1>1 DEF SetBit, BitmapType
<1>5. p \div WordBits < Words
  BY <1>1
<1> QED
  BY <1>2, <1>3, <1>4, <1>5 DEF GetBit

\* What AdvanceWindow leaves at an offset was shift positions nearer before.
LEMMA GetAfterAdvance ==
  ASSUME NEW bm \in BitmapType, NEW shift \in Nat, NEW p \in 0..(Window - 1)
  PROVE  /\ AdvanceWindow(bm, shift) \in BitmapType
         /\ GetBit(AdvanceWindow(bm, shift), p) <=>
              p >= shift /\ GetBit(bm, p - shift)
<1> DEFINE ws == shift \div WordBits
           bs == shift % WordBits
           w == p \div WordBits
           b == p % WordBits
           Low(v) == {c \in 0..(WordBits - 1) : c - bs \in bm[v - ws]}
           Carry(v) == IF bs > 0 /\ v > ws
                       THEN {c \in 0..(WordBits - 1) :
                               c + WordBits - bs \in bm[v - ws - 1]}
                       ELSE {}
           moved == [v \in DOMAIN bm |->
                       IF shift >= Window \/ v < ws THEN {} ELSE Low(v) \cup Carry(v)]
<1>1. WordBits \in Nat /\ WordBits > 0 /\ Window \in Nat
  BY HalfFacts
<1>5. w = p \div WordBits /\ b = p % WordBits
  OBVIOUS
<1>15. ws = shift \div WordBits /\ bs = shift % WordBits
  OBVIOUS
<1>4. AdvanceWindow(bm, shift) = moved
  BY DEF AdvanceWindow
<1> HIDE DEF ws, bs, w, b
<1>2. /\ w \in 0..(Words - 1) /\ b \in 0..(WordBits - 1) /\ Words \in Nat
      /\ p = w * WordBits + b
  <2>1. p = w * WordBits + b
    BY <1>1, <1>5, DivMod
  <2> QED
    BY <1>5, <2>1, OffsetFits
<1>3. ws \in Int /\ bs \in 0..(WordBits - 1) /\ shift = ws * WordBits + bs
  BY <1>1, <1>15, DivMod
<1>16. ws >= 0
  <2>1. CASE ws <= -1
    <3>1. ws * WordBits <= (-1) * WordBits /\ ws * WordBits \in Int
      BY <2>1, <1>1, <1>3
    <3> QED
      BY <3>1, <1>1, <1>3
  <2> QED
    BY <2>1, <1>3
<1>6. moved \in BitmapType
  BY DEF BitmapType
<1>7. GetBit(moved, p) <=> b \in moved[w]
  BY <1>2, <1>5 DEF GetBit
<1>8. DOMAIN bm = 0..(Words - 1) /\ \A v \in 0..(Words - 1) : bm[v] \subseteq 0..(WordBits - 1)
  BY DEF BitmapType
<1>9. b \in moved[w] <=>
        /\ ~(shift >= Window \/ w < ws)
        /\ b \in Low(w) \cup Carry(w)
  BY <1>2, <1>8
<1>10. ASSUME NEW q \in Int, NEW r \in 0..(WordBits - 1), p - shift = q * WordBits + r
       PROVE  p >= shift /\ GetBit(bm, p - shift) <=> q >= 0 /\ r \in bm[q]
  <2>1. CASE q >= 0
    <3>1. q * WordBits >= 0
      BY <2>1, <1>1
    <3>2. p - shift \in 0..(Window - 1)
      BY <3>1, <1>10, <1>1
    <3>3. (p - shift) \div WordBits = q /\ (p - shift) % WordBits = r
      BY <3>2, <2>1, <1>10, OffsetIs
    <3>4. q < Words
      BY <3>2, <3>3, OffsetFits
    <3> QED
      BY <3>2, <3>3, <3>4, <2>1 DEF GetBit
  <2>2. CASE q < 0
    <3>1. q * WordBits <= (-1) * WordBits /\ q * WordBits \in Int
      BY <2>2, <1>1
    <3>2. p < shift
      BY <3>1, <1>10, <1>1
    <3> QED
      BY <3>2, <2>2
  <2> QED
    BY <2>1, <2>2
<1>11. (w - ws) * WordBits = w * WordBits - ws * WordBits
       /\ (w - ws - 1) * WordBits = w * WordBits - ws * WordBits - WordBits
       /\ w * WordBits \in Int /\ ws * WordBits \in Int
  BY <1>1, <1>2, <1>3
<1>12. CASE shift >= Window
  BY <1>12, <1>1, <1>4, <1>6, <1>7, <1>9
<1>13. CASE shift < Window /\ b >= bs
  <2>1. p - shift = (w - ws) * WordBits + (b - bs) /\ w - ws \in Int /\ b - bs \in 0..(WordBits - 1)
    BY <1>1, <1>2, <1>3, <1>11, <1>13
  <2>2. p >= shift /\ GetBit(bm, p - shift) <=> w - ws >= 0 /\ b - bs \in bm[w - ws]
    BY <2>1, <1>10
  <2>3. w > ws => b \notin Carry(w)
    <3>1. CASE w > ws
      <4>1. w - ws - 1 \in 0..(Words - 1)
        BY <3>1, <1>2, <1>3, <1>16
      <4>2. b + WordBits - bs \notin 0..(WordBits - 1)
        BY <1>1, <1>2, <1>3, <1>13
      <4> QED
        BY <4>1, <4>2, <1>8
    <3> QED
      BY <3>1
  <2> QED
    BY <2>2, <2>3, <1>1, <1>2, <1>3, <1>4, <1>6, <1>7, <1>9, <1>13
<1>14. CASE shift < Window /\ b < bs
  <2>1. /\ p - shift = (w - ws - 1) * WordBits + (b + WordBits - bs)
        /\ w - ws - 1 \in Int /\ b + WordBits - bs \in 0..(WordBits - 1)
    BY <1>1, <1>2, <1>3, <1>11, <1>14
  <2>2. p >= shift /\ GetBit(bm, p - shift) <=>
          w - ws - 1 >= 0 /\ b + WordBits - bs \in bm[w - ws - 1]
    BY <2>1, <1>10
  <2>3. w >= ws => b \notin Low(w)
    <3>1. CASE w >= ws
      <4>1. w - ws \in 0..(Words - 1)
        BY <3>1, <1>2, <1>3, <1>16
      <4>2. b - bs \notin 0..(WordBits - 1)
        BY <1>1, <1>2, <1>3, <1>14
      <4> QED
        BY <4>1, <4>2, <1>8
    <3> QED
      BY <3>1
  <2> QED
    BY <2>2, <2>3, <1>1, <1>2, <1>3, <1>4, <1>6, <1>7, <1>9, <1>14
<1> QED
  BY <1>1, <1>2, <1>3, <1>12, <1>13, <1>14

-----------------------------------------------------------------------------
\* Where the receiver is: never more than half the sequence space behind the
\* sender, and what it remembers is no newer than the newest packet.
Placement ==
  /\ newest < sent /\ sent - newest <= Half
  /\ initialized <=> newest >= 0
  /\ initialized => newest \in delivered
  /\ ~initialized => \A o \in 0..(Window - 1) : ~GetBit(bitmap, o)
  /\ \A m \in delivered : m <= newest /\ newest - m < Half

\* An end with a rekey pending is not ahead of the other, and every pending
\* rekey is within the bound.
KeysPaired ==
  /\ sendKey + recvKey + Cardinality(pending) <= 2 * MaxRekeys
  /\ "send" \in pending => sendKey <= recvKey
  /\ "recv" \in pending => recvKey <= sendKey

Inv == TypeOK /\ KeysPaired /\ Placement /\ BitmapIsHistory /\ DeliveredOnce

\* The invariant holds before the first packet.
LEMMA InvInit == Init => Inv
<1> SUFFICES ASSUME Init PROVE Inv
  OBVIOUS
<1>1. /\ 0 \in 0..MaxSent /\ 0 \in 0..MaxRekeys
      /\ -1 \in -1..(MaxSent - 1) /\ 0 \in 0..(SeqSpace - 1)
  BY HalfFacts, SessionAssumption
<1>2. TypeOK
  <2>1. rekeyedAt \in [0..MaxRekeys -> 0..MaxSent]
    BY <1>1 DEF Init
  <2>2. bitmap \in [0..(Words - 1) -> SUBSET (0..(WordBits - 1))]
    BY DEF Init
  <2> QED
    BY <1>1, <2>1, <2>2 DEF Init, TypeOK, Ends
<1>3. KeysPaired
  BY FS_EmptySet, SessionAssumption DEF Init, KeysPaired
<1>4. \A o \in 0..(Window - 1) : ~GetBit(bitmap, o)
  BY OffsetFits DEF Init, GetBit
<1>5. Placement
  <2>1. newest = -1 /\ sent = 0 /\ delivered = {} /\ ~initialized /\ Half >= 1
    BY HalfFacts DEF Init
  <2>2. 0 - (-1) <= Half /\ -1 < 0 /\ ~(-1 >= 0)
    BY <2>1, HalfFacts
  <2> QED
    BY <1>4, <2>1, <2>2 DEF Placement
<1> QED
  BY <1>2, <1>3, <1>5 DEF Init, Inv, BitmapIsHistory, DeliveredOnce

\* check_and_update, read in packet numbers: the four ways it ends.
LEMMA CheckCases ==
  ASSUME Inv, NEW n \in 0..(MaxSent - 1), OnPath(n), CheckAndUpdate(Wire(n))
  PROVE  \/ /\ ~initialized /\ initialized' /\ verdict' = "Ok"
            /\ newest = -1
            /\ highest' = Wire(n)
            /\ bitmap' = SetBit(bitmap, 0)
         \/ /\ initialized /\ initialized' /\ verdict' = "Ok"
            /\ n - newest \in 1..(Half - 1)
            /\ highest' = Wire(n)
            /\ bitmap' = SetBit(AdvanceWindow(bitmap, n - newest), 0)
         \/ /\ initialized /\ initialized' /\ verdict' = "Ok"
            /\ newest - n \in 1..(Window - 1)
            /\ ~GetBit(bitmap, newest - n)
            /\ highest' = highest
            /\ bitmap' = SetBit(bitmap, newest - n)
         \/ /\ initialized /\ initialized' /\ verdict' = "ReplayDetected"
            /\ newest - n \in 0..(Half - 1)
            /\ newest - n < Window => GetBit(bitmap, newest - n)
            /\ highest' = highest /\ bitmap' = bitmap
<1> USE HalfFacts, SessionAssumption
<1>1. /\ newest \in -1..(MaxSent - 1) /\ sent \in 0..MaxSent
      /\ n - newest < Half /\ newest - n < Half
      /\ initialized <=> newest >= 0
  BY DEF Inv, TypeOK, Placement, OnPath
<1>2. CASE ~initialized
  BY <1>1, <1>2 DEF CheckAndUpdate
<1>3. CASE initialized
  <2>1. highest = Wire(newest) /\ newest \in Nat /\ n \in Nat
    BY <1>1, <1>3 DEF Inv, BitmapIsHistory
  <2>2. CASE n > newest
    <3>1. WrappingSub(Wire(n), highest) = n - newest
      BY <1>1, <2>1, <2>2, WrapSub
    <3>2. Ahead(Wire(n)) /\ n - newest \in 1..(Half - 1)
      BY <1>1, <2>1, <2>2, <3>1 DEF Ahead
    <3> QED
      BY <1>3, <3>1, <3>2 DEF CheckAndUpdate
  <2>3. CASE n = newest
    <3>1. WrappingSub(Wire(n), highest) = 0
      BY <2>1, <2>3, WrapSub
    <3>2. ~Ahead(Wire(n)) /\ ~Unseen(Wire(n))
      BY <3>1 DEF Ahead, Unseen
    <3>3. GetBit(bitmap, 0)
      BY <1>3, <2>1 DEF Inv, Placement, BitmapIsHistory
    <3>4. verdict' = "ReplayDetected" /\ UNCHANGED window
      BY <1>3, <3>2 DEF CheckAndUpdate
    <3>5. initialized' = initialized /\ highest' = highest /\ bitmap' = bitmap
      BY <3>4 DEF window
    <3>6. newest - n = 0
      BY <2>1, <2>3
    <3> QED
      BY <1>1, <1>3, <3>3, <3>4, <3>5, <3>6
  <2>4. CASE n < newest
    <3>1. /\ WrappingSub(Wire(n), highest) = n - newest + SeqSpace
          /\ WrappingSub(highest, Wire(n)) = newest - n
          /\ newest - n \in 1..(Half - 1)
      BY <1>1, <2>1, <2>4, WrapSub
    <3>2. ~Ahead(Wire(n))
      BY <2>1, <3>1 DEF Ahead
    <3>3. Unseen(Wire(n)) <=> newest - n < Window /\ ~GetBit(bitmap, newest - n)
      BY <2>1, <3>1 DEF Unseen
    <3>4. CASE Unseen(Wire(n))
      <4>1. /\ verdict' = "Ok" /\ initialized' = initialized /\ highest' = highest
            /\ bitmap' = SetBit(bitmap, newest - n)
        BY <1>3, <3>1, <3>2, <3>4 DEF CheckAndUpdate
      <4> QED
        BY <1>1, <1>3, <3>1, <3>3, <3>4, <4>1
    <3>5. CASE ~Unseen(Wire(n))
      <4>1. verdict' = "ReplayDetected" /\ UNCHANGED window
        BY <1>3, <3>2, <3>5 DEF CheckAndUpdate
      <4>2. initialized' = initialized /\ highest' = highest /\ bitmap' = bitmap
        BY <4>1 DEF window
      <4> QED
        BY <1>1, <1>3, <3>1, <3>3, <3>5, <4>1, <4>2
    <3> QED
      BY <3>4, <3>5
  <2> QED
    BY <1>1, <2>1, <2>2, <2>3, <2>4
<1> QED
  BY <1>2, <1>3

\* The window covers a packet that is delivered, and the other way round.
LEMMA BitIsDelivered ==
  ASSUME Inv, initialized, NEW m \in Int, newest - m \in 0..(Window - 1)
  PROVE  GetBit(bitmap, newest - m) <=> m \in delivered
<1>1. newest - (newest - m) = m
  BY DEF Inv, TypeOK
<1> QED
  BY <1>1 DEF Inv, BitmapIsHistory

\* A packet that opens moves window and history together.
LEMMA OpenStep ==
  ASSUME Inv, NEW n \in 0..(MaxSent - 1), OnPath(n), CheckAndUpdate(Wire(n)),
         newest' = IF verdict' = "Ok" /\ n > newest THEN n ELSE newest,
         delivered' = {m \in delivered \cup
                                 (IF verdict' = "Ok" THEN {n} ELSE {}) :
                           newest' - m < Half},
         twice' = (twice \/ (verdict' = "Ok" /\ n \in delivered)),
         sent' = sent
  PROVE  /\ initialized' \in BOOLEAN /\ highest' \in 0..(SeqSpace - 1)
         /\ bitmap' \in BitmapType
         /\ verdict' \in {"none", "Ok", "ReplayDetected"}
         /\ newest' \in -1..(MaxSent - 1) /\ delivered' \subseteq 0..(MaxSent - 1)
         /\ twice' \in BOOLEAN
         /\ Placement' /\ BitmapIsHistory' /\ DeliveredOnce'
<1> USE HalfFacts, SessionAssumption
<1>1. /\ newest \in -1..(MaxSent - 1) /\ sent \in 0..MaxSent
      /\ delivered \subseteq 0..(MaxSent - 1) /\ bitmap \in BitmapType
      /\ highest \in 0..(SeqSpace - 1) /\ initialized \in BOOLEAN
      /\ n < sent /\ newest < sent /\ sent - newest <= Half /\ newest - n < Half
      /\ initialized <=> newest >= 0
      /\ \A m \in delivered : m <= newest /\ newest - m < Half
      /\ ~twice
  BY DEF Inv, TypeOK, Placement, OnPath, BitmapType, DeliveredOnce
<1>2. Wire(n) \in 0..(SeqSpace - 1)
  BY DEF Wire
<1>3. 0 \in 0..(Window - 1)
  OBVIOUS
<1>4. CASE /\ ~initialized /\ initialized' /\ verdict' = "Ok"
           /\ newest = -1
           /\ highest' = Wire(n)
           /\ bitmap' = SetBit(bitmap, 0)
  <2>1. /\ bitmap' \in BitmapType
        /\ \A o \in 0..(Window - 1) : GetBit(bitmap', o) <=> o = 0
    BY <1>1, <1>3, <1>4, GetAfterSet DEF Inv, Placement
  <2>2. delivered = {} /\ newest' = n /\ delivered' = {n} /\ ~twice'
    <3>1. delivered = {}
      BY <1>1, <1>4
    <3>2. newest' = n
      BY <1>1, <1>4
    <3>3. delivered' = {n}
      BY <1>1, <1>4, <3>1, <3>2
    <3>4. ~twice'
      BY <1>1, <3>1
    <3> QED
      BY <3>1, <3>2, <3>3, <3>4
  <2>3. BitmapIsHistory'
    BY <1>4, <2>1, <2>2 DEF BitmapIsHistory
  <2> QED
    BY <1>1, <1>2, <1>4, <2>1, <2>2, <2>3 DEF Placement, DeliveredOnce
<1>5. CASE /\ initialized /\ initialized' /\ verdict' = "Ok"
           /\ n - newest \in 1..(Half - 1)
           /\ highest' = Wire(n)
           /\ bitmap' = SetBit(AdvanceWindow(bitmap, n - newest), 0)
  <2>1. n - newest \in Nat /\ n > newest
    BY <1>1, <1>5
  <2>2. /\ bitmap' \in BitmapType
        /\ \A o \in 0..(Window - 1) :
             GetBit(bitmap', o) <=> o = 0 \/ (o >= n - newest /\ GetBit(bitmap, o - (n - newest)))
    BY <1>1, <1>3, <1>5, <2>1, GetAfterSet, GetAfterAdvance
  <2>3. /\ newest' = n /\ ~twice'
        /\ delivered' = {m \in delivered \cup {n} : n - m < Half}
    <3>1. newest' = n
      BY <1>5, <2>1
    <3>2. n \notin delivered
      BY <1>1, <2>1
    <3>3. ~twice'
      BY <1>1, <3>2
    <3> QED
      BY <1>5, <3>1, <3>3
  <2>4. ASSUME NEW o \in 0..(Window - 1)
        PROVE  GetBit(bitmap', o) <=> (n - o) \in delivered'
    <3>1. n - (n - o) = o /\ o < Half /\ n - o \in Int
      BY <1>1
    <3>2. (n - o) \in delivered' <=> o = 0 \/ (n - o) \in delivered
      BY <1>1, <2>3, <3>1
    <3>3. CASE o >= n - newest
      <4>1. newest - (n - o) = o - (n - newest) /\ o - (n - newest) \in 0..(Window - 1)
        BY <1>1, <2>1, <3>3
      <4>2. GetBit(bitmap, o - (n - newest)) <=> (n - o) \in delivered
        BY <1>5, <3>1, <4>1, BitIsDelivered
      <4> QED
        BY <2>2, <3>2, <3>3, <4>2
    <3>4. CASE o < n - newest
      <4>1. (n - o) \notin delivered
        BY <1>1, <3>4
      <4> QED
        BY <1>1, <2>2, <3>2, <3>4, <4>1
    <3> QED
      BY <1>1, <3>3, <3>4
  <2>5. BitmapIsHistory'
    BY <1>5, <2>3, <2>4 DEF BitmapIsHistory
  <2>6. n - newest < Half /\ n \in delivered' /\ sent - n <= Half
    BY <1>1, <1>5, <2>1, <2>3
  <2>7. Placement'
    BY <1>1, <1>5, <2>1, <2>3, <2>6 DEF Placement
  <2>8. newest' \in -1..(MaxSent - 1) /\ delivered' \subseteq 0..(MaxSent - 1)
    <3>1. n \in -1..(MaxSent - 1)
      OBVIOUS
    <3>2. delivered' \subseteq delivered \cup {n}
      BY <2>3
    <3> QED
      BY <1>1, <2>3, <3>1, <3>2
  <2>9. twice' \in BOOLEAN
    BY <2>3
  <2> QED
    BY <1>2, <1>5, <2>2, <2>3, <2>5, <2>7, <2>8, <2>9 DEF DeliveredOnce
<1>6. CASE /\ initialized /\ initialized' /\ verdict' = "Ok"
           /\ newest - n \in 1..(Window - 1)
           /\ ~GetBit(bitmap, newest - n)
           /\ highest' = highest
           /\ bitmap' = SetBit(bitmap, newest - n)
  <2>1. newest - n \in 0..(Window - 1) /\ n <= newest
    BY <1>1, <1>6
  <2>2. /\ bitmap' \in BitmapType
        /\ \A o \in 0..(Window - 1) :
             GetBit(bitmap', o) <=> o = newest - n \/ GetBit(bitmap, o)
    BY <1>1, <1>6, <2>1, GetAfterSet
  <2>3. n \notin delivered
    BY <1>6, <2>1, BitIsDelivered
  <2>4. newest' = newest /\ delivered' = delivered \cup {n} /\ ~twice'
    <3>1. newest' = newest
      BY <1>1, <2>1
    <3>2. \A m \in delivered \cup {n} : newest - m < Half
      BY <1>1
    <3>3. ~twice'
      BY <1>1, <2>3
    <3> QED
      BY <1>6, <3>1, <3>2, <3>3
  <2>5. ASSUME NEW o \in 0..(Window - 1)
        PROVE  GetBit(bitmap', o) <=> (newest - o) \in delivered'
    <3>1. newest - (newest - o) = o /\ newest - o \in Int
      BY <1>1
    <3>2. GetBit(bitmap, o) <=> (newest - o) \in delivered
      BY <1>6, <3>1, BitIsDelivered
    <3>3. o = newest - n <=> newest - o = n
      BY <1>1
    <3> QED
      BY <2>2, <2>4, <3>2, <3>3
  <2>6. BitmapIsHistory'
    BY <1>6, <2>4, <2>5 DEF BitmapIsHistory, Inv
  <2> QED
    BY <1>1, <1>6, <2>1, <2>2, <2>4, <2>6 DEF Placement, DeliveredOnce, Inv
<1>7. CASE /\ initialized /\ initialized' /\ verdict' = "ReplayDetected"
           /\ highest' = highest /\ bitmap' = bitmap
  <2>1. newest' = newest /\ delivered' = delivered /\ ~twice'
    BY <1>1, <1>7
  <2>2. BitmapIsHistory'
    BY <1>7, <2>1 DEF BitmapIsHistory, Inv
  <2> QED
    BY <1>1, <1>7, <2>1, <2>2 DEF Placement, DeliveredOnce, Inv
<1> QED
  BY CheckCases, <1>4, <1>5, <1>6, <1>7

\* The sender and the keys.
LEMMA KeyStep ==
  ASSUME Inv, NEW e \in Ends, InitiateRekey(e) \/ CompleteRekey(e)
  PROVE  Inv'
<1> USE SessionAssumption DEF Ends
<1>1. /\ sendKey \in 0..MaxRekeys /\ recvKey \in 0..MaxRekeys
      /\ pending \subseteq {"send", "recv"} /\ sent \in 0..MaxSent
      /\ rekeyedAt \in [0..MaxRekeys -> 0..MaxSent]
      /\ KeysPaired
  BY DEF Inv, TypeOK
<1>2. IsFiniteSet(pending) /\ Cardinality(pending) \in Nat
  <2>1. IsFiniteSet({"send", "recv"})
    <3>1. {"send", "recv"} = {"send"} \cup {"recv"}
      OBVIOUS
    <3>2. IsFiniteSet({"send"})
      BY FS_Singleton
    <3>3. IsFiniteSet({"send"} \cup {"recv"})
      BY <3>2, FS_AddElement
    <3> QED
      BY <3>1, <3>3
  <2> QED
    BY <1>1, <2>1, FS_Subset, FS_CardinalityType
<1>3. KeysPaired' /\ pending' \subseteq Ends
      /\ sendKey' \in 0..MaxRekeys /\ recvKey' \in 0..MaxRekeys
      /\ rekeyedAt' \in [0..MaxRekeys -> 0..MaxSent]
  <2>1. CASE InitiateRekey(e)
    <3>1. Cardinality(pending \cup {e}) = Cardinality(pending) + 1
      BY <1>2, <2>1, FS_AddElement DEF InitiateRekey
    <3> QED
      BY <1>1, <1>2, <2>1, <3>1 DEF InitiateRekey, KeysPaired
  <2>2. CASE CompleteRekey(e)
    <3>1. e \in pending /\ pending' = pending \ {e}
      BY <2>2 DEF CompleteRekey
    <3>2. Cardinality(pending \ {e}) = Cardinality(pending) - 1
      BY <1>2, <3>1, FS_RemoveElement
    <3>3. "send" \in pending /\ "recv" \in pending => sendKey < MaxRekeys
      <4>1. ASSUME "send" \in pending /\ "recv" \in pending
            PROVE  Cardinality(pending) = 2
        <5>1. pending = {"send"} \cup {"recv"}
          BY <1>1, <4>1
        <5>2. IsFiniteSet({"send"}) /\ Cardinality({"send"}) = 1
          BY FS_Singleton
        <5> QED
          BY <5>1, <5>2, FS_AddElement
      <4> QED
        BY <1>1, <4>1 DEF KeysPaired
    <3>4. CASE e = "send"
      <4>1. /\ "recv" \in pending \/ recvKey > sendKey
            /\ sendKey' = sendKey + 1 /\ recvKey' = recvKey
            /\ rekeyedAt' = [rekeyedAt EXCEPT ![sendKey + 1] = sent]
        BY <2>2, <3>4 DEF CompleteRekey
      <4>2. sendKey + 1 \in 0..MaxRekeys
        BY <1>1, <3>1, <3>3, <3>4, <4>1
      <4>3. rekeyedAt' \in [0..MaxRekeys -> 0..MaxSent]
        BY <1>1, <4>1
      <4> QED
        BY <1>1, <1>2, <3>1, <3>2, <3>4, <4>1, <4>2, <4>3 DEF KeysPaired
    <3>5. CASE e = "recv"
      <4>1. /\ "send" \in pending \/ sendKey > recvKey
            /\ recvKey' = recvKey + 1 /\ sendKey' = sendKey
            /\ rekeyedAt' = rekeyedAt
        BY <2>2, <3>5 DEF CompleteRekey
      <4>2. recvKey + 1 \in 0..MaxRekeys
        BY <1>1, <3>1, <3>3, <3>5, <4>1 DEF KeysPaired
      <4> QED
        BY <1>1, <1>2, <3>1, <3>2, <3>5, <4>1, <4>2 DEF KeysPaired
    <3> QED
      BY <3>4, <3>5
  <2> QED
    BY <2>1, <2>2
<1>4. UNCHANGED <<sent, window, verdict, last, newest, delivered, twice>>
  BY DEF InitiateRekey, CompleteRekey
<1> QED
  BY <1>3, <1>4
  DEF Inv, TypeOK, Placement, BitmapIsHistory, DeliveredOnce, window

\* Every step keeps the invariant.
LEMMA InvStep ==
  ASSUME Inv, [Next]_vars
  PROVE  Inv'
<1> USE SessionAssumption
<1>1. CASE UNCHANGED vars
  BY <1>1 DEF vars, keys, window, Inv, TypeOK, KeysPaired, Placement,
     BitmapIsHistory, DeliveredOnce
<1>2. CASE Send
  <2>1. sent' \in 0..MaxSent /\ newest < sent' /\ sent' - newest <= Half
    BY <1>2, HalfFacts DEF Send, Inv, TypeOK, Placement
  <2>2. UNCHANGED <<keys, window, verdict, last, newest, delivered, twice>>
    BY <1>2 DEF Send
  <2> QED
    BY <2>1, <2>2 DEF keys, window, Inv, TypeOK, KeysPaired, Placement,
       BitmapIsHistory, DeliveredOnce
<1>3. ASSUME NEW n \in 0..(MaxSent - 1), Receive(n)
      PROVE  Inv'
  <2>1. UNCHANGED <<sent, keys>> /\ OnPath(n)
    BY <1>3 DEF Receive
  <2>2. CASE UNCHANGED <<window, verdict, last, newest, delivered, twice>>
    BY <2>1, <2>2 DEF keys, window, Inv, TypeOK, KeysPaired, Placement,
       BitmapIsHistory, DeliveredOnce
  <2>3. CASE /\ CheckAndUpdate(Wire(n))
             /\ last' = n
             /\ newest' = IF verdict' = "Ok" /\ n > newest THEN n ELSE newest
             /\ delivered' = {m \in delivered \cup
                                 (IF verdict' = "Ok" THEN {n} ELSE {}) :
                           newest' - m < Half}
             /\ twice' = (twice \/ (verdict' = "Ok" /\ n \in delivered))
    <3>1. sent' = sent
      BY <2>1
    <3>2. /\ initialized' \in BOOLEAN /\ highest' \in 0..(SeqSpace - 1)
          /\ bitmap' \in BitmapType
          /\ verdict' \in {"none", "Ok", "ReplayDetected"}
          /\ newest' \in -1..(MaxSent - 1) /\ delivered' \subseteq 0..(MaxSent - 1)
          /\ twice' \in BOOLEAN
          /\ Placement' /\ BitmapIsHistory' /\ DeliveredOnce'
      BY <2>1, <2>3, <3>1, OpenStep
    <3>3. last' \in -1..(MaxSent - 1)
      BY <2>3
    <3> QED
      BY <2>1, <3>1, <3>2, <3>3 DEF keys, Inv, TypeOK, KeysPaired, BitmapType
  <2> QED
    BY <1>3, <2>2, <2>3 DEF Receive
<1> QED
  BY <1>1, <1>2, <1>3, KeyStep DEF Next

\* The invariant holds in every reachable state of the two ends, whatever the
\* datagram path loses, repeats and reorders, and whenever they rekey.
THEOREM Inductive == Spec => []Inv
  BY InvInit, InvStep, PTL DEF Spec

\* The fields of AntiReplayWindow, the keys and the histories keep their types.
THEOREM SpecTypeOK == Spec => []TypeOK
<1>1. Inv => TypeOK
  BY DEF Inv
<1> QED
  BY <1>1, Inductive, PTL

\* decrypt hands no packet to the application twice: for any window, any word
\* size and any sequence space of which the window is less than half, across
\* wrap-around of the sequence number, jumps of the window and rekeys.
THEOREM NothingDeliveredTwice == Spec => []DeliveredOnce
<1>1. Inv => DeliveredOnce
  BY DEF Inv
<1> QED
  BY <1>1, Inductive, PTL

\* After every decrypt, bit o of AntiReplayWindow is set iff the packet o behind
\* the newest was delivered, though advancing shifts whole words and carries bits
\* from word to word.
THEOREM TheBitmapIsTheHistory == Spec => []BitmapIsHistory
<1>1. Inv => BitmapIsHistory
  BY DEF Inv
<1> QED
  BY <1>1, Inductive, PTL

-----------------------------------------------------------------------------
\* What the abstract window has seen: the packets delivered that it covers.
Seen == {newest - o : o \in {p \in 0..(Window - 1) :
                                 initialized /\ GetBit(bitmap, p)}}

SeenIsDelivered == Seen = {m \in delivered : newest - m < Window}

\* The bits of the window stand for the packets delivered that it covers.
LEMMA InvSeen == Inv => SeenIsDelivered
<1> SUFFICES ASSUME Inv PROVE Seen = {m \in delivered : newest - m < Window}
  BY DEF SeenIsDelivered
<1> USE HalfFacts
<1>1. newest \in Int /\ \A m \in delivered : m \in Int /\ m <= newest
  BY DEF Inv, TypeOK, Placement
<1>2. CASE ~initialized
  <2>1. delivered = {}
    BY <1>1, <1>2 DEF Inv, TypeOK, Placement
  <2> QED
    BY <1>2, <2>1 DEF Seen
<1>3. CASE initialized
  <2>1. ASSUME NEW m \in Seen
        PROVE  m \in delivered /\ newest - m < Window
    <3>1. PICK o \in 0..(Window - 1) : GetBit(bitmap, o) /\ m = newest - o
      BY DEF Seen
    <3> QED
      BY <1>1, <1>3, <3>1 DEF Inv, BitmapIsHistory
  <2>2. ASSUME NEW m \in delivered, newest - m < Window
        PROVE  m \in Seen
    <3>1. newest - m \in 0..(Window - 1) /\ newest - (newest - m) = m
      BY <1>1, <2>2
    <3>2. GetBit(bitmap, newest - m)
      BY <1>1, <1>3, <3>1, BitIsDelivered
    <3> QED
      BY <1>3, <3>1, <3>2 DEF Seen
  <2> QED
    BY <2>1, <2>2
<1> QED
  BY <1>2, <1>3

\* A packet that opens gets the verdict of the ideal window.
LEMMA ArriveStep ==
  ASSUME Inv, Inv', NEW n \in 0..(MaxSent - 1), Receive(n), KeyOf(n) = recvKey
  PROVE  Ideal!Arrive(n)
<1> USE HalfFacts, SessionAssumption
<1>1. /\ OnPath(n) /\ CheckAndUpdate(Wire(n)) /\ last' = n
      /\ newest' = IF verdict' = "Ok" /\ n > newest THEN n ELSE newest
      /\ delivered' = {m \in delivered \cup (IF verdict' = "Ok" THEN {n} ELSE {}) :
                         newest' - m < Half}
  BY DEF Receive
<1>2. /\ Seen = {m \in delivered : newest - m < Window}
      /\ Seen' = {m \in delivered' : newest' - m < Window}
  <2>1. SeenIsDelivered
    BY InvSeen
  <2>2. Inv' => SeenIsDelivered'
    BY InvSeen, PTL
  <2> QED
    BY <2>1, <2>2 DEF SeenIsDelivered
<1>3. /\ newest \in -1..(MaxSent - 1)
      /\ \A m \in delivered : m \in Nat /\ m <= newest /\ newest - m < Half
      /\ initialized <=> newest >= 0
  BY DEF Inv, TypeOK, Placement
<1>4. \A m \in Seen : m < newest + 1 /\ m \in Nat
  BY <1>2, <1>3
<1>5. CASE newest = -1
  <2>1. ~initialized /\ delivered = {}
    BY <1>3, <1>5
  <2>2. verdict' = "Ok" /\ newest' = n /\ Seen' = {n} /\ Seen = {}
    BY <1>1, <1>2, <1>3, <2>1 DEF CheckAndUpdate
  <2>3. Ideal!Fresh(n)
    BY <1>5 DEF Ideal!Fresh
  <2>4. Seen' = {m \in Seen \cup {n} : newest' - m < Window}
    BY <2>2
  <2> QED
    BY <1>1, <1>5, <2>2, <2>3, <2>4 DEF Ideal!Arrive, Seen
<1>6. CASE newest # -1
  <2>1. initialized
    BY <1>3, <1>6
  <2>2. Ideal!Fresh(n) <=> n \notin Seen /\ newest - n < Window
    BY <1>6 DEF Ideal!Fresh, Seen
  <2>3. GetBit(bitmap, newest - n) /\ newest - n \in 0..(Window - 1) => n \in Seen
    <3>1. newest - n \in 0..(Window - 1) => (GetBit(bitmap, newest - n) <=> n \in delivered)
      BY <2>1, BitIsDelivered
    <3> QED
      BY <1>2, <3>1
  <2>4. CASE verdict' = "ReplayDetected"
    <3>1. /\ newest - n \in 0..(Half - 1)
          /\ newest - n < Window => GetBit(bitmap, newest - n)
      BY <1>1, <2>4, CheckCases
    <3>2. ~Ideal!Fresh(n)
      BY <1>3, <2>2, <2>3, <3>1
    <3>3. newest' = newest
      BY <1>1, <2>4
    <3>4. delivered' = delivered
      BY <1>1, <1>3, <2>4, <3>3
    <3>5. Seen' = Seen
      BY <1>2, <3>3, <3>4
    <3> QED
      BY <1>1, <2>4, <3>2, <3>3, <3>5 DEF Ideal!Arrive, Seen
  <2>5. CASE verdict' = "Ok"
    <3>1. n > newest \/ (newest - n \in 1..(Window - 1) /\ ~GetBit(bitmap, newest - n))
      BY <1>1, <1>3, <2>1, <2>5, CheckCases
    <3>2. n \notin delivered
      <4>1. newest - n \in 0..(Window - 1) => (GetBit(bitmap, newest - n) <=> n \in delivered)
        BY <2>1, BitIsDelivered
      <4> QED
        BY <1>3, <3>1, <4>1
    <3>3. Ideal!Fresh(n)
      BY <1>2, <1>3, <2>2, <3>1, <3>2
    <3>4. newest' = (IF n > newest THEN n ELSE newest) /\ newest' >= newest
      BY <1>1, <1>3, <2>5
    <3>5. delivered' = {m \in delivered \cup {n} : newest' - m < Half}
      BY <1>1, <2>5
    <3>6. ASSUME NEW m
          PROVE  m \in Seen' <=> m \in Seen \cup {n} /\ newest' - m < Window
      BY <1>2, <1>3, <3>4, <3>5
    <3>7. Seen' = {m \in Seen \cup {n} : newest' - m < Window}
      BY <3>6
    <3> QED
      BY <1>1, <2>5, <3>3, <3>4, <3>7 DEF Ideal!Arrive, Seen
  <2> QED
    BY <1>1, <2>4, <2>5 DEF CheckAndUpdate
<1> QED
  BY <1>5, <1>6

\* decrypt gives every packet the verdict of ReplayWindow over numbers that never
\* wrap: each of its steps is a step of the ideal window or none of its business.
THEOREM WindowImplementsIdeal == Spec => ImplementsIdealWindow
<1>1. Init => Ideal!Init
  BY DEF Init, Ideal!Init
<1>2. ASSUME Inv, Inv', [Next]_vars
      PROVE  [Ideal!Next]_Ideal!vars
  <2>1. ASSUME NEW n \in 0..(MaxSent - 1), Receive(n), KeyOf(n) = recvKey
        PROVE  Ideal!Next
    BY <1>2, <2>1, ArriveStep DEF Ideal!Next
  <2>2. CASE UNCHANGED <<newest, initialized, bitmap, last, verdict>>
    <3>1. UNCHANGED Ideal!vars
      BY <2>2 DEF Ideal!vars, GetBit
    <3> QED
      BY <3>1
  <2> QED
    BY <1>2, <2>1, <2>2
       DEF Next, Send, Receive, InitiateRekey, CompleteRekey, vars, window
<1>3. Inv /\ Inv' /\ [Next]_vars => [Ideal!Next]_Ideal!vars
  BY <1>2
<1> QED
  BY <1>1, <1>3, Inductive, PTL DEF Spec, ImplementsIdealWindow, Ideal!Spec

-----------------------------------------------------------------------------
(* The jitter buffer: JitterBuffer *)

\* The largest number of packets one sender can have sent.
MaxNumber == First + MaxEmitted

\* The numbers do not wrap: 2^32 frames of 20 ms last 2.7 years.
NotWrapped == MaxSenders * MaxNumber + Reach + HalfWindow <= SeqMod

\* A packet that the network delays is not as late as a new sender's: it is
\* overtaken by fewer than half of the 100 packets that push asks for.
SmallReach == Reach >= 1 /\ ResetDistance >= 2 * Reach

Types == JitterTypeOK /\ IsFiniteSet(buffer)

\* Nothing waits before the first packet, nothing is heard before playout.
Fresh == /\ ~begun => buffer = {} /\ ~played
         /\ ~played => heard = -1

\* The present sender's packets on the way, in the buffer and played.
Numbered == /\ IsFiniteSet(arriving)
            /\ \A p \in arriving : p.src = sender /\ p.n < emitted /\ emitted - p.n <= Reach
            /\ \A p \in buffer : p.src <= sender /\ (p.src = sender => p.n < emitted)
            /\ heard < next

\* Every packet moves playout by one and is then no longer on the way.  So
\* playout, once it is at the sender's numbers, never gets further ahead than
\* by what is on the way, and before that by what former senders have sent.
Near == /\ next + Cardinality(arriving) <= (sender - 1) * MaxNumber + emitted + Reach
        /\ heard >= 0 => next + Cardinality(arriving) <= emitted + Reach

OrderInv == Types /\ Fresh /\ Numbered /\ Near

-----------------------------------------------------------------------------
\* The constants are numbers.
LEMMA Bounds ==
  /\ SeqMod \in Nat \ {0} /\ HalfWindow \in Nat \ {0} /\ 2 * HalfWindow <= SeqMod
  /\ ResetDistance < HalfWindow
  /\ MaxDepth \in Nat \ {0} /\ MinDepth \in Nat \ {0} /\ MaxSenders \in Nat \ {0}
  /\ MaxEmitted \in Nat \ {0} /\ First \in Nat
  /\ ResetDistance \in Nat /\ Reach \in Nat
<1>1. HalfWindow \in Nat \ {0} /\ SeqMod \in Nat \ {0}
  BY BoundsAssumption
<1>2. MaxDepth \in Nat \ {0} /\ MinDepth \in Nat \ {0} /\ MaxSenders \in Nat \ {0}
  BY BoundsAssumption
<1>3. MaxEmitted \in Nat \ {0}
  BY BoundsAssumption
<1>4. ResetDistance \in Nat /\ Reach \in Nat /\ First \in Nat
  BY BoundsAssumption
<1>5. 2 * HalfWindow <= SeqMod /\ ResetDistance < HalfWindow
  BY BoundsAssumption
<1> QED
  BY <1>1, <1>2, <1>3, <1>4, <1>5

\* A packet's number, and the sequence number it is sent with.
LEMMA SeqRange ==
  ASSUME NEW p \in Packet
  PROVE  p.n \in Nat /\ p.n <= First + MaxEmitted - 1 /\ Seq(p) \in Nat
<1>1. p.n \in Nat /\ p.n <= First + MaxEmitted - 1
  BY Bounds DEF Packet
<1>2. SeqMod \in Nat /\ SeqMod > 0 /\ p.n \in Int
  BY <1>1, Bounds
<1>3. Seq(p) \in 0..SeqMod - 1
  BY <1>2, DivMod DEF Seq
<1> QED
  BY <1>1, <1>2, <1>3

\* A difference of sequence numbers is one.
LEMMA MinusRange ==
  ASSUME NEW a \in Int, NEW b \in Int
  PROVE  Minus(a, b) \in Nat
<1>1. SeqMod \in Nat /\ SeqMod > 0 /\ a - b \in Int
  BY Bounds
<1>2. Minus(a, b) \in 0..SeqMod - 1
  BY <1>1, DivMod DEF Minus
<1> QED
  BY <1>1, <1>2

\* A number that is less than one turn away from the range wraps once.
LEMMA WrapsOnce ==
  ASSUME NEW a \in Int
  PROVE  /\ 0 <= a /\ a < SeqMod => a % SeqMod = a
         /\ a < 0 /\ -a <= SeqMod => a % SeqMod = a + SeqMod
<1>1. SeqMod \in Nat \ {0}
  BY Bounds
<1>2. ASSUME NEW q \in Int, NEW r \in 0..(SeqMod - 1), a = q * SeqMod + r
      PROVE  a % SeqMod = r
  BY <1>1, <1>2, DivModUnique
<1>3. CASE a < 0 /\ -a <= SeqMod
  <2>1. a = (-1) * SeqMod + (a + SeqMod) /\ a + SeqMod \in 0..(SeqMod - 1) /\ -1 \in Int
    BY <1>1, <1>3
  <2> QED
    BY <1>2, <1>3, <2>1
<1>4. CASE 0 <= a /\ a < SeqMod
  <2>1. a = 0 * SeqMod + a /\ a \in 0..(SeqMod - 1)
    BY <1>1, <1>4
  <2> QED
    BY <1>2, <1>4, <2>1
<1> QED
  BY <1>3, <1>4

\* Some packet of a finite buffer has the smallest sequence number.
LEMMA OldestExists ==
  ASSUME NEW B \in SUBSET Packet, IsFiniteSet(B), B # {}
  PROVE  \E x \in B : \A q \in B : Seq(x) <= Seq(q)
<1> DEFINE Below(x) == {q \in B : Seq(q) < Seq(x)}
           T == {D \in SUBSET B : \E x \in B : D = Below(x)}
<1>1. \A q \in B : Seq(q) \in Nat
  BY SeqRange
<1>2. IsWellFoundedOn(StrictSubsetOrdering(B), FiniteSubsetsOf(B))
  BY FS_StrictSubsetOrderingWellFounded
<1>3. FiniteSubsetsOf(B) = SUBSET B
  BY FS_FiniteSubsetsOfFinite
<1>4. T \subseteq SUBSET B /\ T # {}
  <2>1. PICK x \in B : TRUE
    OBVIOUS
  <2>2. Below(x) \in T
    OBVIOUS
  <2> QED
    BY <2>2
<1>5. \E D \in T : \A E \in T : ~(<<E, D>> \in StrictSubsetOrdering(B))
  <2> HIDE DEF T
  <2> QED
    BY <1>2, <1>3, <1>4, WFMin
<1>6. PICK D \in T : \A E \in T : ~(<<E, D>> \in StrictSubsetOrdering(B))
  BY <1>5
<1>7. PICK x \in B : D = Below(x)
  OBVIOUS
<1>8. ASSUME NEW q \in B, ~(Seq(x) <= Seq(q))
      PROVE  FALSE
  <2>1. Seq(q) < Seq(x)
    BY <1>1, <1>8
  <2>2. Below(q) \subseteq Below(x) /\ q \in Below(x) /\ q \notin Below(q)
    BY <1>1, <2>1
  <2>3. Below(q) \in T
    OBVIOUS
  <2>4. <<Below(q), D>> \in StrictSubsetOrdering(B)
    BY <1>7, <2>2 DEF StrictSubsetOrdering
  <2> QED
    BY <1>6, <2>3, <2>4
<1> QED
  BY <1>8

-----------------------------------------------------------------------------
(* Types and depth *)

\* What overflows a buffer of one packet too many is at least one packet.
LEMMA OverflowFits ==
  ASSUME NEW B \in SUBSET Packet, IsFiniteSet(B), Cardinality(B) <= MaxDepth + 1
  PROVE  /\ Overflow(B) \subseteq B
         /\ IsFiniteSet(B \ Overflow(B)) /\ Cardinality(B \ Overflow(B)) <= MaxDepth
<1>1. Cardinality(B) \in Nat /\ MaxDepth \in Nat \ {0}
  BY FS_CardinalityType, Bounds
<1>2. CASE Cardinality(B) <= MaxDepth
  <2>1. Overflow(B) = {} /\ B \ {} = B
    BY <1>2 DEF Overflow
  <2> QED
    BY <1>2, <2>1
<1>3. CASE ~(Cardinality(B) <= MaxDepth)
  <2>1. Overflow(B) = {q \in B : \A r \in B : Seq(q) <= Seq(r)}
    BY <1>3 DEF Overflow
  <2>2. B # {}
    BY <1>1, <1>3, FS_EmptySet
  <2>3. PICK x \in B : \A r \in B : Seq(x) <= Seq(r)
    BY <2>2, OldestExists
  <2>4. B \ Overflow(B) \subseteq B \ {x} /\ Overflow(B) \subseteq B
    BY <2>1, <2>3
  <2>5. IsFiniteSet(B \ {x}) /\ Cardinality(B \ {x}) = Cardinality(B) - 1
    BY FS_RemoveElement
  <2>6. IsFiniteSet(B \ Overflow(B)) /\ Cardinality(B \ Overflow(B)) <= Cardinality(B \ {x})
    BY <2>4, <2>5, FS_Subset
  <2>7. Cardinality(B \ Overflow(B)) \in Nat
    BY <2>6, FS_CardinalityType
  <2> QED
    BY <1>1, <2>4, <2>5, <2>6, <2>7
<1> QED
  BY <1>2, <1>3

\* Where playout goes past what overflows is a number.
LEMMA PastIsNat ==
  ASSUME NEW O \in SUBSET Packet, NEW from \in Nat
  PROVE  Past(O, from) \in Nat
<1> DEFINE to == {q \in O : SeqBefore(from, q.n + 1)}
<1>1. CASE to = {}
  BY <1>1 DEF Past
<1>2. CASE to # {}
  <2>1. PICK x : x = CHOOSE q \in to : TRUE
    OBVIOUS
  <2>2. x \in Packet
    BY <1>2, <2>1
  <2>3. x.n + 1 \in Int /\ from \in Int
    BY <2>2, SeqRange
  <2>4. Minus(x.n + 1, from) \in Nat
    BY <2>3, MinusRange
  <2>5. Past(O, from) = from + Minus(x.n + 1, from)
    BY <1>2, <2>1 DEF Past
  <2> QED
    BY <2>4, <2>5
<1> QED
  BY <1>1, <1>2

\* push keeps the buffer within max_depth, one packet for a sequence number.
LEMMA PushFits ==
  ASSUME Types, NEW p \in Packet, NEW s, s = Pushed(p)
  PROVE  /\ s.buffer \subseteq buffer \cup {p} /\ IsFiniteSet(s.buffer)
         /\ Cardinality(s.buffer) <= MaxDepth
         /\ \A q, r \in s.buffer : Seq(q) = Seq(r) => q = r
         /\ s.next \in Nat
<1> USE DEF Types
<1>1. /\ IsFiniteSet(buffer) /\ buffer \subseteq Packet /\ Cardinality(buffer) <= MaxDepth
      /\ \A q, r \in buffer : Seq(q) = Seq(r) => q = r
      /\ next \in Nat
  BY DEF JitterTypeOK
<1>2. Expected(p) \in Nat /\ From(p) \in Nat
  BY <1>1, SeqRange DEF Expected, From
<1>3. CASE Refused(p)
  <2>1. s.buffer = buffer /\ s.next = Expected(p)
    BY <1>3 DEF Pushed
  <2> QED
    BY <1>1, <1>2, <2>1
<1>4. CASE ~Refused(p)
  <2> DEFINE B == Filled(p)
  <2>1. s.buffer = B \ Overflow(B) /\ s.next = Past(Overflow(B), From(p))
    BY <1>4 DEF Pushed
  <2>2. B \in SUBSET Packet /\ B \subseteq buffer \cup {p}
    BY <1>1 DEF Filled
  <2>3. IsFiniteSet(B) /\ Cardinality(B) <= MaxDepth + 1
    <3>1. p \notin buffer
      BY <1>4 DEF Refused, Duplicate
    <3>2. IsFiniteSet(buffer \cup {p}) /\ Cardinality(buffer \cup {p}) = Cardinality(buffer) + 1
      BY <1>1, <3>1, FS_AddElement
    <3>3. IsFiniteSet(B) /\ Cardinality(B) <= Cardinality(buffer \cup {p})
      BY <2>2, <3>2, FS_Subset
    <3>4. Cardinality(buffer) \in Nat /\ MaxDepth \in Nat /\ Cardinality(B) \in Nat
      BY <1>1, <3>3, FS_CardinalityType, Bounds
    <3> QED
      BY <1>1, <3>2, <3>3, <3>4
  <2>4. \A q, r \in B : Seq(q) = Seq(r) => q = r
    BY <1>1, <1>4 DEF Filled, Refused, Duplicate
  <2> HIDE DEF B
  <2>5. /\ Overflow(B) \subseteq B /\ IsFiniteSet(B \ Overflow(B))
        /\ Cardinality(B \ Overflow(B)) <= MaxDepth
    BY <2>2, <2>3, OverflowFits
  <2>6. Overflow(B) \in SUBSET Packet
    BY <2>2, <2>5
  <2>7. s.next \in Nat
    BY <1>2, <2>1, <2>6, PastIsNat
  <2> QED
    BY <2>1, <2>2, <2>4, <2>5, <2>7
<1> QED
  BY <1>3, <1>4

\* A packet that arrives leaves everything of its type.
LEMMA ArriveTypes ==
  ASSUME Types, Arrive
  PROVE  Types'
<1> USE DEF Types
<1>1. PICK p \in arriving : arriving' = arriving \ {p} /\ DecodeNext(Pushed(p))
  BY DEF Arrive
<1>2. p \in Packet /\ buffer \subseteq Packet /\ arriving \subseteq Packet
  BY DEF JitterTypeOK
<1>3. PICK s : s = Pushed(p)
  OBVIOUS
<1>4. /\ s.buffer \subseteq buffer \cup {p} /\ IsFiniteSet(s.buffer)
      /\ Cardinality(s.buffer) <= MaxDepth
      /\ \A q, r \in s.buffer : Seq(q) = Seq(r) => q = r
      /\ s.next \in Nat
  BY <1>2, <1>3, PushFits
<1>5. DecodeNext(s)
  BY <1>1, <1>3
<1>6. begun' = TRUE /\ UNCHANGED <<sender, emitted>>
  BY DEF Arrive
<1>7. /\ buffer' \subseteq s.buffer /\ next' \in Nat /\ played' \in BOOLEAN
      /\ heard' \in -1..First + MaxEmitted - 1
  <2>1. CASE Wait(s.buffer, s.next)
    BY <1>4, <2>1 DEF Wait, JitterTypeOK
  <2>2. CASE Pop(s.buffer, s.next)
    <3>1. PICK due : due = {q \in s.buffer : Seq(q) = s.next % SeqMod}
      OBVIOUS
    <3>2. /\ buffer' = s.buffer \ due
          /\ played' = (played \/ due # {})
          /\ \/ due = {} /\ next' = s.next + 1 /\ heard' = heard
             \/ \E q \in due : /\ next' = (IF q.src = sender THEN q.n ELSE s.next) + 1
                              /\ heard' = IF q.src = sender THEN q.n ELSE heard
      BY <2>2, <3>1 DEF Pop
    <3>3. \A q \in due : q.n \in Nat /\ q.n <= First + MaxEmitted - 1
      BY <1>2, <1>4, <3>1, SeqRange
    <3>4. heard \in -1..First + MaxEmitted - 1 /\ First \in Nat /\ MaxEmitted \in Nat
      BY Bounds DEF JitterTypeOK
    <3>5. next' \in Nat
      BY <1>4, <3>2, <3>3
    <3>6. heard' \in -1..First + MaxEmitted - 1
      BY <3>2, <3>3, <3>4
    <3>7. played' \in BOOLEAN
      BY <3>2
    <3> QED
      BY <3>2, <3>5, <3>6, <3>7
  <2> QED
    BY <1>5, <2>1, <2>2 DEF DecodeNext
<1>8. IsFiniteSet(buffer') /\ Cardinality(buffer') <= MaxDepth
  <2>1. IsFiniteSet(buffer') /\ Cardinality(buffer') <= Cardinality(s.buffer)
    BY <1>4, <1>7, FS_Subset
  <2>2. Cardinality(buffer') \in Nat /\ Cardinality(s.buffer) \in Nat /\ MaxDepth \in Nat
    BY <1>4, <2>1, FS_CardinalityType, Bounds
  <2> QED
    BY <1>4, <2>1, <2>2
<1>9. buffer' \subseteq Packet /\ arriving' \subseteq Packet
  BY <1>1, <1>2, <1>4, <1>7
<1>10. \A q, r \in buffer' : Seq(q)' = Seq(r)' => q = r
  BY <1>4, <1>7 DEF Seq
<1> QED
  BY <1>6, <1>7, <1>8, <1>9, <1>10 DEF JitterTypeOK, Seq

\* Every step leaves everything of its type.
LEMMA TypesStep ==
  ASSUME Types, [JitterNext]_(jitterVars)
  PROVE  Types'
<1>0. /\ First \in Nat /\ MaxEmitted \in Nat \ {0} /\ MaxSenders \in Nat \ {0}
  BY Bounds
<1>1. CASE UNCHANGED jitterVars
  BY <1>1 DEF jitterVars, Types, JitterTypeOK, Seq
<1>2. CASE SendNext
  <2>1. sender \in 1..MaxSenders /\ emitted \in 0..First + MaxEmitted
    BY DEF Types, JitterTypeOK
  <2>2. emitted < First + MaxEmitted
    BY <1>0, <1>2, <2>1 DEF SendNext
  <2>3. [src |-> sender, n |-> emitted] \in Packet /\ emitted' \in 0..First + MaxEmitted
    BY <1>0, <1>2, <2>1, <2>2 DEF SendNext, Packet
  <2>4. arriving' \subseteq Packet
    BY <1>2, <2>3 DEF SendNext, Types, JitterTypeOK
  <2> QED
    BY <1>2, <2>3, <2>4 DEF SendNext, Types, JitterTypeOK, Seq
<1>3. CASE Lose
  BY <1>3 DEF Lose, Types, JitterTypeOK, Seq
<1>4. CASE NewSender
  <2>1. sender' \in 1..MaxSenders /\ 0 \in 0..First + MaxEmitted /\ -1 \in -1..First + MaxEmitted - 1
    BY <1>0, <1>4 DEF NewSender, Types, JitterTypeOK
  <2> QED
    BY <1>4, <2>1 DEF NewSender, Types, JitterTypeOK, Seq
<1>5. CASE Arrive
  BY <1>5, ArriveTypes
<1> QED
  BY <1>1, <1>2, <1>3, <1>4, <1>5 DEF JitterNext

\* At first there is nothing to play.
LEMMA TypesInit == JitterInit => Types
<1>1. IsFiniteSet({}) /\ Cardinality({}) = 0
  BY FS_EmptySet
<1>2. 1 \in 1..MaxSenders /\ First \in 0..First + MaxEmitted
      /\ -1 \in -1..First + MaxEmitted - 1 /\ 0 <= MaxDepth
  BY Bounds
<1>3. SUFFICES ASSUME JitterInit
               PROVE  Types
  OBVIOUS
<1>4. /\ sender = 1 /\ emitted = First /\ arriving = {} /\ buffer = {} /\ next = 0
      /\ begun = FALSE /\ played = FALSE /\ heard = -1
  BY <1>3 DEF JitterInit
<1>5. Cardinality(buffer) <= MaxDepth /\ IsFiniteSet(buffer)
  BY <1>1, <1>2, <1>4
<1> QED
  BY <1>2, <1>4, <1>5 DEF Types, JitterTypeOK

\* The states stay of their types, two packets never wait under one sequence
\* number, and push never lets the buffer grow beyond max_depth, however long
\* the call is and however often its numbers wrap.
THEOREM JitterStaysTyped == JitterSpec => []JitterTypeOK
<1>1. Types => JitterTypeOK
  BY DEF Types
<1>2. Types /\ [JitterNext]_(jitterVars) => Types'
  BY TypesStep
<1> QED
  BY TypesInit, <1>1, <1>2, PTL DEF JitterSpec

-----------------------------------------------------------------------------
(* Heard in order *)

\* What former senders and the present one have sent together, with what the
\* network may still carry, is less than what the numbers wrap at.
LEMMA BelowTop ==
  ASSUME NotWrapped, NEW s \in 1..MaxSenders
  PROVE  /\ MaxNumber \in Nat \ {0} /\ s * MaxNumber \in Nat /\ (s - 1) * MaxNumber \in Nat
         /\ (s - 1) * MaxNumber + MaxNumber = s * MaxNumber
         /\ s * MaxNumber + Reach + HalfWindow <= SeqMod
<1>1. MaxNumber \in Nat \ {0} /\ MaxSenders \in Nat \ {0} /\ s \in Nat /\ s - 1 \in Nat
      /\ MaxSenders - s \in Nat
  BY Bounds DEF MaxNumber
<1>2. ASSUME NEW a \in Nat, NEW b \in Nat
      PROVE  a * b \in Nat
  BY <1>2
<1>3. ASSUME NEW a \in Nat, NEW b \in Nat, NEW c \in Nat
      PROVE  (a + b) * c = a * c + b * c
  BY <1>3
<1>4. s * MaxNumber \in Nat /\ (s - 1) * MaxNumber \in Nat /\ (MaxSenders - s) * MaxNumber \in Nat
      /\ MaxSenders * MaxNumber \in Nat
  BY <1>1, <1>2
<1>5. ((s - 1) + 1) * MaxNumber = (s - 1) * MaxNumber + 1 * MaxNumber
  BY <1>1, <1>3
<1>6. (s - 1) + 1 = s /\ 1 * MaxNumber = MaxNumber
  BY <1>1
<1>7. (s - 1) * MaxNumber + MaxNumber = s * MaxNumber
  BY <1>5, <1>6
<1>8. (s + (MaxSenders - s)) * MaxNumber = s * MaxNumber + (MaxSenders - s) * MaxNumber
  BY <1>1, <1>3
<1>9. s + (MaxSenders - s) = MaxSenders
  BY <1>1
<1>10. s * MaxNumber <= MaxSenders * MaxNumber
  BY <1>4, <1>8, <1>9
<1>11. s * MaxNumber + Reach + HalfWindow <= SeqMod
  BY <1>4, <1>10, Bounds DEF NotWrapped
<1> QED
  BY <1>1, <1>4, <1>7, <1>11

\* Below the wrap, seq_before is the order of the numbers, as far as it looks.
LEMMA SeesOrder ==
  ASSUME NEW a \in Nat, NEW b \in Nat,
         a + HalfWindow <= SeqMod, b + HalfWindow <= SeqMod
  PROVE  /\ a % SeqMod = a
         /\ a <= b => Minus(b, a) = b - a
         /\ SeqBefore(a, b) => a < b
         /\ a < b /\ b - a < HalfWindow => SeqBefore(a, b)
<1>1. SeqMod \in Nat \ {0} /\ HalfWindow \in Nat \ {0}
  BY Bounds
<1>2. a < SeqMod /\ b < SeqMod
  BY <1>1
<1>3. a % SeqMod = a
  BY <1>2, WrapsOnce
<1>4. a <= b => Minus(b, a) = b - a
  BY <1>1, <1>2, WrapsOnce DEF Minus
<1>5. b < a => Minus(b, a) = b - a + SeqMod
  <2>1. SUFFICES ASSUME b < a
                 PROVE  Minus(b, a) = b - a + SeqMod
    OBVIOUS
  <2>2. b - a \in Int /\ b - a < 0 /\ -(b - a) <= SeqMod
    BY <1>1, <1>2, <2>1
  <2> QED
    BY <2>2, WrapsOnce DEF Minus
<1>6. b < a => b - a + SeqMod >= HalfWindow
  BY <1>1
<1>7. SeqBefore(a, b) => a < b
  <2>1. CASE b < a
    BY <1>1, <1>5, <1>6, <2>1 DEF SeqBefore
  <2>2. CASE a = b
    BY <1>1, <1>4, <2>2 DEF SeqBefore
  <2> QED
    BY <2>1, <2>2
<1>8. a < b /\ b - a < HalfWindow => SeqBefore(a, b)
  BY <1>1, <1>4 DEF SeqBefore
<1> QED
  BY <1>3, <1>4, <1>7, <1>8

\* The numbers that push and pop compare are below the wrap.
LEMMA NumbersFit ==
  ASSUME NotWrapped, OrderInv
  PROVE  /\ next \in Nat /\ next + HalfWindow <= SeqMod
         /\ \A p \in Packet : p.n \in Nat /\ p.n + 1 + HalfWindow <= SeqMod
         /\ emitted \in Nat /\ emitted <= MaxNumber /\ MaxNumber \in Nat
<1>1. sender \in 1..MaxSenders /\ emitted \in 0..MaxNumber /\ next \in Nat
      /\ IsFiniteSet(arriving) /\ Cardinality(arriving) \in Nat
  <2>1. sender \in 1..MaxSenders /\ emitted \in 0..First + MaxEmitted /\ next \in Nat
    BY DEF OrderInv, Types, JitterTypeOK
  <2>2. IsFiniteSet(arriving)
    BY DEF OrderInv, Numbered
  <2> QED
    BY <2>1, <2>2, FS_CardinalityType DEF MaxNumber
<1>2. /\ MaxNumber \in Nat \ {0} /\ (sender - 1) * MaxNumber \in Nat
      /\ (sender - 1) * MaxNumber + MaxNumber = sender * MaxNumber
      /\ sender * MaxNumber + Reach + HalfWindow <= SeqMod
      /\ sender * MaxNumber \in Nat
  BY <1>1, BelowTop
<1>3. Reach \in Nat /\ HalfWindow \in Nat /\ SeqMod \in Nat
  BY Bounds
<1>4. next + Cardinality(arriving) <= (sender - 1) * MaxNumber + emitted + Reach
  BY DEF OrderInv, Near
<1>5. next <= sender * MaxNumber + Reach
  BY <1>1, <1>2, <1>3, <1>4
<1>6. MaxNumber <= sender * MaxNumber
  BY <1>2
<1>7. \A p \in Packet : p.n \in Nat /\ p.n + 1 <= MaxNumber
  BY SeqRange, Bounds DEF MaxNumber
<1>8. \A p \in Packet : p.n + 1 + HalfWindow <= SeqMod
  BY <1>2, <1>3, <1>6, <1>7
<1> QED
  BY <1>1, <1>2, <1>3, <1>5, <1>7, <1>8

\* The present sender's packets on the way are at most Reach.
LEMMA FewOnTheWay ==
  ASSUME NEW S \in SUBSET Packet, NEW s, NEW e \in Nat, NEW w \in Nat,
         \A p \in S : p.src = s /\ p.n < e /\ e - p.n <= w
  PROVE  IsFiniteSet(S) /\ Cardinality(S) <= w
<1> DEFINE f == [p \in S |-> p.n]
<1>1. \A p \in S : p.n \in (e - w)..(e - 1)
  BY SeqRange
<1>2. f \in [S -> (e - w)..(e - 1)]
  BY <1>1
<1>3. \A p, q \in S : p.n = q.n => p = q
  BY DEF Packet
<1>4. f \in Injection(S, (e - w)..(e - 1))
  BY <1>2, <1>3 DEF Injection, IsInjective
<1>5. /\ IsFiniteSet((e - w)..(e - 1))
      /\ Cardinality((e - w)..(e - 1)) = IF e - w > e - 1 THEN 0 ELSE (e - 1) - (e - w) + 1
  BY FS_Interval
<1>6. Cardinality((e - w)..(e - 1)) = w
  BY <1>5
<1> HIDE DEF f
<1> QED
  BY <1>4, <1>5, <1>6, FS_Injection

\* What push does to playout: nothing, or it goes to the packet, or just past
\* one that is not later; and it never rewinds for the sender that is heard.
LEMMA PushMoves ==
  ASSUME NotWrapped, SmallReach, OrderInv, NEW p \in arriving,
         NEW s, s = Pushed(p)
  PROVE  /\ s.buffer \subseteq buffer \cup {p} /\ s.next \in Nat
         /\ s.next = next \/ s.next <= p.n + 1
         /\ s.next >= next \/ heard = -1
<1> USE DEF OrderInv
<1>1. /\ p \in Packet /\ p.src = sender /\ p.n < emitted /\ emitted - p.n <= Reach
  BY DEF Types, JitterTypeOK, Numbered
<1>2. /\ next \in Nat /\ next + HalfWindow <= SeqMod
      /\ \A q \in Packet : q.n \in Nat /\ q.n + 1 + HalfWindow <= SeqMod
      /\ emitted \in Nat
  BY NumbersFit
<1>3. p.n \in Nat /\ p.n + 1 + HalfWindow <= SeqMod
  BY <1>1, <1>2
<1>4. Reach \in Nat /\ ResetDistance \in Nat /\ HalfWindow \in Nat /\ SeqMod \in Nat
  BY Bounds
<1>5. s.buffer \subseteq buffer \cup {p} /\ s.next \in Nat
  BY <1>1, PushFits
<1>6. heard \in Int /\ heard >= -1
  BY DEF Types, JitterTypeOK
<1>7. ~played => heard = -1
  BY DEF Fresh
<1>8. played => begun
  BY DEF Fresh
<1>9. FromNewSender(p) => heard = -1
  <2>1. SUFFICES ASSUME FromNewSender(p), heard >= 0
                 PROVE  FALSE
    BY <1>6
  <2>2. played /\ SeqBefore(p.n, next) /\ Minus(next, p.n) > ResetDistance
    BY <1>8, <2>1 DEF FromNewSender, Late, Expected
  <2>3. p.n < next /\ Minus(next, p.n) = next - p.n
    BY <1>2, <1>3, <1>4, <2>2, SeesOrder
  <2>4. next + Cardinality(arriving) <= emitted + Reach
    BY <2>1 DEF Near
  <2>5. Cardinality(arriving) >= 1 /\ Cardinality(arriving) \in Nat
    <3>1. IsFiniteSet(arriving)
      BY DEF Numbered
    <3> QED
      BY <3>1, FS_CardinalityType, FS_EmptySet
  <2> QED
    BY <1>1, <1>2, <1>3, <1>4, <2>2, <2>3, <2>4, <2>5 DEF SmallReach
<1>10. /\ From(p) \in Nat /\ From(p) + HalfWindow <= SeqMod
       /\ From(p) = next \/ From(p) <= p.n
       /\ From(p) >= next \/ heard = -1
  <2>1. Expected(p) = next \/ (Expected(p) = p.n /\ ~begun)
    BY DEF Expected
  <2>2. From(p) = Expected(p) \/ From(p) = p.n
    BY DEF From
  <2>3. From(p) # Expected(p) => FromNewSender(p) \/ ~played
    BY DEF From
  <2> QED
    BY <1>2, <1>3, <1>4, <1>7, <1>8, <1>9, <2>1, <2>2, <2>3
<1>11. CASE Refused(p)
  <2>1. s.next = Expected(p)
    BY <1>11 DEF Pushed
  <2>2. Expected(p) = next \/ (Expected(p) = p.n /\ ~begun)
    BY DEF Expected
  <2> QED
    BY <1>2, <1>3, <1>5, <1>7, <1>8, <2>1, <2>2
<1>12. CASE ~Refused(p)
  <2> DEFINE B == Filled(p)
             to == {q \in Overflow(B) : SeqBefore(From(p), q.n + 1)}
  <2>1. s.next = Past(Overflow(B), From(p))
    BY <1>12 DEF Pushed
  <2>2. CASE to = {}
    <3>1. s.next = From(p)
      BY <2>1, <2>2 DEF Past
    <3> QED
      BY <1>3, <1>5, <1>10, <3>1
  <2>3. CASE to # {}
    <3>1. PICK x : x = CHOOSE q \in to : TRUE
      OBVIOUS
    <3>2. x \in to
      BY <2>3, <3>1
    <3>3. s.next = From(p) + Minus(x.n + 1, From(p))
      BY <2>1, <2>3, <3>1 DEF Past
    <3>4. x \in B /\ \A r \in B : Seq(x) <= Seq(r)
      BY <3>2 DEF Overflow
    <3>5. p \in B /\ B \subseteq Packet
      BY <1>1 DEF Filled, Types, JitterTypeOK
    <3>6. x \in Packet /\ x.n \in Nat /\ x.n + 1 + HalfWindow <= SeqMod
      BY <1>2, <3>4, <3>5
    <3>7. x.n + HalfWindow <= SeqMod /\ p.n + HalfWindow <= SeqMod /\ x.n + 1 \in Nat
      BY <1>3, <1>4, <3>6
    <3>8. Seq(x) = x.n /\ Seq(p) = p.n
      BY <1>3, <3>6, <3>7, SeesOrder DEF Seq
    <3>9. x.n <= p.n
      BY <3>4, <3>5, <3>8
    <3>10. SeqBefore(From(p), x.n + 1)
      BY <3>2
    <3>11. From(p) < x.n + 1 /\ Minus(x.n + 1, From(p)) = x.n + 1 - From(p)
      BY <1>4, <1>10, <3>6, <3>7, <3>10, SeesOrder
    <3>12. s.next = x.n + 1
      BY <1>10, <3>3, <3>6, <3>11
    <3> QED
      BY <1>2, <1>3, <1>5, <1>10, <3>6, <3>9, <3>11, <3>12
  <2> QED
    BY <2>2, <2>3
<1> QED
  BY <1>5, <1>11, <1>12

\* A packet that arrives plays nothing, or the packet of playout's number.
LEMMA ArriveOrders ==
  ASSUME NotWrapped, SmallReach, OrderInv, Arrive
  PROVE  /\ Fresh' /\ Numbered' /\ Near'
         /\ heard' = heard \/ heard' > heard
<1> USE DEF OrderInv
<1>1. PICK p \in arriving : arriving' = arriving \ {p} /\ DecodeNext(Pushed(p))
  BY DEF Arrive
<1>2. PICK s : s = Pushed(p)
  OBVIOUS
<1>3. begun' = TRUE /\ UNCHANGED <<sender, emitted>> /\ DecodeNext(s)
  BY <1>1, <1>2 DEF Arrive
<1>4. /\ s.buffer \subseteq buffer \cup {p} /\ s.next \in Nat
      /\ s.next = next \/ s.next <= p.n + 1
      /\ s.next >= next \/ heard = -1
  BY <1>2, PushMoves
<1>5. /\ p \in Packet /\ p.src = sender /\ p.n < emitted /\ p.n \in Nat
      /\ s.buffer \subseteq Packet
  BY <1>4, SeqRange DEF Types, JitterTypeOK, Numbered
<1>6. /\ next \in Nat /\ next + HalfWindow <= SeqMod
      /\ \A q \in Packet : q.n \in Nat /\ q.n + 1 + HalfWindow <= SeqMod
      /\ emitted \in Nat
  BY NumbersFit
<1>7. Reach \in Nat /\ HalfWindow \in Nat /\ SeqMod \in Nat /\ HalfWindow >= 1
  BY Bounds
<1>8. heard \in Int /\ heard >= -1 /\ sender \in 1..MaxSenders /\ sender \in Nat /\ sender >= 1
  BY Bounds DEF Types, JitterTypeOK
<1>9. s.next + HalfWindow <= SeqMod
  BY <1>4, <1>5, <1>6, <1>7
<1>10. /\ IsFiniteSet(arriving') /\ Cardinality(arriving') \in Nat
       /\ Cardinality(arriving) \in Nat
       /\ Cardinality(arriving') = Cardinality(arriving) - 1
       /\ Cardinality(arriving') <= Reach - 1
  <2>1. IsFiniteSet(arriving) /\ Cardinality(arriving) <= Reach
    <3>1. arriving \in SUBSET Packet
      BY DEF Types, JitterTypeOK
    <3>2. \A q \in arriving : q.src = sender /\ q.n < emitted /\ emitted - q.n <= Reach
      BY DEF Numbered
    <3> QED
      BY <1>6, <1>7, <3>1, <3>2, FewOnTheWay
  <2>2. IsFiniteSet(arriving') /\ Cardinality(arriving') = Cardinality(arriving) - 1
    BY <1>1, <2>1, FS_RemoveElement
  <2>3. Cardinality(arriving) \in Nat /\ Cardinality(arriving') \in Nat
    BY <2>1, <2>2, FS_CardinalityType
  <2> QED
    BY <1>7, <2>1, <2>2, <2>3
<1>11. /\ \/ next' = s.next /\ heard' = heard /\ played' = played
          \/ /\ next' = s.next + 1
             /\ \/ heard' = heard
                \/ heard' = s.next /\ s.next < emitted /\ played'
             /\ played' \in BOOLEAN /\ (played => played')
       /\ buffer' \subseteq s.buffer
  <2>1. CASE Wait(s.buffer, s.next)
    BY <2>1 DEF Wait
  <2>2. CASE Pop(s.buffer, s.next)
    <3>1. PICK due : due = {q \in s.buffer : Seq(q) = s.next % SeqMod}
      OBVIOUS
    <3>2. /\ buffer' = s.buffer \ due
          /\ played' = (played \/ due # {})
          /\ \/ due = {} /\ next' = s.next + 1 /\ heard' = heard
             \/ \E q \in due : /\ next' = (IF q.src = sender THEN q.n ELSE s.next) + 1
                              /\ heard' = IF q.src = sender THEN q.n ELSE heard
      BY <2>2, <3>1 DEF Pop
    <3>3. \A q \in due : q \in s.buffer /\ q.n = s.next
      <4>1. s.next % SeqMod = s.next
        BY <1>4, <1>7, <1>9, SeesOrder
      <4>2. SUFFICES ASSUME NEW q \in due
                     PROVE  q \in s.buffer /\ q.n = s.next
        OBVIOUS
      <4>3. q \in s.buffer /\ Seq(q) = s.next % SeqMod
        BY <3>1
      <4>4. q.n \in Nat /\ q.n + 1 + HalfWindow <= SeqMod
        BY <1>5, <1>6, <4>3
      <4>5. q.n + HalfWindow <= SeqMod
        BY <1>7, <4>4
      <4>6. q.n % SeqMod = q.n
        BY <4>4, <4>5, SeesOrder
      <4> QED
        BY <4>1, <4>3, <4>6 DEF Seq
    <3>4. \A q \in s.buffer : q.src = sender => q.n < emitted
      BY <1>4, <1>5 DEF Numbered
    <3>5. CASE due = {}
      BY <3>2, <3>5
    <3>6. CASE due # {}
      <4>1. PICK q \in due : /\ next' = (IF q.src = sender THEN q.n ELSE s.next) + 1
                             /\ heard' = IF q.src = sender THEN q.n ELSE heard
        BY <3>2, <3>6
      <4>2. q \in s.buffer /\ q.n = s.next
        BY <3>3
      <4>3. played' = TRUE
        BY <3>2, <3>6
      <4>4. CASE q.src = sender
        BY <3>2, <3>4, <4>1, <4>2, <4>3, <4>4
      <4>5. CASE q.src # sender
        BY <3>2, <4>1, <4>2, <4>3, <4>5
      <4> QED
        BY <4>4, <4>5
    <3> QED
      BY <3>5, <3>6
  <2> QED
    BY <1>3, <2>1, <2>2 DEF DecodeNext
<1>12. heard < next /\ (heard < s.next)
  BY <1>4, <1>6, <1>8 DEF Numbered
<1>13. heard' < next' /\ (heard' = heard \/ heard' > heard)
  BY <1>4, <1>8, <1>11, <1>12
<1>14. Fresh'
  BY <1>3, <1>11 DEF Fresh, Types, JitterTypeOK
<1>15. Numbered'
  <2>1. \A q \in arriving' : q.src = sender' /\ q.n < emitted' /\ emitted' - q.n <= Reach
    BY <1>1, <1>3 DEF Numbered
  <2>2. \A q \in buffer' : q.src <= sender' /\ (q.src = sender' => q.n < emitted')
    BY <1>3, <1>4, <1>5, <1>8, <1>11 DEF Numbered
  <2> QED
    BY <1>10, <1>13, <2>1, <2>2 DEF Numbered
<1>16. next' <= s.next + 1 /\ next' \in Nat
  BY <1>4, <1>11
<1>17. next' + Cardinality(arriving') <= (sender - 1) * MaxNumber + emitted + Reach
  <2>1. (sender - 1) * MaxNumber \in Nat
    BY <1>8, BelowTop
  <2>2. CASE s.next = next
    <3>1. next + Cardinality(arriving) <= (sender - 1) * MaxNumber + emitted + Reach
      BY DEF Near
    <3> QED
      BY <1>6, <1>7, <1>10, <1>16, <2>1, <2>2, <3>1
  <2>3. CASE s.next <= p.n + 1
    BY <1>4, <1>5, <1>6, <1>7, <1>10, <1>16, <2>1, <2>3
  <2> QED
    BY <1>4, <2>2, <2>3
<1>18. ASSUME heard' >= 0
       PROVE  next' + Cardinality(arriving') <= emitted + Reach
  <2>1. CASE s.next <= p.n + 1
    BY <1>4, <1>5, <1>6, <1>7, <1>10, <1>16, <2>1
  <2>2. CASE s.next = next /\ heard >= 0
    <3>1. next + Cardinality(arriving) <= emitted + Reach
      BY <2>2 DEF Near
    <3> QED
      BY <1>6, <1>7, <1>10, <1>16, <2>2, <3>1
  <2>3. CASE ~(heard >= 0)
    <3>1. s.next < emitted
      BY <1>11, <1>18, <2>3
    <3> QED
      BY <1>4, <1>6, <1>7, <1>10, <1>16, <3>1
  <2> QED
    BY <1>4, <2>1, <2>2, <2>3
<1> QED
  BY <1>3, <1>13, <1>14, <1>15, <1>17, <1>18 DEF Near

\* What is sent and what is lost leave playout where it is.
LEMMA NetworkOrders ==
  ASSUME NotWrapped, SmallReach, OrderInv, SendNext \/ Lose
  PROVE  Fresh' /\ Numbered' /\ Near'
<1> USE DEF OrderInv
<1>1. UNCHANGED <<sender, buffer, next, begun, played, heard>>
  BY DEF SendNext, Lose
<1>2. /\ IsFiniteSet(arriving) /\ Cardinality(arriving) \in Nat
      /\ arriving \subseteq Packet /\ buffer \subseteq Packet
      /\ emitted \in Nat /\ next \in Nat /\ sender \in 1..MaxSenders
      /\ Reach \in Nat
  BY FS_CardinalityType, Bounds, NumbersFit DEF Types, JitterTypeOK, Numbered
<1>3. (sender - 1) * MaxNumber \in Nat
  BY <1>2, BelowTop
<1>4. \A q \in Packet : q.n \in Nat
  BY SeqRange
<1>5. /\ \A q \in arriving' : q.src = sender /\ q.n < emitted' /\ emitted' - q.n <= Reach
      /\ IsFiniteSet(arriving') /\ Cardinality(arriving') \in Nat
      /\ emitted' \in Nat /\ emitted' >= emitted
      /\ Cardinality(arriving') - Cardinality(arriving) <= emitted' - emitted
  <2>1. CASE Lose
    <3>1. PICK q \in arriving : arriving' = arriving \ {q}
      BY <2>1 DEF Lose
    <3>2. IsFiniteSet(arriving') /\ Cardinality(arriving') = Cardinality(arriving) - 1
      BY <1>2, <3>1, FS_RemoveElement
    <3>3. Cardinality(arriving') \in Nat
      BY <3>2, FS_CardinalityType
    <3>4. emitted' = emitted
      BY <2>1 DEF Lose
    <3> QED
      BY <1>2, <3>1, <3>2, <3>3, <3>4 DEF Numbered
  <2>2. CASE SendNext
    <3> DEFINE old == {q \in arriving : emitted - q.n < Reach}
               new == [src |-> sender, n |-> emitted]
    <3>1. emitted' = emitted + 1 /\ arriving' = old \cup {new}
      BY <2>2 DEF SendNext
    <3>2. IsFiniteSet(old) /\ Cardinality(old) <= Cardinality(arriving)
      BY <1>2, FS_Subset
    <3>3. IsFiniteSet(arriving') /\ Cardinality(arriving') <= Cardinality(old) + 1
          /\ Cardinality(old) \in Nat
      <4> HIDE DEF old, new
      <4>1. Cardinality(old) \in Nat
        BY <3>2, FS_CardinalityType
      <4>2. /\ IsFiniteSet(old \cup {new})
            /\ Cardinality(old \cup {new}) = IF new \in old THEN Cardinality(old) ELSE Cardinality(old) + 1
        BY <3>2, FS_AddElement
      <4>3. Cardinality(old \cup {new}) <= Cardinality(old) + 1
        BY <4>1, <4>2
      <4> QED
        BY <3>1, <4>1, <4>2, <4>3
    <3>4. Cardinality(arriving') \in Nat
      BY <3>3, FS_CardinalityType
    <3>5. \A q \in old : q.src = sender /\ q.n < emitted + 1 /\ emitted + 1 - q.n <= Reach
      BY <1>2, <1>4 DEF Numbered
    <3>6. new.src = sender /\ new.n < emitted + 1 /\ emitted + 1 - new.n <= Reach
      BY <1>2 DEF SmallReach
    <3> HIDE DEF old, new
    <3>7. \A q \in arriving' : q.src = sender /\ q.n < emitted' /\ emitted' - q.n <= Reach
      <4>1. \A q \in arriving' : q \in old \/ q = new
        BY <3>1
      <4>2. SUFFICES ASSUME NEW q \in arriving'
                     PROVE  q.src = sender /\ q.n < emitted' /\ emitted' - q.n <= Reach
        OBVIOUS
      <4>3. q.src = sender /\ q.n < emitted + 1 /\ emitted + 1 - q.n <= Reach
        BY <3>5, <3>6, <4>1
      <4>4. emitted' = emitted + 1
        BY <3>1
      <4>5. q.n \in Nat
        BY <1>2, <1>4, <3>1, <4>1 DEF old, new
      <4> QED
        BY <1>2, <4>3, <4>4, <4>5
    <3> QED
      BY <1>2, <3>1, <3>2, <3>3, <3>4, <3>7
  <2> QED
    BY <2>1, <2>2
<1>6. Numbered'
  BY <1>1, <1>2, <1>4, <1>5 DEF Numbered
<1>7. Near'
  <2>1. ASSUME NEW m \in Nat, next + Cardinality(arriving) <= m + emitted + Reach
        PROVE  next + Cardinality(arriving') <= m + emitted' + Reach
    BY <1>2, <1>5, <2>1
  <2>2. next + Cardinality(arriving') <= (sender - 1) * MaxNumber + emitted' + Reach
    BY <1>3, <2>1 DEF Near
  <2>3. heard >= 0 => next + Cardinality(arriving') <= emitted' + Reach
    BY <1>2, <1>5 DEF Near
  <2> QED
    BY <1>1, <2>2, <2>3 DEF Near
<1> QED
  BY <1>1, <1>6, <1>7 DEF Fresh

\* A new sender finds playout where the senders before it have brought it.
LEMMA NewSenderOrders ==
  ASSUME NotWrapped, SmallReach, OrderInv, NewSender
  PROVE  Fresh' /\ Numbered' /\ Near'
<1> USE DEF OrderInv
<1>1. /\ sender' = sender + 1 /\ emitted' = 0 /\ arriving' = {} /\ heard' = -1
      /\ UNCHANGED <<buffer, next, begun, played>>
  BY DEF NewSender
<1>2. /\ IsFiniteSet(arriving) /\ Cardinality(arriving) \in Nat
      /\ buffer \subseteq Packet
      /\ emitted \in Nat /\ emitted <= MaxNumber /\ MaxNumber \in Nat
      /\ next \in Nat /\ sender \in 1..MaxSenders /\ sender \in Nat
      /\ Reach \in Nat
  BY FS_CardinalityType, Bounds, NumbersFit DEF Types, JitterTypeOK, Numbered
<1>3. /\ (sender - 1) * MaxNumber \in Nat /\ sender * MaxNumber \in Nat
      /\ (sender - 1) * MaxNumber + MaxNumber = sender * MaxNumber
  BY <1>2, BelowTop
<1>4. Cardinality(arriving') = 0 /\ IsFiniteSet(arriving')
  BY <1>1, FS_EmptySet
<1>5. Numbered'
  <2>1. \A p \in buffer : p.src <= sender /\ p.src \in Nat
    BY <1>2 DEF Numbered, Packet
  <2>2. \A p \in buffer : p.src <= sender + 1 /\ p.src # sender + 1
    BY <1>2, <2>1
  <2> QED
    BY <1>1, <1>2, <1>4, <2>2 DEF Numbered
<1>6. Near'
  <2>1. next + Cardinality(arriving) <= (sender - 1) * MaxNumber + emitted + Reach
    BY DEF Near
  <2>2. next + 0 <= sender * MaxNumber + 0 + Reach
    BY <1>2, <1>3, <2>1
  <2>3. sender' - 1 = sender
    BY <1>1, <1>2
  <2> QED
    BY <1>1, <1>4, <2>2, <2>3 DEF Near
<1> QED
  BY <1>1, <1>5, <1>6 DEF Fresh

\* Every step keeps what playout and the numbers have to do with each other.
LEMMA OrderStep ==
  ASSUME NotWrapped, SmallReach, OrderInv, [JitterNext]_(jitterVars)
  PROVE  OrderInv'
<1>1. Types'
  BY TypesStep DEF OrderInv
<1>2. Fresh' /\ Numbered' /\ Near'
  <2>1. CASE UNCHANGED jitterVars
    BY <2>1 DEF jitterVars, OrderInv, Fresh, Numbered, Near
  <2>2. CASE SendNext \/ Lose
    BY <2>2, NetworkOrders
  <2>3. CASE NewSender
    BY <2>3, NewSenderOrders
  <2>4. CASE Arrive
    BY <2>4, ArriveOrders
  <2> QED
    BY <2>1, <2>2, <2>3, <2>4 DEF JitterNext
<1> QED
  BY <1>1, <1>2 DEF OrderInv

\* At first nothing is sent to the receiver, and nothing is heard.
LEMMA OrderInit ==
  ASSUME JitterInit
  PROVE  OrderInv
<1>1. First \in Nat /\ Reach \in Nat /\ MaxNumber \in Nat
  BY Bounds DEF MaxNumber
<1>2. /\ sender = 1 /\ emitted = First /\ arriving = {} /\ buffer = {}
      /\ next = 0 /\ ~played /\ heard = -1
  BY DEF JitterInit
<1>3. Types
  BY TypesInit
<1>4. IsFiniteSet(arriving) /\ Cardinality(arriving) = 0
  BY <1>2, FS_EmptySet
<1>5. (sender - 1) * MaxNumber = 0
  BY <1>1, <1>2
<1>6. Near
  BY <1>1, <1>2, <1>4, <1>5 DEF Near
<1>7. Fresh /\ Numbered
  BY <1>2, <1>4 DEF Fresh, Numbered
<1> QED
  BY <1>3, <1>6, <1>7 DEF OrderInv

\* The order of the numbers is an invariant.
LEMMA StaysOrdered ==
  ASSUME NotWrapped, SmallReach
  PROVE  JitterSpec => []OrderInv
<1>1. JitterInit => OrderInv
  BY OrderInit
<1>2. OrderInv /\ [JitterNext]_(jitterVars) => OrderInv'
  BY OrderStep
<1> QED
  BY <1>1, <1>2, PTL DEF JitterSpec

\* Playout gets no further ahead of the sender it plays than the network
\* reorders, though each packet that arrives moves it on by one, for calls of
\* any length up to the wrap of the numbers, any losses and any depth.
THEOREM StaysBehind ==
  ASSUME NotWrapped, SmallReach
  PROVE  JitterSpec => []PlayoutNotAhead
<1>1. OrderInv => PlayoutNotAhead
  <2>1. SUFFICES ASSUME OrderInv, heard >= 0
                 PROVE  next <= emitted + Reach
    BY DEF PlayoutNotAhead
  <2>2. next + Cardinality(arriving) <= emitted + Reach
    BY <2>1 DEF OrderInv, Near
  <2>3. IsFiniteSet(arriving)
    BY <2>1 DEF OrderInv, Numbered
  <2>4. Cardinality(arriving) \in Nat
    BY <2>3, FS_CardinalityType
  <2>5. next \in Nat /\ emitted \in Nat /\ Reach \in Nat
    BY <2>1, NumbersFit, Bounds
  <2> QED
    BY <2>2, <2>4, <2>5
<1> QED
  BY <1>1, StaysOrdered, PTL

\* What is heard of one sender is heard in order and once, however the network
\* loses and reorders, up to the wrap of the numbers: push takes no late packet
\* of the sender it plays for a new sender's, because the distance it asks for
\* is longer than playout can be ahead of such a packet.
THEOREM HeardInOrder ==
  ASSUME NotWrapped, SmallReach
  PROVE  JitterSpec => PlayedInOrder
<1>1. OrderInv /\ [JitterNext]_(jitterVars) => [sender' = sender => heard' = heard \/ heard' > heard]_(jitterVars)
  <2>1. ASSUME OrderInv, [JitterNext]_(jitterVars), sender' = sender
        PROVE  heard' = heard \/ heard' > heard
    <3>1. CASE NewSender
      BY <2>1, <3>1
      DEF NewSender, OrderInv, Types, JitterTypeOK
    <3>2. CASE Arrive
      BY <2>1, <3>2, ArriveOrders
    <3>3. CASE SendNext \/ Lose \/ UNCHANGED jitterVars
      BY <3>3 DEF SendNext, Lose, jitterVars
    <3> QED
      BY <2>1, <3>1, <3>2, <3>3 DEF JitterNext
  <2> QED
    BY <2>1
<1> QED
  BY <1>1, StaysOrdered, PTL DEF JitterSpec, PlayedInOrder

-----------------------------------------------------------------------------
(* Forward error correction: FecPath *)

FecField == [sym : Nat, blk : Nat]
FecPacket == [field : FecField, of : Nat, index : Nat, bare : BOOLEAN]
FecSymbol == [of : Nat, index : Nat, bare : BOOLEAN]

SenderType ==
  /\ number \in Nat /\ block_id \in Nat /\ symbols \in Nat
  /\ net \subseteq FecPacket

\* All the symbols of a decoder entry have one index, the one in its number:
\* that is how the symbols of a block are scattered.
OneIndex ==
  /\ DOMAIN blocks \subseteq FecField
  /\ \A f \in DOMAIN blocks :
       /\ blocks[f] \subseteq FecSymbol
       /\ \A s \in blocks[f] : s.index = f.sym

\* Nothing is ever recovered.
NothingRecovered == recovered = {}

FecInv == SenderType /\ OneIndex /\ NothingRecovered

\* An instance counts as its module does.
LEMMA FecCounts == \A S : Fec!Cardinality(S) = Cardinality(S)
  BY DEF Fec!Cardinality, Cardinality

\* One index is not enough to decode a block of two frames or more.
LEMMA OneSymbolDecodesNothing ==
  ASSUME K \in Nat, K >= 2, NEW b, NEW i,
         NEW entry \in SUBSET FecSymbol, \A s \in entry : s.index = i
  PROVE  ~Fec!Decodes(entry, b)
<1> DEFINE Good == {s \in entry : s.of = b /\ ~s.bare}
<1>1. Good \subseteq {[of |-> b, index |-> i, bare |-> FALSE]}
  BY DEF FecSymbol
<1>2. /\ IsFiniteSet({[of |-> b, index |-> i, bare |-> FALSE]})
      /\ Cardinality({[of |-> b, index |-> i, bare |-> FALSE]}) = 1
  BY FS_Singleton
<1>3. Cardinality(Good) <= 1 /\ Cardinality(Good) \in Nat
  BY <1>1, <1>2, FS_Subset, FS_CardinalityType
<1> QED
  BY <1>3, FecCounts DEF Fec!Decodes

\* What the sender makes of frames keeps its types.
LEMMA SenderStep ==
  ASSUME K \in Nat, R \in Nat, BlockIds \in Nat \ {0}, SenderType, [Fec!Next]_(Fec!vars)
  PROVE  SenderType'
<1> USE DEF SenderType
<1>1. CASE UNCHANGED Fec!vars
  BY <1>1 DEF Fec!vars
<1>2. CASE Fec!EncodeCodec2
  <2>1. Fec!Source \in FecPacket
    BY DEF Fec!Source, FecPacket, FecField
  <2>2. Fec!Repairs \subseteq FecPacket
    <3>1. ASSUME NEW i \in K..K + R - 1
          PROVE  [field |-> [sym |-> i, blk |-> block_id],
                  of |-> number, index |-> i, bare |-> FALSE] \in FecPacket
      BY DEF FecPacket, FecField
    <3> QED
      BY <3>1 DEF Fec!Repairs
  <2>3. (block_id + 1) % BlockIds \in Nat
    OBVIOUS
  <2> QED
    BY <1>2, <2>1, <2>2, <2>3 DEF Fec!EncodeCodec2
<1>3. CASE Fec!EncodeOpus
  <2>1. [field |-> Fec!NoFec, of |-> number, index |-> 0, bare |-> TRUE] \in FecPacket
    BY DEF Fec!NoFec, FecPacket, FecField
  <2>2. net' \subseteq FecPacket
    BY <1>3, <2>1 DEF Fec!EncodeOpus
  <2> QED
    BY <1>3, <2>2 DEF Fec!EncodeOpus
<1>4. CASE Fec!SetProfile
  BY <1>4 DEF Fec!SetProfile
<1>5. CASE Fec!Lose
  BY <1>5 DEF Fec!Lose
<1>6. CASE Fec!Ingest
  BY <1>6 DEF Fec!Ingest
<1> QED
  BY <1>1, <1>2, <1>3, <1>4, <1>5, <1>6 DEF Fec!Next

\* A packet is added to the entry its index is part of the number of, so it
\* meets only symbols of its own index there.
LEMMA IngestStep ==
  ASSUME K \in Nat, K >= 2, FecInv, Fec!Ingest
  PROVE  OneIndex' /\ NothingRecovered'
<1> USE DEF FecInv, SenderType, OneIndex, NothingRecovered
<1> PICK p \in net :
      LET symbol == [of |-> p.of, index |-> p.field.sym, bare |-> p.bare]
      IN  \E entry \in Fec!Added(Fec!Entry(p.field), symbol) :
            /\ blocks' = [f \in DOMAIN blocks \union {p.field} |->
                            IF f = p.field THEN entry ELSE blocks[f]]
            /\ recovered' = recovered \union
                 {b \in 0..MaxBlocks : Fec!Decodes(entry, b)}
  BY DEF Fec!Ingest
<1> DEFINE symbol == [of |-> p.of, index |-> p.field.sym, bare |-> p.bare]
<1>1. PICK entry \in Fec!Added(Fec!Entry(p.field), symbol) :
        /\ blocks' = [f \in DOMAIN blocks \union {p.field} |->
                        IF f = p.field THEN entry ELSE blocks[f]]
        /\ recovered' = recovered \union {b \in 0..MaxBlocks : Fec!Decodes(entry, b)}
  OBVIOUS
<1>2. p.field \in FecField /\ symbol \in FecSymbol /\ symbol.index = p.field.sym
  BY DEF FecPacket, FecField, FecSymbol
<1>3. /\ Fec!Entry(p.field) \subseteq FecSymbol
      /\ \A s \in Fec!Entry(p.field) : s.index = p.field.sym
  BY DEF Fec!Entry
<1>4. entry \subseteq FecSymbol /\ \A s \in entry : s.index = p.field.sym
  BY <1>1, <1>2, <1>3 DEF Fec!Added
<1>5. OneIndex'
  BY <1>1, <1>2, <1>4
<1>6. recovered' = {}
  BY <1>1, <1>4, OneSymbolDecodesNothing
<1> QED
  BY <1>5, <1>6

-----------------------------------------------------------------------------

\* RelayPipeline::ingest never recovers a frame of a Codec2 tier: whatever is
\* lost or kept, in whatever order and however often, as long as a block has
\* at least two frames.
THEOREM NothingIsRecovered ==
  ASSUME K \in Nat, K >= 2, R \in Nat, BlockIds \in Nat \ {0}
  PROVE  Fec!Spec => []NothingRecovered
<1>1. Fec!Init => FecInv
  BY DEF Fec!Init, FecInv, SenderType, OneIndex, NothingRecovered
<1>2. FecInv /\ [Fec!Next]_(Fec!vars) => FecInv'
  <2> SUFFICES ASSUME FecInv, [Fec!Next]_(Fec!vars)
               PROVE  FecInv'
    OBVIOUS
  <2>1. SenderType'
    BY SenderStep DEF FecInv
  <2>2. CASE Fec!Ingest
    BY <2>1, <2>2, IngestStep DEF FecInv
  <2>3. CASE UNCHANGED <<blocks, recovered>>
    BY <2>1, <2>3 DEF FecInv, OneIndex, NothingRecovered
  <2> QED
    BY <2>2, <2>3
    DEF Fec!Next, Fec!vars, Fec!EncodeCodec2, Fec!EncodeOpus, Fec!SetProfile,
        Fec!Lose
<1>3. FecInv => NothingRecovered
  BY DEF FecInv
<1> QED
  BY <1>1, <1>2, <1>3, PTL DEF Fec!Spec
=============================================================================
