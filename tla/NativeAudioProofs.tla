-------------------------- MODULE NativeAudioProofs --------------------------
(* Proofs about NativeAudio, for rings of any size, with switches and calls   *)
(* that begin and end at any point of a watchdog's work.                      *)
EXTENDS NativeAudio, TLAPS

\* Of two threads that may open streams, one is past its look at g_running.
OneOpens(p, q) == ~(p \in {"open", "poll"} /\ q \in {"open", "poll"})

\* While nothing has raced, one thread at a time opens streams, and a watchdog
\* about to clear the rings has stopped them.
Coordinated ==
  /\ holder = "switch" <=> ui \in {"open", "poll"}
  /\ holder = "join" <=> call \in {"open", "poll"}
  /\ OneOpens(recv["now"], recv["former"]) /\ OneOpens(ui, call)
  /\ \A e \in Engines : OneOpens(recv[e], ui) /\ OneOpens(recv[e], call)
  /\ "open" \in Places => ~running /\ ~started
  /\ "poll" \in Places => running /\ ~started
  /\ \A e \in Engines : recv[e] = "clear" => ~running /\ ~started
  /\ ~running => heard = Idle /\ spoken = Idle
  /\ fill # Idle => recv["now"] = "idle"

\* How many frames an index is past another.
From(i, j, cap) == (j - i) % cap

\* The frames of a ring from its read to its write index are new, and so is
\* one just written but not published yet; all the others are old.
Accounted(ring, writing, cap) ==
  \A i \in Index(cap) :
    /\ ring.buf[i] # "torn"
    /\ ring.buf[i] = "new" <=>
         From(ring.r, i, cap) < AvailableRead(ring, cap) \/ (writing /\ i = ring.w)

PlayRing ==
  /\ Accounted(play, fill # Idle, PlayCap)
  /\ fill # Idle => fill = play.w /\ AvailableWrite(play, PlayCap) > 0
  /\ heard # Idle => heard = play.r /\ AvailableRead(play, PlayCap) > 0

CaptRing ==
  clean =>
    /\ Accounted(capt, spoken # Idle, CaptCap)
    /\ spoken # Idle => spoken = capt.w /\ AvailableWrite(capt, CaptCap) > 0
    /\ send \in Index(CaptCap) =>
         send = capt.r /\ AvailableRead(capt, CaptCap) >= SendFrames

Inv ==
  /\ TypeOK /\ FlagTellsStreams
  /\ ~raced => Coordinated /\ PlayRing /\ CaptRing

-----------------------------------------------------------------------------
(* Indices and rings                                                       *)

\* Indices go round once.
LEMMA RoundOnce ==
  ASSUME NEW cap \in Nat \ {0}, NEW a \in -cap..(2 * cap - 1)
  PROVE  a % cap = IF a < 0 THEN a + cap ELSE IF a < cap THEN a ELSE a - cap
<1>1. cap \in Nat \ {0}
  OBVIOUS
<1>2. ASSUME NEW q \in Int, NEW r \in 0..(cap - 1), a = q * cap + r
      PROVE  a % cap = r
  BY <1>1, <1>2
<1>3. CASE a < 0
  <2>1. a = (-1) * cap + (a + cap) /\ a + cap \in 0..(cap - 1) /\ -1 \in Int
    BY <1>1, <1>3
  <2> QED
    BY <1>2, <1>3, <2>1
<1>4. CASE 0 <= a /\ a < cap
  <2>1. a = 0 * cap + a /\ a \in 0..(cap - 1)
    BY <1>1, <1>4
  <2> QED
    BY <1>2, <1>4, <2>1
<1>5. CASE a >= cap
  <2>1. a = 1 * cap + (a - cap) /\ a - cap \in 0..(cap - 1)
    BY <1>1, <1>5
  <2> QED
    BY <1>1, <1>2, <1>5, <2>1
<1> QED
  BY <1>1, <1>3, <1>4, <1>5

\* How far an index is past another is their difference, round the ring.
LEMMA FromIs ==
  ASSUME NEW cap \in Nat \ {0}, NEW i \in Index(cap), NEW j \in Index(cap)
  PROVE  From(i, j, cap) = (IF i <= j THEN j - i ELSE j - i + cap) /\ From(i, j, cap) \in Index(cap)
<1>1. j - i \in -cap..(2 * cap - 1) /\ cap \in Nat /\ i \in Int /\ j \in Int
  BY DEF Index
<1>2. From(i, j, cap) = IF j - i < 0 THEN j - i + cap ELSE IF j - i < cap THEN j - i ELSE j - i - cap
  BY <1>1, RoundOnce DEF From
<1> QED
  BY <1>1, <1>2 DEF Index

\* An index moved on by less than a round is an index.
LEMMA PlusIs ==
  ASSUME NEW cap \in Nat \ {0}, NEW i \in Index(cap), NEW n \in 0..cap
  PROVE  Plus(i, n, cap) = (IF i + n < cap THEN i + n ELSE i + n - cap) /\ Plus(i, n, cap) \in Index(cap)
<1>1. i + n \in -cap..(2 * cap - 1) /\ cap \in Nat /\ i \in 0..(cap - 1)
  BY DEF Index
<1>2. Plus(i, n, cap) = IF i + n < 0 THEN i + n + cap ELSE IF i + n < cap THEN i + n ELSE i + n - cap
  <2> DEFINE a == i + n
  <2>1. a \in -cap..(2 * cap - 1)
    BY <1>1
  <2> HIDE DEF a
  <2>2. a % cap = IF a < 0 THEN a + cap ELSE IF a < cap THEN a ELSE a - cap
    BY <2>1, RoundOnce
  <2>3. Plus(i, n, cap) = a % cap
    BY Zenon DEF Plus, a
  <2>4. a = i + n
    BY Zenon DEF a
  <2> QED
    BY <1>1, <2>2, <2>3, <2>4
<1> QED
  BY <1>1, <1>2 DEF Index

\* available_read and available_write count from the read to the write index.
LEMMA AvailableIs ==
  ASSUME NEW cap \in Nat \ {0}, NEW ring \in Rings(cap)
  PROVE  /\ AvailableRead(ring, cap) = From(ring.r, ring.w, cap)
         /\ AvailableWrite(ring, cap) = cap - 1 - From(ring.r, ring.w, cap)
         /\ From(ring.r, ring.w, cap) \in Index(cap)
  BY FromIs DEF AvailableRead, AvailableWrite, From, Rings

\* An empty ring is accounted for.
LEMMA EmptyRing ==
  ASSUME NEW cap \in Nat \ {0}
  PROVE  /\ Empty(cap) \in Rings(cap) /\ Accounted(Empty(cap), FALSE, cap)
         /\ AvailableRead(Empty(cap), cap) = 0
<1>1. 0 \in Index(cap) /\ cap \in Nat /\ cap > 0
  BY DEF Index
<1>2. Empty(cap) \in Rings(cap)
  BY <1>1 DEF Empty, Rings
<1>3. From(0, 0, cap) = 0
  BY <1>1, FromIs
<1>4. AvailableRead(Empty(cap), cap) = 0
  BY <1>2, <1>3, AvailableIs DEF Empty
<1>5. \A i \in Index(cap) : ~(From(0, i, cap) < 0)
  BY <1>1, FromIs DEF Index
<1>6. /\ Empty(cap).r = 0 /\ Empty(cap).w = 0
      /\ \A i \in Index(cap) : Empty(cap).buf[i] = "old"
  BY DEF Empty
<1> QED
  BY <1>2, <1>4, <1>5, <1>6 DEF Accounted

\* Writing a frame behind the write index keeps a ring accounted for.
LEMMA WriteKeeps ==
  ASSUME NEW cap \in Nat \ {0}, NEW ring \in Rings(cap), Accounted(ring, FALSE, cap), AvailableWrite(ring, cap) > 0,
         NEW next, next = [ring EXCEPT !.buf[ring.w] = Written(@)]
  PROVE  /\ next \in Rings(cap) /\ Accounted(next, TRUE, cap)
         /\ next.w = ring.w /\ next.r = ring.r
<1> DEFINE v == Written(ring.buf[ring.w])
<1>1. /\ ring.w \in Index(cap) /\ ring.r \in Index(cap)
      /\ ring.buf \in [Index(cap) -> {"old", "new", "torn"}]
  BY DEF Rings
<1>2. From(ring.r, ring.w, cap) < cap - 1 /\ AvailableRead(ring, cap) = From(ring.r, ring.w, cap)
      /\ From(ring.r, ring.w, cap) \in Index(cap)
  BY AvailableIs DEF Index
<1>3. ring.buf[ring.w] = "old"
  <2>1. ~(From(ring.r, ring.w, cap) < AvailableRead(ring, cap))
    BY <1>2 DEF Index
  <2> QED
    BY <1>1, <2>1 DEF Accounted
<1>4. v = "new"
  BY <1>3 DEF Written
<1> HIDE DEF v
<1>5. next = [ring EXCEPT !.buf = [ring.buf EXCEPT ![ring.w] = v]]
  BY DEF v
<1>6. next.w = ring.w /\ next.r = ring.r /\ next.buf = [ring.buf EXCEPT ![ring.w] = "new"]
  BY <1>4, <1>5 DEF Rings
<1>7. next \in Rings(cap)
  BY <1>1, <1>4, <1>5 DEF Rings
<1>8. AvailableRead(next, cap) = AvailableRead(ring, cap)
  BY <1>6 DEF AvailableRead
<1>9. Accounted(next, TRUE, cap)
  BY <1>1, <1>6, <1>8 DEF Accounted
<1> QED
  BY <1>6, <1>7, <1>9

\* So does moving the write index past the frame written.
LEMMA PublishKeeps ==
  ASSUME NEW cap \in Nat \ {0}, NEW ring \in Rings(cap), Accounted(ring, TRUE, cap), AvailableWrite(ring, cap) > 0,
         NEW next, next = [ring EXCEPT !.w = Plus(ring.w, 1, cap)]
  PROVE  /\ next \in Rings(cap) /\ Accounted(next, FALSE, cap)
         /\ next.w = Plus(ring.w, 1, cap) /\ next.r = ring.r
         /\ AvailableRead(next, cap) = AvailableRead(ring, cap) + 1
<1>1. /\ ring.w \in Index(cap) /\ ring.r \in Index(cap)
      /\ ring.buf \in [Index(cap) -> {"old", "new", "torn"}]
  BY DEF Rings
<1>2. From(ring.r, ring.w, cap) < cap - 1 /\ AvailableRead(ring, cap) = From(ring.r, ring.w, cap)
  BY AvailableIs DEF Index
<1>3. Plus(ring.w, 1, cap) = (IF ring.w + 1 < cap THEN ring.w + 1 ELSE ring.w + 1 - cap)
      /\ Plus(ring.w, 1, cap) \in Index(cap)
  BY <1>1, PlusIs
<1>4. next.w = Plus(ring.w, 1, cap) /\ next.r = ring.r /\ next.buf = ring.buf
  BY DEF Rings
<1>5. next \in Rings(cap)
  BY <1>1, <1>3 DEF Rings
<1>6. From(ring.r, ring.w, cap) = (IF ring.r <= ring.w THEN ring.w - ring.r ELSE ring.w - ring.r + cap)
  BY <1>1, FromIs
<1>7. From(ring.r, next.w, cap) = From(ring.r, ring.w, cap) + 1
  <2>1. From(ring.r, next.w, cap) = (IF ring.r <= next.w THEN next.w - ring.r ELSE next.w - ring.r + cap)
    BY <1>1, <1>3, <1>4, FromIs
  <2>2. ring.r \in 0..(cap - 1) /\ ring.w \in 0..(cap - 1) /\ cap \in Nat
    BY <1>1 DEF Index
  <2>3. From(ring.r, ring.w, cap) < cap - 1
    BY <1>2
  <2>4. next.w = IF ring.w + 1 < cap THEN ring.w + 1 ELSE ring.w + 1 - cap
    BY <1>3, <1>4
  <2> QED
    BY <1>6, <2>1, <2>2, <2>3, <2>4
<1>8. AvailableRead(next, cap) = AvailableRead(ring, cap) + 1
  BY <1>2, <1>4, <1>5, <1>7, AvailableIs
<1>9. ASSUME NEW i \in Index(cap)
      PROVE  From(ring.r, i, cap) < From(ring.r, ring.w, cap) + 1 <=>
               From(ring.r, i, cap) < From(ring.r, ring.w, cap) \/ i = ring.w
  <2>1. From(ring.r, i, cap) = (IF ring.r <= i THEN i - ring.r ELSE i - ring.r + cap)
    BY <1>1, FromIs
  <2>2. ring.r \in 0..(cap - 1) /\ ring.w \in 0..(cap - 1) /\ cap \in Nat /\ i \in 0..(cap - 1)
    BY <1>1 DEF Index
  <2> QED
    BY <1>6, <2>1, <2>2
<1> QED
  BY <1>2, <1>4, <1>5, <1>8, <1>9 DEF Accounted

\* So does reading frames that are there and moving the read index past them.
LEMMA ReadKeeps ==
  ASSUME NEW cap \in Nat \ {0}, NEW ring \in Rings(cap), NEW writing \in BOOLEAN, Accounted(ring, writing, cap),
         NEW n \in 1..(cap - 1), AvailableRead(ring, cap) >= n,
         NEW next, next.w = ring.w, next.r = Plus(ring.r, n, cap),
         \A i \in Index(cap) :
           next.buf[i] = IF \E k \in 0..(n - 1) : i = Plus(ring.r, k, cap)
                         THEN "old" ELSE ring.buf[i]
  PROVE  /\ Accounted(next, writing, cap)
         /\ AvailableRead(next, cap) = AvailableRead(ring, cap) - n
<1>1. ring.w \in Index(cap) /\ ring.r \in Index(cap)
  BY DEF Rings
<1>2. AvailableRead(ring, cap) = From(ring.r, ring.w, cap) /\ n <= From(ring.r, ring.w, cap)
  BY AvailableIs
<1>3. Plus(ring.r, n, cap) = (IF ring.r + n < cap THEN ring.r + n ELSE ring.r + n - cap)
      /\ Plus(ring.r, n, cap) \in Index(cap)
  BY <1>1, PlusIs
<1>4. From(ring.r, ring.w, cap) = (IF ring.r <= ring.w THEN ring.w - ring.r ELSE ring.w - ring.r + cap)
  BY <1>1, FromIs
<1>5. AvailableRead(next, cap) = AvailableRead(ring, cap) - n
  <2>1. AvailableRead(next, cap) = From(next.r, ring.w, cap)
    BY DEF AvailableRead, From
  <2>2. From(next.r, ring.w, cap) = (IF next.r <= ring.w THEN ring.w - next.r ELSE ring.w - next.r + cap)
    BY <1>1, <1>3, FromIs
  <2> QED
    BY <1>1, <1>2, <1>3, <1>4, <2>1, <2>2 DEF Index
<1>6. ASSUME NEW i \in Index(cap)
      PROVE  (\E k \in 0..(n - 1) : i = Plus(ring.r, k, cap)) <=> From(ring.r, i, cap) < n
  <2>0. From(ring.r, i, cap) = (IF ring.r <= i THEN i - ring.r ELSE i - ring.r + cap) /\ From(ring.r, i, cap) \in 0..(cap - 1)
    BY <1>1, FromIs DEF Index
  <2>1. ASSUME NEW k \in 0..(n - 1), i = Plus(ring.r, k, cap)
        PROVE  From(ring.r, i, cap) < n
    <3>1. Plus(ring.r, k, cap) = (IF ring.r + k < cap THEN ring.r + k ELSE ring.r + k - cap)
      BY <1>1, PlusIs
    <3> QED
      BY <1>1, <2>0, <2>1, <3>1 DEF Index
  <2>2. ASSUME From(ring.r, i, cap) < n
        PROVE  \E k \in 0..(n - 1) : i = Plus(ring.r, k, cap)
    <3> DEFINE k == From(ring.r, i, cap)
    <3>1. k \in 0..(n - 1) /\ k \in 0..cap
      BY <2>0, <2>2
    <3>2. Plus(ring.r, k, cap) = (IF ring.r + k < cap THEN ring.r + k ELSE ring.r + k - cap)
      BY <1>1, <3>1, PlusIs
    <3> HIDE DEF k
    <3>3. k = (IF ring.r <= i THEN i - ring.r ELSE i - ring.r + cap)
      BY <2>0 DEF k
    <3>4. i = Plus(ring.r, k, cap)
      BY <1>1, <3>2, <3>3 DEF Index
    <3> QED
      BY <3>1, <3>4
  <2> QED
    BY <2>1, <2>2
<1>7. ASSUME NEW i \in Index(cap)
      PROVE  /\ next.buf[i] # "torn"
             /\ next.buf[i] = "new" <=>
                  From(next.r, i, cap) < AvailableRead(next, cap) \/ (writing /\ i = next.w)
  <2>1. From(ring.r, i, cap) = (IF ring.r <= i THEN i - ring.r ELSE i - ring.r + cap)
    BY <1>1, FromIs
  <2>2. From(next.r, i, cap) = (IF next.r <= i THEN i - next.r ELSE i - next.r + cap)
    BY <1>1, <1>3, FromIs
  <2>3. CASE From(ring.r, i, cap) < n
    <3>1. next.buf[i] = "old"
      BY <1>6, <2>3
    <3>2. ~(From(next.r, i, cap) < AvailableRead(next, cap))
      BY <1>1, <1>2, <1>3, <1>4, <1>5, <2>1, <2>2, <2>3 DEF Index
    <3>3. i # ring.w
      <4>1. CASE i = ring.w
        BY <1>1, <1>2, <1>4, <2>3, <4>1 DEF Index
      <4> QED
        BY <4>1
    <3> QED
      BY <3>1, <3>2, <3>3
  <2>4. CASE ~(From(ring.r, i, cap) < n)
    <3>1. next.buf[i] = ring.buf[i]
      BY <1>6, <2>4
    <3>2. From(next.r, i, cap) < AvailableRead(next, cap) <=> From(ring.r, i, cap) < AvailableRead(ring, cap)
      BY <1>1, <1>2, <1>3, <1>4, <1>5, <2>1, <2>2, <2>4 DEF Index
    <3> QED
      BY <3>1, <3>2 DEF Accounted
  <2> QED
    BY <2>3, <2>4
<1> QED
  BY <1>5, <1>7 DEF Accounted

-----------------------------------------------------------------------------
(* What a step touches                                                     *)

\* A step of the control only: no ring, no copy under way.
LEMMA PlayoutTouched ==
  ASSUME [Next]_vars
  PROVE  \/ UNCHANGED playout
         \/ PlayBegin \/ PlayEnd \/ Write \/ Publish
         \/ \E e \in Engines : RestartClear(e)
<1> USE DEF playout
<1>1. CASE UNCHANGED vars
  BY <1>1 DEF vars
<1>2. CASE CaptureBegin \/ CaptureEnd \/ PlayoutStops
  BY <1>2 DEF CaptureBegin, CaptureEnd, PlayoutStops
<1>3. CASE Restart \/ RecvEnds
  BY <1>3 DEF Restart, RecvEnds
<1>4. ASSUME NEW e \in Engines, Watchdog(e)
      PROVE  RestartClear(e) \/ UNCHANGED playout
  BY <1>4 DEF Watchdog, RestartStop, RestartStart, RestartOpen, RestartMark
<1>5. CASE SendTask \/ SendEnds
  BY <1>5 DEF SendTask, ReadBegin, ReadEnd, SendEnds
<1>6. CASE Toggle \/ Switch
  BY <1>6 DEF Toggle, Switch, ToggleStop, ToggleStart, ToggleOpen, TogglePoll, AudioStart
<1>7. CASE Hangup \/ HangupStop \/ NextCall
  BY <1>7 DEF Hangup, HangupStop, NextCall
<1>8. CASE Join
  BY <1>8 DEF Join, NextStart, NextOpen, NextPoll, AudioStart
<1>9. Watchdog("now") \/ Watchdog("former") => \E e \in Engines : Watchdog(e)
  BY DEF Engines
<1> QED
  BY <1>1, <1>2, <1>3, <1>4, <1>5, <1>6, <1>7, <1>8, <1>9 DEF Next, Callbacks, RecvTask

\* The send task of the next call begins with nothing under way.
SendBegins == send' = Idle /\ UNCHANGED <<capt, spoken, clean>>

LEMMA CaptureTouched ==
  ASSUME [Next]_vars
  PROVE  \/ UNCHANGED capture
         \/ CaptureBegin \/ CaptureEnd \/ ReadBegin \/ ReadEnd \/ SendEnds \/ SendBegins
         \/ \E e \in Engines : RestartClear(e)
<1> USE DEF capture
<1>1. CASE UNCHANGED vars
  BY <1>1 DEF vars
<1>2. CASE PlayBegin \/ PlayEnd \/ PlayoutStops
  BY <1>2 DEF PlayBegin, PlayEnd, PlayoutStops
<1>3. CASE Write \/ Publish \/ Restart \/ RecvEnds
  BY <1>3 DEF Write, Publish, Restart, RecvEnds
<1>4. ASSUME NEW e \in Engines, Watchdog(e)
      PROVE  RestartClear(e) \/ UNCHANGED capture
  BY <1>4 DEF Watchdog, RestartStop, RestartStart, RestartOpen, RestartMark
<1>5. CASE Toggle \/ Switch
  BY <1>5 DEF Toggle, Switch, ToggleStop, ToggleStart, ToggleOpen, TogglePoll, AudioStart
<1>6. CASE Hangup \/ HangupStop \/ NextCall
  BY <1>6 DEF Hangup, HangupStop, NextCall
<1>7. CASE Join
  BY <1>7 DEF Join, NextStart, NextOpen, NextPoll, AudioStart, Begin, SendBegins
<1>8. Watchdog("now") \/ Watchdog("former") => \E e \in Engines : Watchdog(e)
  BY DEF Engines
<1> QED
  BY <1>1, <1>2, <1>3, <1>4, <1>5, <1>6, <1>7, <1>8 DEF Next, Callbacks, RecvTask, SendTask

-----------------------------------------------------------------------------
(* Types                                                                   *)

Flags ==
  /\ started \in BOOLEAN /\ running \in BOOLEAN /\ alive \in BOOLEAN
  /\ clean \in BOOLEAN /\ raced \in BOOLEAN

States ==
  /\ call \in {"on", "ending", "over", "start", "open", "poll"}
  /\ recv \in [Engines -> {"gone", "idle"} \union Stages]
  /\ ui \in {"idle"} \union (Stages \ {"clear"})
  /\ holder \in {"none", "switch", "join"} /\ faults \in 0..MaxFaults

Counts ==
  /\ stall \in 0..StallWrites /\ lastRead \in Index(PlayCap)

Copies ==
  /\ fill \in Index(PlayCap) \union {Idle} /\ heard \in Index(PlayCap) \union {Idle}
  /\ spoken \in Index(CaptCap) \union {Idle} /\ send \in Index(CaptCap) \union {Idle, Gone}

Typed ==
  Flags /\ States /\ Counts /\ Copies /\ play \in Rings(PlayCap) /\ capt \in Rings(CaptCap)

\* The types in parts.
LEMMA TypeParts == TypeOK <=> Typed
  BY Zenon DEF TypeOK, Typed, Flags, States, Counts, Copies

\* Capacities and indices are numbers.
LEMMA Capacities ==
  /\ PlayCap \in Nat \ {0} /\ CaptCap \in Nat \ {0} /\ CaptCap > 1 /\ PlayCap > 1
  /\ SendFrames \in 1..(CaptCap - 1)
  /\ \A cap : Idle \notin Index(cap) /\ Gone \notin Index(cap)
<1>1. ASSUME NEW cap PROVE Idle \notin Index(cap) /\ Gone \notin Index(cap)
  BY DEF Idle, Gone, Index
<1> QED
  BY <1>1, RingAssumption

LEMMA FlagStep ==
  ASSUME Flags, [Next]_vars
  PROVE  Flags'
<1> USE DEF Flags, streams, playout, capture, AudioStop, OpenStreams, OpenFails, PollFails
<1>1. CASE UNCHANGED vars
  BY Zenon, <1>1 DEF vars
<1>2. CASE Callbacks
  BY Zenon, <1>2 DEF Callbacks, PlayBegin, PlayEnd, CaptureBegin, CaptureEnd, PlayoutStops
<1>3. CASE Write \/ Publish \/ Restart \/ RecvEnds
  BY Zenon, <1>3 DEF Write, Publish, Restart, RecvEnds
<1>4. ASSUME NEW e \in Engines, Watchdog(e)
      PROVE  Flags'
  <2>1. CASE RestartStop(e)
    BY Zenon, <2>1 DEF RestartStop
  <2>2. CASE RestartClear(e)
    <3>1. (send \in {Idle, Gone}) \in BOOLEAN /\ (raced \/ fill # Idle) \in BOOLEAN
      OBVIOUS
    <3> QED
      BY Zenon, <2>2, <3>1 DEF RestartClear
  <2>3. CASE RestartStart(e)
    BY Zenon, <2>3 DEF RestartStart
  <2>4. CASE RestartOpen(e)
    BY Zenon, <2>4 DEF RestartOpen, MeetsClear
  <2>5. CASE RestartMark(e)
    BY Zenon, <2>5 DEF RestartMark
  <2> QED
    BY <1>4, <2>1, <2>2, <2>3, <2>4, <2>5 DEF Watchdog
<1>5. CASE SendTask \/ SendEnds
  BY Zenon, <1>5 DEF SendTask, ReadBegin, ReadEnd, SendEnds
<1>6. CASE Toggle \/ Switch
  BY Zenon, <1>6 DEF Toggle, Switch, ToggleStop, ToggleStart, ToggleOpen, TogglePoll, AudioStart, MeetsClear
<1>7. CASE Hangup \/ HangupStop \/ NextCall
  BY Zenon, <1>7 DEF Hangup, HangupStop, NextCall
<1>8. CASE Join
  BY Zenon, <1>8 DEF Join, NextStart, NextOpen, NextPoll, AudioStart, MeetsClear
<1>9. Watchdog("now") \/ Watchdog("former") => \E e \in Engines : Watchdog(e)
  BY DEF Engines
<1> QED
  BY <1>1, <1>2, <1>3, <1>4, <1>5, <1>6, <1>7, <1>8, <1>9 DEF Next, RecvTask

LEMMA StateStep ==
  ASSUME States, Counts, play \in Rings(PlayCap), [Next]_vars
  PROVE  States' /\ Counts'
<1> USE RingAssumption
    DEF States, Counts, Stages, streams, watch, AudioStop, OpenStreams, OpenFails, PollFails, To, Done
<1>0. play.r \in Index(PlayCap) /\ 0 \in Index(PlayCap)
  BY DEF Rings, Index
<1>1. CASE UNCHANGED vars
  BY <1>1 DEF vars, tasks
<1>2. CASE Callbacks
  BY <1>2 DEF Callbacks, PlayBegin, PlayEnd, CaptureBegin, CaptureEnd, PlayoutStops, tasks
<1>3. CASE Write \/ Publish \/ Restart \/ RecvEnds
  BY <1>0, <1>3 DEF Write, Publish, Restart, RecvEnds, Stalled, tasks
<1>4. ASSUME NEW e \in Engines, Watchdog(e)
      PROVE  States' /\ Counts'
  <2>1. CASE RestartStop(e)
    BY <2>1 DEF RestartStop
  <2>2. CASE RestartClear(e)
    BY <2>2 DEF RestartClear
  <2>3. CASE RestartStart(e)
    BY <1>0, <2>3 DEF RestartStart
  <2>4. CASE RestartOpen(e)
    BY <1>0, <2>4 DEF RestartOpen
  <2>5. CASE RestartMark(e)
    BY <1>0, <2>5 DEF RestartMark
  <2> QED
    BY <1>4, <2>1, <2>2, <2>3, <2>4, <2>5 DEF Watchdog
<1>5. CASE SendTask \/ SendEnds
  BY <1>5 DEF SendTask, ReadBegin, ReadEnd, SendEnds, tasks
<1>6. CASE Toggle \/ Switch
  BY <1>6 DEF Toggle, Switch, ToggleStop, ToggleStart, ToggleOpen, TogglePoll, AudioStart
<1>7. CASE Hangup \/ HangupStop \/ NextCall
  BY <1>7 DEF Hangup, HangupStop, NextCall, Engines
<1>8. CASE Join
  BY <1>8 DEF Join, NextStart, NextOpen, NextPoll, AudioStart, Begin
<1>9. Watchdog("now") \/ Watchdog("former") => \E e \in Engines : Watchdog(e)
  BY DEF Engines
<1> QED
  BY <1>1, <1>2, <1>3, <1>4, <1>5, <1>6, <1>7, <1>8, <1>9 DEF Next, RecvTask

\* The playout ring, the write and the copy under way keep their types.
LEMMA PlayTyped ==
  ASSUME Typed, [Next]_vars
  PROVE  /\ (play \in Rings(PlayCap))'
         /\ (fill \in Index(PlayCap) \union {Idle})' /\ (heard \in Index(PlayCap) \union {Idle})'
<1> USE Capacities DEF Typed, Copies
<1>0. /\ play.w \in Index(PlayCap) /\ play.r \in Index(PlayCap)
      /\ play.buf \in [Index(PlayCap) -> {"old", "new", "torn"}]
      /\ play = [w |-> play.w, r |-> play.r, buf |-> play.buf]
  BY DEF Rings
<1>1. CASE UNCHANGED playout
  BY <1>1 DEF playout
<1>2. CASE PlayBegin
  BY <1>0, <1>2 DEF PlayBegin
<1>3. CASE PlayEnd
  <2>1. heard \in Index(PlayCap) /\ fill' = fill /\ heard' = Idle
        /\ play' = [play EXCEPT !.r = Plus(heard, 1, PlayCap), !.buf[heard] = "old"]
    BY <1>3 DEF PlayEnd
  <2>2. Plus(heard, 1, PlayCap) \in Index(PlayCap)
    BY <2>1, PlusIs
  <2>3. [play.buf EXCEPT ![heard] = "old"] \in [Index(PlayCap) -> {"old", "new", "torn"}]
    BY <1>0, <2>1
  <2> QED
    BY <1>0, <2>1, <2>2, <2>3 DEF Rings
<1>4. CASE Write
  <2>1. [play.buf EXCEPT ![play.w] = Written(@)] \in [Index(PlayCap) -> {"old", "new", "torn"}]
    BY <1>0 DEF Written
  <2>2. /\ heard' = heard
        /\ \/ fill' = play.w /\ play' = [play EXCEPT !.buf[play.w] = Written(@)]
           \/ fill' = fill /\ play' = play
    BY <1>4 DEF Write
  <2> QED
    BY <1>0, <2>1, <2>2 DEF Rings
<1>5. CASE Publish
  <2>1. fill \in Index(PlayCap) /\ fill' = Idle /\ heard' = heard
        /\ play' = [play EXCEPT !.w = Plus(fill, 1, PlayCap)]
    BY <1>5 DEF Publish
  <2>2. Plus(fill, 1, PlayCap) \in Index(PlayCap)
    BY <2>1, PlusIs
  <2> QED
    BY <1>0, <2>1, <2>2 DEF Rings
<1>6. CASE \E e \in Engines : RestartClear(e)
  BY <1>6, EmptyRing DEF RestartClear
<1> QED
  BY <1>1, <1>2, <1>3, <1>4, <1>5, <1>6, PlayoutTouched

\* So do the capture ring and the frame and the read under way.
LEMMA CaptTyped ==
  ASSUME Typed, [Next]_vars
  PROVE  /\ (capt \in Rings(CaptCap))'
         /\ (spoken \in Index(CaptCap) \union {Idle})'
         /\ (send \in Index(CaptCap) \union {Idle, Gone})'
<1> USE Capacities DEF Typed, Copies
<1>0. /\ capt.w \in Index(CaptCap) /\ capt.r \in Index(CaptCap)
      /\ capt.buf \in [Index(CaptCap) -> {"old", "new", "torn"}]
      /\ capt = [w |-> capt.w, r |-> capt.r, buf |-> capt.buf]
  BY DEF Rings
<1>1. CASE UNCHANGED capture
  BY <1>1 DEF capture
<1>2. CASE CaptureBegin
  <2>1. [capt.buf EXCEPT ![capt.w] = Written(@)] \in [Index(CaptCap) -> {"old", "new", "torn"}]
    BY <1>0 DEF Written
  <2>2. /\ spoken' = capt.w /\ send' = send
        /\ capt' = [capt EXCEPT !.buf[capt.w] = Written(@)]
    BY <1>2 DEF CaptureBegin
  <2> QED
    BY <1>0, <2>1, <2>2 DEF Rings
<1>3. CASE CaptureEnd
  <2>1. spoken \in Index(CaptCap) /\ spoken' = Idle /\ send' = send
        /\ capt' = [capt EXCEPT !.w = Plus(spoken, 1, CaptCap)]
    BY <1>3 DEF CaptureEnd
  <2>2. Plus(spoken, 1, CaptCap) \in Index(CaptCap)
    BY <2>1, PlusIs
  <2> QED
    BY <1>0, <2>1, <2>2 DEF Rings
<1>4. CASE ReadBegin
  BY <1>0, <1>4 DEF ReadBegin
<1>5. CASE ReadEnd
  <2> DEFINE b == [i \in Index(CaptCap) |-> IF i \in Taken THEN "old" ELSE capt.buf[i]]
  <2>1. send \in Index(CaptCap) /\ send' = Idle /\ spoken' = spoken
        /\ capt' = [capt EXCEPT !.r = Plus(send, SendFrames, CaptCap), !.buf = b]
    BY <1>5 DEF ReadEnd
  <2>2. Plus(send, SendFrames, CaptCap) \in Index(CaptCap)
    BY <2>1, PlusIs
  <2>3. b \in [Index(CaptCap) -> {"old", "new", "torn"}]
    BY <1>0
  <2> QED
    BY <1>0, <2>1, <2>2, <2>3 DEF Rings
<1>6. CASE SendEnds \/ SendBegins
  BY <1>6 DEF SendEnds, SendBegins
<1>7. CASE \E e \in Engines : RestartClear(e)
  BY <1>7, EmptyRing DEF RestartClear
<1> QED
  BY <1>1, <1>2, <1>3, <1>4, <1>5, <1>6, <1>7, CaptureTouched

LEMMA TypedStep ==
  ASSUME Typed, [Next]_vars
  PROVE  Typed'
  BY FlagStep, StateStep, PlayTyped, CaptTyped DEF Typed, Copies

-----------------------------------------------------------------------------
(* Who opens and stops the streams                                         *)


\* What of the control is no copy.
Control ==
  /\ holder = "switch" <=> ui \in {"open", "poll"}
  /\ holder = "join" <=> call \in {"open", "poll"}
  /\ OneOpens(recv["now"], recv["former"]) /\ OneOpens(ui, call)
  /\ \A e \in Engines : OneOpens(recv[e], ui) /\ OneOpens(recv[e], call)
  /\ "open" \in Places => ~running /\ ~started
  /\ "poll" \in Places => running /\ ~started
  /\ \A e \in Engines : recv[e] = "clear" => ~running /\ ~started

\* A copy is under way only with the streams open, and the recv task's only
\* while it is in no restart.
Copying ==
  /\ ~running => heard = Idle /\ spoken = Idle
  /\ fill # Idle => recv["now"] = "idle"

LEMMA CoordinatedIs == Coordinated <=> Control /\ Copying
  BY DEF Coordinated, Control, Copying

\* A step that moves nobody and no flag keeps the control.
LEMMA ControlKept ==
  ASSUME Control, FlagTellsStreams, UNCHANGED <<call, ui, recv, holder, started, running>>
  PROVE  Control' /\ FlagTellsStreams'
  BY DEF Control, FlagTellsStreams, Places

\* A watchdog's steps.
LEMMA WatchdogControl ==
  ASSUME Typed, Control, FlagTellsStreams, NEW e \in Engines, Watchdog(e)
  PROVE  FlagTellsStreams' /\ (~raced' => Control')
<1> USE DEF Typed, States, Flags, Control, OneOpens, FlagTellsStreams, Places, Engines, To, Done, streams
<1>1. CASE RestartStop(e)
  BY <1>1 DEF RestartStop, AudioStop
<1>2. CASE RestartClear(e)
  BY <1>2 DEF RestartClear
<1>3. CASE RestartStart(e)
  BY <1>3 DEF RestartStart
<1>4. CASE RestartOpen(e)
  <2>1. CASE OpenStreams /\ To(e, "poll") /\ MeetsClear
    <3>1. ~raced' => recv["now"] # "clear" /\ recv["former"] # "clear"
      BY <2>1 DEF MeetsClear
    <3>2. /\ recv[e] = "open" /\ recv' = [recv EXCEPT ![e] = "poll"] /\ call' = call /\ ui' = ui
          /\ running' = TRUE /\ started' = started /\ holder' = holder
      BY <1>4, <2>1 DEF RestartOpen, OpenStreams
    <3> QED
      BY <3>1, <3>2
  <2>2. CASE OpenFails /\ Done(e)
    <3>1. /\ recv[e] = "open" /\ call' = call /\ ui' = ui
          /\ recv' = [recv EXCEPT ![e] = IF e = "now" THEN "idle" ELSE "gone"]
          /\ running' = running /\ started' = started /\ holder' = holder
      BY <1>4, <2>2 DEF RestartOpen, OpenFails
    <3> QED
      BY <3>1
  <2> QED
    BY <1>4, <2>1, <2>2 DEF RestartOpen
<1>5. CASE RestartMark(e)
  BY <1>5 DEF RestartMark, PollFails
<1> QED
  BY <1>1, <1>2, <1>3, <1>4, <1>5 DEF Watchdog

\* A switch's steps.
LEMMA SwitchControl ==
  ASSUME Typed, Control, FlagTellsStreams, Toggle \/ Switch
  PROVE  FlagTellsStreams' /\ (~raced' => Control')
<1> USE DEF Typed, States, Flags, Control, OneOpens, FlagTellsStreams, Places, Engines, streams
<1>1. CASE Toggle
  BY <1>1 DEF Toggle
<1>2. CASE ToggleStop
  BY <1>2 DEF ToggleStop, AudioStop
<1>3. CASE ToggleStart
  BY <1>3 DEF ToggleStart, AudioStart
<1>4. CASE ToggleOpen
  <2>1. CASE OpenStreams /\ MeetsClear /\ ui' = "poll" /\ UNCHANGED holder
    <3>1. ~raced' => recv["now"] # "clear" /\ recv["former"] # "clear"
      BY <2>1 DEF MeetsClear
    <3>2. /\ ui = "open" /\ ui' = "poll" /\ call' = call /\ recv' = recv
          /\ running' = TRUE /\ started' = started /\ holder' = holder
      BY <1>4, <2>1 DEF ToggleOpen, OpenStreams
    <3> QED
      BY <3>1, <3>2
  <2>2. CASE OpenFails /\ ui' = "idle" /\ holder' = "none"
    <3>1. /\ ui = "open" /\ call' = call /\ recv' = recv
          /\ running' = running /\ started' = started
      BY <1>4, <2>2 DEF ToggleOpen, OpenFails
    <3> QED
      BY <2>2, <3>1
  <2> QED
    BY <1>4, <2>1, <2>2 DEF ToggleOpen
<1>5. CASE TogglePoll
  BY <1>5 DEF TogglePoll, PollFails
<1> QED
  BY <1>1, <1>2, <1>3, <1>4, <1>5 DEF Switch

\* The calls' steps.
LEMMA CallControl ==
  ASSUME Typed, Control, FlagTellsStreams, Hangup \/ HangupStop \/ NextCall \/ Join
  PROVE  FlagTellsStreams' /\ (~raced' => Control')
<1> USE DEF Typed, States, Flags, Control, OneOpens, FlagTellsStreams, Places, Engines, streams
<1>1. CASE Hangup
  BY <1>1 DEF Hangup
<1>2. CASE HangupStop
  BY <1>2 DEF HangupStop, AudioStop
<1>3. CASE NextCall
  BY <1>3 DEF NextCall, AudioStop
<1>4. CASE NextStart
  <2>1. CASE started
    BY <1>4, <2>1 DEF NextStart, Begin
  <2>2. CASE ~started /\ running
    BY <1>4, <2>2 DEF NextStart
  <2>3. CASE ~started /\ ~running
    <3>1. ~raced' => "open" \notin Places
      BY <1>4, <2>3 DEF NextStart, AudioStart
    <3>2. /\ call = "start" /\ call' = "open" /\ ui' = ui /\ recv' = recv
          /\ holder = "none" /\ holder' = "join" /\ running' = running /\ started' = started
      BY <1>4, <2>3 DEF NextStart, AudioStart
    <3> QED
      BY <2>3, <3>1, <3>2
  <2> QED
    BY <2>1, <2>2, <2>3
<1>5. CASE NextOpen
  <2>1. CASE OpenStreams /\ MeetsClear /\ call' = "poll" /\ UNCHANGED holder
    <3>1. ~raced' => recv["now"] # "clear" /\ recv["former"] # "clear"
      BY <2>1 DEF MeetsClear
    <3>2. /\ call = "open" /\ call' = "poll" /\ ui' = ui /\ recv' = recv
          /\ running' = TRUE /\ started' = started /\ holder' = holder
      BY <1>5, <2>1 DEF NextOpen, OpenStreams
    <3> QED
      BY <3>1, <3>2
  <2>2. CASE OpenFails /\ call' = "over" /\ holder' = "none"
    <3>1. /\ call = "open" /\ ui' = ui /\ recv' = recv
          /\ running' = running /\ started' = started
      BY <1>5, <2>2 DEF NextOpen, OpenFails
    <3> QED
      BY <2>2, <3>1
  <2> QED
    BY <1>5, <2>1, <2>2 DEF NextOpen
<1>6. CASE NextPoll
  BY <1>6 DEF NextPoll, PollFails, Begin
<1> QED
  BY <1>1, <1>2, <1>3, <1>4, <1>5, <1>6 DEF Join

LEMMA ControlStep ==
  ASSUME Typed, Control, FlagTellsStreams, Next
  PROVE  FlagTellsStreams' /\ (~raced' => Control')
<1>1. CASE Callbacks
  <2>1. UNCHANGED <<call, ui, recv, holder, started, running>>
    BY <1>1 DEF Callbacks, PlayBegin, PlayEnd, CaptureBegin, CaptureEnd, PlayoutStops, tasks, streams
  <2> QED
    BY <2>1, ControlKept
<1>2. CASE Write \/ Publish
  <2>1. UNCHANGED <<call, ui, recv, holder, started, running>>
    BY <1>2 DEF Write, Publish, tasks, streams
  <2> QED
    BY <2>1, ControlKept
<1>3. CASE SendTask \/ SendEnds
  <2>1. UNCHANGED <<call, ui, recv, holder, started, running>>
    BY <1>3 DEF SendTask, ReadBegin, ReadEnd, SendEnds, tasks, streams
  <2> QED
    BY <2>1, ControlKept
<1>4. CASE Restart \/ RecvEnds
  BY <1>4 DEF Restart, RecvEnds, To, streams, Typed, States, Control, OneOpens, FlagTellsStreams, Places, Engines
<1>5. CASE Watchdog("now") \/ Watchdog("former")
  BY <1>5, WatchdogControl DEF Engines
<1> QED
  BY <1>1, <1>2, <1>3, <1>4, <1>5, SwitchControl, CallControl DEF Next, RecvTask

\* No copy outlives the streams, nor a write the recv task's going into a restart.
LEMMA CopyingStep ==
  ASSUME Typed, Control, Copying, Next
  PROVE  Copying'
<1> USE DEF Typed, States, Flags, Copying, streams, AudioStop, CallbacksDone, OpenStreams, OpenFails, PollFails
<1>1. CASE Callbacks
  <2>1. CASE PlayBegin
    BY <2>1 DEF PlayBegin, tasks
  <2>2. CASE PlayEnd
    BY <2>2 DEF PlayEnd, tasks, capture
  <2>3. CASE CaptureBegin
    BY <2>3 DEF CaptureBegin, tasks, playout
  <2>4. CASE CaptureEnd
    BY <2>4 DEF CaptureEnd, tasks, playout
  <2>5. CASE PlayoutStops
    BY <2>5 DEF PlayoutStops, tasks, playout, capture
  <2> QED
    BY <1>1, <2>1, <2>2, <2>3, <2>4, <2>5 DEF Callbacks
<1>2. CASE Write \/ Publish \/ Restart \/ RecvEnds
  BY <1>2 DEF Write, Publish, Restart, RecvEnds, To, tasks, playout, capture
<1>3. CASE SendTask \/ SendEnds
  BY <1>3 DEF SendTask, ReadBegin, ReadEnd, SendEnds, tasks, playout
<1>4. ASSUME NEW e \in Engines, Watchdog(e)
      PROVE  Copying'
  <2> USE DEF To, Done, Engines, playout, capture
  <2>1. CASE RestartStop(e)
    BY <2>1 DEF RestartStop
  <2>2. CASE RestartClear(e)
    BY <2>2 DEF RestartClear
  <2>3. CASE RestartStart(e)
    BY <2>3 DEF RestartStart
  <2>4. CASE RestartOpen(e)
    BY <2>4 DEF RestartOpen
  <2>5. CASE RestartMark(e)
    BY <2>5 DEF RestartMark
  <2> QED
    BY <1>4, <2>1, <2>2, <2>3, <2>4, <2>5 DEF Watchdog
<1>5. CASE Toggle \/ Switch
  BY <1>5 DEF Toggle, Switch, ToggleStop, ToggleStart, ToggleOpen, TogglePoll, AudioStart, playout, capture
<1>6. CASE Hangup \/ HangupStop \/ NextCall
  BY <1>6 DEF Hangup, HangupStop, NextCall, Engines, playout, capture
<1>7. CASE Join
  BY <1>7 DEF Join, NextStart, NextOpen, NextPoll, AudioStart, Begin, playout, capture, Engines
<1>8. Watchdog("now") \/ Watchdog("former") => \E e \in Engines : Watchdog(e)
  BY DEF Engines
<1> QED
  BY <1>1, <1>2, <1>3, <1>4, <1>5, <1>6, <1>7, <1>8 DEF Next, RecvTask

-----------------------------------------------------------------------------
(* The rings                                                               *)

LEMMA PlayRingStep ==
  ASSUME Typed, Coordinated, PlayRing, [Next]_vars, ~raced'
  PROVE  PlayRing'
<1> USE Capacities DEF Typed, Copies
<1>0. /\ play.w \in Index(PlayCap) /\ play.r \in Index(PlayCap)
      /\ play = [w |-> play.w, r |-> play.r, buf |-> play.buf]
      /\ play.buf \in [Index(PlayCap) -> {"old", "new", "torn"}]
  BY DEF Rings
<1>1. CASE UNCHANGED playout
  BY <1>1 DEF playout, PlayRing, Accounted
<1>2. CASE PlayBegin
  BY <1>2 DEF PlayBegin, PlayRing, Accounted
<1>3. CASE PlayEnd
  <2>1. /\ heard = play.r /\ AvailableRead(play, PlayCap) >= 1
        /\ play' = [play EXCEPT !.r = Plus(heard, 1, PlayCap), !.buf[heard] = "old"]
        /\ fill' = fill /\ heard' = Idle
    BY <1>3, AvailableIs DEF PlayEnd, Index, PlayRing
  <2>2. Plus(play.r, 0, PlayCap) = play.r
    BY <1>0, PlusIs DEF Index
  <2>3. /\ play'.w = play.w /\ play'.r = Plus(play.r, 1, PlayCap)
        /\ play'.buf = [play.buf EXCEPT ![play.r] = "old"]
    BY <1>0, <2>1
  <2>4. \A i \in Index(PlayCap) :
          play'.buf[i] = IF i = Plus(play.r, 0, PlayCap) THEN "old" ELSE play.buf[i]
    BY <1>0, <2>2, <2>3
  <2>5. \A i \in Index(PlayCap) :
          play'.buf[i] = IF \E k \in 0..(1 - 1) : i = Plus(play.r, k, PlayCap)
                         THEN "old" ELSE play.buf[i]
    <3>1. \A k : k \in 0..(1 - 1) <=> k = 0
      OBVIOUS
    <3> QED
      BY <2>4, <3>1
  <2>6. ASSUME NEW next, next = play', NEW writing \in BOOLEAN, Accounted(play, writing, PlayCap)
        PROVE  /\ Accounted(next, writing, PlayCap)
               /\ AvailableRead(next, PlayCap) = AvailableRead(play, PlayCap) - 1
    <3>1. 1 \in 1..(PlayCap - 1) /\ AvailableRead(play, PlayCap) >= 1
      BY <2>1
    <3>2. /\ next.w = play.w /\ next.r = Plus(play.r, 1, PlayCap)
          /\ \A i \in Index(PlayCap) :
               next.buf[i] = IF \E k \in 0..(1 - 1) : i = Plus(play.r, k, PlayCap)
                             THEN "old" ELSE play.buf[i]
      BY <2>3, <2>5, <2>6
    <3> QED
      BY <2>6, <3>1, <3>2, ReadKeeps
  <2>7. /\ Accounted(play', fill # Idle, PlayCap)
        /\ AvailableRead(play', PlayCap) = AvailableRead(play, PlayCap) - 1
    BY <2>6 DEF PlayRing
  <2>8. AvailableWrite(play', PlayCap) = AvailableWrite(play, PlayCap) + 1
        /\ AvailableWrite(play, PlayCap) \in Int
    BY <2>7, AvailableIs DEF AvailableWrite, Index
  <2> QED
    BY <2>1, <2>3, <2>7, <2>8 DEF PlayRing, Accounted
<1>4. CASE Write
  <2>1. CASE AvailableWrite(play, PlayCap) > 0
    <3>1. fill = Idle /\ Accounted(play, FALSE, PlayCap)
      BY <1>4 DEF Write, PlayRing, Accounted
    <3>2. /\ play' = [play EXCEPT !.buf[play.w] = Written(@)] /\ fill' = play.w /\ heard' = heard
      BY <1>4, <2>1 DEF Write
    <3>3. Accounted(play', TRUE, PlayCap) /\ play'.w = play.w /\ play'.r = play.r
      BY <2>1, <3>1, <3>2, WriteKeeps
    <3>4. AvailableRead(play', PlayCap) = AvailableRead(play, PlayCap)
      BY <3>3 DEF AvailableRead
    <3>5. fill' # Idle
      BY <1>0, <3>2
    <3> QED
      BY <2>1, <3>2, <3>3, <3>4, <3>5 DEF PlayRing, AvailableWrite, Accounted
  <2>2. CASE ~(AvailableWrite(play, PlayCap) > 0)
    <3>1. UNCHANGED playout
      BY <1>4, <2>2 DEF Write, playout
    <3> QED
      BY <1>1, <3>1
  <2> QED
    BY <2>1, <2>2
<1>5. CASE Publish
  <2>1. /\ fill # Idle /\ fill = play.w /\ fill' = Idle /\ heard' = heard
        /\ play' = [play EXCEPT !.w = Plus(play.w, 1, PlayCap)]
        /\ AvailableWrite(play, PlayCap) > 0
    BY <1>5 DEF Publish, PlayRing
  <2>2. Accounted(play, TRUE, PlayCap)
    BY <2>1 DEF PlayRing, Accounted
  <2>3. /\ Accounted(play', FALSE, PlayCap) /\ play'.r = play.r
        /\ AvailableRead(play', PlayCap) = AvailableRead(play, PlayCap) + 1
    <3>1. ASSUME NEW next, next = play'
          PROVE  /\ Accounted(next, FALSE, PlayCap) /\ next.r = play.r
                 /\ AvailableRead(next, PlayCap) = AvailableRead(play, PlayCap) + 1
      <4>1. next = [play EXCEPT !.w = Plus(play.w, 1, PlayCap)]
        BY <2>1, <3>1
      <4>2. play \in Rings(PlayCap) /\ PlayCap \in Nat \ {0} /\ AvailableWrite(play, PlayCap) > 0
        BY <2>1
      <4> HIDE Capacities DEF Typed, Copies
      <4> QED
        BY <2>2, <4>1, <4>2, PublishKeeps
    <3> QED
      BY <3>1
  <2>4. AvailableRead(play, PlayCap) \in Nat
    BY AvailableIs DEF Index
  <2> QED
    BY <2>1, <2>3, <2>4 DEF PlayRing, Accounted
<1>6. ASSUME NEW e \in Engines, RestartClear(e)
      PROVE  PlayRing'
  <2>1. heard' = Idle /\ fill' = Idle /\ play' = Empty(PlayCap)
    BY <1>6 DEF RestartClear, Coordinated
  <2> QED
    BY <2>1, EmptyRing DEF PlayRing, Accounted
<1> QED
  BY <1>1, <1>2, <1>3, <1>4, <1>5, <1>6, PlayoutTouched

LEMMA CaptRingStep ==
  ASSUME Typed, Coordinated, CaptRing, [Next]_vars
  PROVE  CaptRing'
<1> USE Capacities DEF Typed, Copies
<1>0. /\ capt.w \in Index(CaptCap) /\ capt.r \in Index(CaptCap)
      /\ capt = [w |-> capt.w, r |-> capt.r, buf |-> capt.buf]
      /\ capt.buf \in [Index(CaptCap) -> {"old", "new", "torn"}]
  BY DEF Rings
<1>1. CASE UNCHANGED capture
  BY <1>1 DEF capture, CaptRing, Accounted
<1>2. CASE CaptureBegin
  <2> SUFFICES ASSUME clean PROVE CaptRing'
    BY <1>2 DEF CaptureBegin, CaptRing
  <2>1. /\ spoken = Idle /\ AvailableWrite(capt, CaptCap) > 0 /\ spoken' = capt.w /\ send' = send
        /\ capt' = [capt EXCEPT !.buf[capt.w] = Written(@)]
    BY <1>2 DEF CaptureBegin
  <2>2. Accounted(capt, FALSE, CaptCap)
    BY <2>1 DEF CaptRing, Accounted
  <2>3. Accounted(capt', TRUE, CaptCap) /\ capt'.w = capt.w /\ capt'.r = capt.r
    BY <2>1, <2>2, WriteKeeps
  <2>4. AvailableRead(capt', CaptCap) = AvailableRead(capt, CaptCap)
    BY <2>3 DEF AvailableRead
  <2>5. spoken' # Idle
    BY <1>0, <2>1
  <2> QED
    BY <2>1, <2>3, <2>4, <2>5 DEF CaptRing, AvailableWrite, Accounted
<1>3. CASE CaptureEnd
  <2> SUFFICES ASSUME clean PROVE CaptRing'
    BY <1>3 DEF CaptureEnd, CaptRing
  <2>1. /\ spoken # Idle /\ spoken = capt.w /\ AvailableWrite(capt, CaptCap) > 0
        /\ spoken' = Idle /\ send' = send
        /\ capt' = [capt EXCEPT !.w = Plus(capt.w, 1, CaptCap)]
    BY <1>3 DEF CaptureEnd, CaptRing
  <2>2. Accounted(capt, TRUE, CaptCap)
    BY <2>1 DEF CaptRing, Accounted
  <2>3. /\ Accounted(capt', FALSE, CaptCap) /\ capt'.r = capt.r
        /\ AvailableRead(capt', CaptCap) = AvailableRead(capt, CaptCap) + 1
    BY <2>1, <2>2, PublishKeeps
  <2>4. AvailableRead(capt, CaptCap) \in Nat
    BY AvailableIs DEF Index
  <2> QED
    BY <2>1, <2>3, <2>4 DEF CaptRing, Accounted
<1>4. CASE ReadBegin
  BY <1>4 DEF ReadBegin, CaptRing, Accounted
<1>5. CASE ReadEnd
  <2> SUFFICES ASSUME clean PROVE CaptRing'
    BY <1>5 DEF ReadEnd, CaptRing
  <2> DEFINE b == [i \in Index(CaptCap) |-> IF i \in Taken THEN "old" ELSE capt.buf[i]]
  <2>1. /\ send = capt.r /\ AvailableRead(capt, CaptCap) >= SendFrames /\ send' = Idle
        /\ spoken' = spoken
        /\ capt' = [capt EXCEPT !.r = Plus(send, SendFrames, CaptCap), !.buf = b]
    BY <1>5 DEF ReadEnd, CaptRing
  <2>2. /\ capt'.w = capt.w /\ capt'.r = Plus(capt.r, SendFrames, CaptCap) /\ capt'.buf = b
    BY <1>0, <2>1
  <2>3. \A i \in Index(CaptCap) :
          capt'.buf[i] = IF \E k \in 0..(SendFrames - 1) : i = Plus(capt.r, k, CaptCap)
                         THEN "old" ELSE capt.buf[i]
    BY <2>1, <2>2 DEF Taken
  <2>4. ASSUME NEW next, next = capt', NEW writing \in BOOLEAN, Accounted(capt, writing, CaptCap)
        PROVE  /\ Accounted(next, writing, CaptCap)
               /\ AvailableRead(next, CaptCap) = AvailableRead(capt, CaptCap) - SendFrames
    <3>1. /\ next.w = capt.w /\ next.r = Plus(capt.r, SendFrames, CaptCap)
          /\ \A i \in Index(CaptCap) :
               next.buf[i] = IF \E k \in 0..(SendFrames - 1) : i = Plus(capt.r, k, CaptCap)
                             THEN "old" ELSE capt.buf[i]
      BY <2>2, <2>3, <2>4
    <3>2. capt \in Rings(CaptCap) /\ CaptCap \in Nat \ {0} /\ SendFrames \in 1..(CaptCap - 1)
      OBVIOUS
    <3>3. AvailableRead(capt, CaptCap) >= SendFrames /\ Accounted(capt, writing, CaptCap)
      BY <2>1, <2>4
    <3> HIDE Capacities DEF Typed, Copies, b
    <3> QED
      BY <3>1, <3>2, <3>3, ReadKeeps
  <2>5. /\ Accounted(capt', spoken # Idle, CaptCap)
        /\ AvailableRead(capt', CaptCap) = AvailableRead(capt, CaptCap) - SendFrames
    BY <2>4 DEF CaptRing
  <2>6. AvailableWrite(capt', CaptCap) = AvailableWrite(capt, CaptCap) + SendFrames
        /\ AvailableWrite(capt, CaptCap) \in Int
    BY <2>5, AvailableIs DEF AvailableWrite, Index
  <2>7. send' \notin Index(CaptCap)
    BY <2>1
  <2>8. spoken # Idle => spoken' = capt'.w /\ AvailableWrite(capt', CaptCap) > 0
    BY <2>1, <2>2, <2>6 DEF CaptRing
  <2> HIDE DEF b
  <2> QED
    BY <2>1, <2>5, <2>7, <2>8 DEF CaptRing
<1>6. CASE SendEnds \/ SendBegins
  <2>1. send' \notin Index(CaptCap) /\ UNCHANGED <<capt, spoken, clean>>
    BY <1>6 DEF SendEnds, SendBegins
  <2> QED
    BY <2>1 DEF CaptRing, Accounted
<1>7. ASSUME NEW e \in Engines, RestartClear(e)
      PROVE  CaptRing'
  <2>1. /\ spoken' = Idle /\ capt' = Empty(CaptCap) /\ send' = send
        /\ clean' => send \in {Idle, Gone}
    BY <1>7 DEF RestartClear, Coordinated
  <2>2. clean' => send' \notin Index(CaptCap)
    BY <2>1
  <2> QED
    BY <2>1, <2>2, EmptyRing DEF CaptRing, Accounted
<1> QED
  BY <1>1, <1>2, <1>3, <1>4, <1>5, <1>6, <1>7, CaptureTouched

-----------------------------------------------------------------------------
(* The theorems                                                            *)

\* The invariant holds when the first call has just begun.
LEMMA InvInit == Init => Inv
<1> SUFFICES ASSUME Init PROVE Inv
  OBVIOUS
<1> USE Capacities
<1>1. /\ Empty(PlayCap) \in Rings(PlayCap) /\ Empty(CaptCap) \in Rings(CaptCap)
      /\ Accounted(Empty(PlayCap), FALSE, PlayCap) /\ Accounted(Empty(CaptCap), FALSE, CaptCap)
  BY EmptyRing
<1>2. 0 \in Index(PlayCap)
  BY DEF Index
<1>3. TypeOK
  <2>1. Flags
    BY DEF Init, Flags
  <2>2. States /\ Counts /\ Copies
    BY <1>2, RingAssumption DEF Init, States, Counts, Copies, Engines, Stages
  <2> QED
    BY <1>1, <2>1, <2>2, TypeParts DEF Init, Typed
<1>4. Coordinated /\ FlagTellsStreams
  BY DEF Init, Coordinated, FlagTellsStreams, OneOpens, Places, Engines
<1>5. PlayRing /\ CaptRing
  BY <1>1 DEF Init, PlayRing, CaptRing, Accounted
<1> QED
  BY <1>3, <1>4, <1>5 DEF Inv

\* Every step keeps it, up to the one after which nothing is followed.
LEMMA InvStep ==
  ASSUME Inv, [Next]_vars
  PROVE  Inv'
<1>1. Typed
  BY TypeParts DEF Inv
<1>2. TypeOK'
  <2>1. Typed'
    BY <1>1, TypedStep
  <2>2. Typed' => TypeOK'
    BY TypeParts, PTL
  <2> QED
    BY <2>1, <2>2
<1>3. CASE UNCHANGED vars
  <2>1. FlagTellsStreams' /\ (~raced' => Coordinated')
    BY <1>3 DEF vars, tasks, streams, playout, capture, Inv, FlagTellsStreams, Coordinated, Places
  <2>2. raced' = raced
    BY <1>3 DEF vars
  <2> QED
    BY <1>1, <1>2, <2>1, <2>2, PlayRingStep, CaptRingStep DEF Inv
<1>4. CASE Next
  <2>1. ~raced
    BY <1>4 DEF Next
  <2>2. Coordinated /\ Control /\ Copying /\ FlagTellsStreams /\ PlayRing /\ CaptRing
    BY <2>1, CoordinatedIs DEF Inv
  <2>3. FlagTellsStreams' /\ (~raced' => Control') /\ Copying'
    BY <1>1, <1>4, <2>2, ControlStep, CopyingStep
  <2>4. Control' /\ Copying' => Coordinated'
    BY CoordinatedIs, PTL
  <2>5. ~raced' => PlayRing' /\ CaptRing'
    BY <1>1, <2>2, PlayRingStep, CaptRingStep
  <2> QED
    BY <1>2, <2>3, <2>4, <2>5 DEF Inv
<1> QED
  BY <1>3, <1>4

\* The invariant holds in every reachable state of the engine's two tasks, the
\* playout and capture callbacks, the watchdogs, the switches and the calls,
\* whatever their interleaving.
THEOREM Inductive == Spec => []Inv
<1>1. Inv /\ [Next]_vars => Inv'
  BY InvStep
<1> QED
  BY <1>1, InvInit, PTL DEF Spec

\* The rings, the flags and the places of the tasks keep their types.
THEOREM SpecTypeOK == Spec => []TypeOK
<1>1. Inv => TypeOK
  BY DEF Inv
<1> QED
  BY <1>1, Inductive, PTL

\* The playout callback copies a frame that the recv task wrote whole and that was
\* not copied before, and no frame is written over an unread one: for a ring of
\* any size, through calls, switches and restarts by watchdogs at any point of
\* each other, until a clear made outside the lock meets streams that run.
THEOREM FramesArePlayedOnce == Spec => []PlayedOnce
<1>1. Inv => PlayedOnce
  <2> SUFFICES ASSUME Inv, ~raced PROVE PlayedOnce
    BY DEF PlayedOnce
  <2>0. PlayRing /\ play \in Rings(PlayCap) /\ (heard # Idle => heard \in Index(PlayCap))
    BY DEF Inv, TypeOK
  <2>1. heard # Idle => heard = play.r /\ AvailableRead(play, PlayCap) > 0
    BY <2>0 DEF PlayRing
  <2>2. heard # Idle => From(play.r, heard, PlayCap) = 0
    <3>1. ASSUME NEW i \in Index(PlayCap)
          PROVE  From(i, i, PlayCap) = 0
      <4>1. i \in Int /\ PlayCap \in Nat \ {0}
        BY Capacities DEF Index
      <4> QED
        BY <4>1, FromIs
    <3> QED
      BY <2>0, <2>1, <3>1
  <2>3. \A i \in Index(PlayCap) : play.buf[i] # "torn"
    BY <2>0 DEF PlayRing, Accounted
  <2>4. heard # Idle => play.buf[heard] = "new"
    BY <2>0, <2>1, <2>2 DEF PlayRing, Accounted
  <2> QED
    BY <2>3, <2>4 DEF PlayedOnce
<1> QED
  BY <1>1, Inductive, PTL

\* The send task copies frames that the capture callback wrote whole and that were
\* not copied before, unless a restart has cleared the ring under a read.
THEOREM FramesAreSentOnce == Spec => []SentOnce
<1>1. Inv => SentOnce
  <2> SUFFICES ASSUME Inv, clean, ~raced PROVE SentOnce
    BY DEF SentOnce
  <2>1. Accounted(capt, spoken # Idle, CaptCap) /\ capt \in Rings(CaptCap)
    BY TypeParts DEF Inv, CaptRing, Typed
  <2>2. ASSUME send \in Index(CaptCap), NEW i \in Taken
        PROVE  capt.buf[i] = "new"
    <3>1. send = capt.r /\ AvailableRead(capt, CaptCap) >= SendFrames
      BY <2>2 DEF Inv, CaptRing
    <3>2. PICK k \in 0..(SendFrames - 1) : i = Plus(capt.r, k, CaptCap)
      BY <3>1 DEF Taken
    <3>3. capt.r \in 0..(CaptCap - 1) /\ CaptCap \in Nat \ {0} /\ SendFrames \in 1..(CaptCap - 1)
      BY <2>1, Capacities DEF Rings, Index
    <3>4. /\ i = (IF capt.r + k < CaptCap THEN capt.r + k ELSE capt.r + k - CaptCap)
          /\ i \in Index(CaptCap)
      <4>1. capt.r \in Index(CaptCap) /\ k \in 0..CaptCap
        BY <3>3 DEF Index
      <4> QED
        BY <3>2, <3>3, <4>1, PlusIs
    <3>5. From(capt.r, i, CaptCap) = (IF capt.r <= i THEN i - capt.r ELSE i - capt.r + CaptCap)
      BY <2>1, <3>3, <3>4, FromIs DEF Rings
    <3>6. From(capt.r, i, CaptCap) = k
      BY <3>3, <3>4, <3>5
    <3>7. AvailableRead(capt, CaptCap) \in Nat
      BY <2>1, <3>3, AvailableIs DEF Index
    <3>8. k < AvailableRead(capt, CaptCap)
      BY <3>1, <3>3, <3>7
    <3> QED
      BY <2>1, <3>4, <3>6, <3>8 DEF Accounted
  <2> QED
    BY <2>1, <2>2 DEF SentOnce, Accounted
<1> QED
  BY <1>1, Inductive, PTL

\* started says whether the streams run whenever nobody is opening them, however
\* the watchdogs, the switches and the calls interleave.
THEOREM FlagIsRight == Spec => []FlagTellsStreams
<1>1. Inv => FlagTellsStreams
  BY DEF Inv
<1> QED
  BY <1>1, Inductive, PTL
=============================================================================
