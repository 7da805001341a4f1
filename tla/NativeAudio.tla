----------------------------- MODULE NativeAudio -----------------------------
(***************************************************************************)
(* Audio of the Android client: two rings between the engine's tasks and   *)
(* the callbacks of the Oboe streams (wzp-native/src/lib.rs and            *)
(* cpp/oboe_bridge.cpp), the watchdog that restarts the streams when the   *)
(* playout callback stops, and what starts and stops them: the call        *)
(* (engine.rs of the desktop crate) and the speaker and Bluetooth switches *)
(* (lib.rs there).                                                         *)
(*                                                                         *)
(* Audio moves in frames of 20 ms, a callback's burst; the rings hold      *)
(* their capacity less one.  Of a slot the model knows whether it was      *)
(* read since it was written.  A callback or task that copies a frame      *)
(* holds its slot for a step, between the load of its index and the store. *)
(* Oboe is external: closing a stream waits for the callback in progress,  *)
(* a start may fail, and the playout callback may stop being called.       *)
(***************************************************************************)
EXTENDS Integers

CONSTANTS
  PlayCap, CaptCap,  \* the capacities of the two rings in frames: 8 each
  SendFrames,        \* frames the send task reads at once: 1 or 2
  StallWrites,       \* writes without a read before a restart: 50
  MaxFaults          \* bound: starts of the streams that fail

ASSUME RingAssumption ==
  /\ PlayCap \in Nat \ 0..1 /\ CaptCap \in Nat /\ SendFrames \in 1..CaptCap - 1
  /\ StallWrites \in Nat \ {0} /\ MaxFaults \in Nat

VARIABLES
  call,       \* "on", "ending" (running is FALSE), "over", and the next one's
              \* audio_start: "start", "open", "poll"
  started,    \* started
  holder,     \* who holds its lock across steps: "none", "switch", "join"
  running,    \* g_running: the streams are open and their callbacks run
  alive,      \* the system calls the playout callback
  faults,     \* starts that have failed so far
  recv,       \* the recv tasks, of the call and of the former one: "gone",
              \* "idle", and the watchdog's "stop", "clear", "start", "open",
              \* "poll"
  ui,         \* a switch: "idle", "stop", "start", "open", "poll"
  stall,      \* playout_stall_writes
  lastRead,   \* playout_last_read_idx
  play,       \* the playout ring: write and read index, and for each slot
              \* "old", "new" or, a frame written over an unread one, "torn"
  fill,       \* the recv task's write: the index it loaded, or Idle
  heard,      \* the playout callback: the index it loaded, or Idle
  capt,       \* the capture ring
  spoken,     \* the capture callback: the index it loaded, or Idle
  send,       \* the send task: the index it loaded, Idle, or Gone
  clean,      \* history: no read of captured frames was under way at the
              \* last clear
  raced       \* history: two threads were in wzp_oboe_start at once, or a
              \* watchdog's clear met streams that another start opened, or a
              \* write of the next call

streams == <<started, holder, running, alive, faults>>
tasks == <<call, recv, ui>>
watch == <<stall, lastRead>>
playout == <<play, fill, heard>>
capture == <<capt, spoken, send, clean>>
vars == <<tasks, streams, watch, playout, capture, raced>>

Idle == -1
Gone == -2
Index(cap) == 0..cap - 1
Engines == {"now", "former"}
Stages == {"stop", "clear", "start", "open", "poll"}

Plus(i, n, cap) == (i + n) % cap

\* What a slot holds after a frame is written to it.
Written(slot) == IF slot = "old" THEN "new" ELSE "torn"

\* available_read, available_write: one slot stays free.
AvailableRead(ring, cap) == (ring.w - ring.r) % cap
AvailableWrite(ring, cap) == cap - 1 - AvailableRead(ring, cap)

Empty(cap) == [w |-> 0, r |-> 0, buf |-> [i \in Index(cap) |-> "old"]]

Rings(cap) ==
  [w : Index(cap), r : Index(cap), buf : [Index(cap) -> {"old", "new", "torn"}]]

TypeOK ==
  /\ call \in {"on", "ending", "over", "start", "open", "poll"}
  /\ recv \in [Engines -> {"gone", "idle"} \union Stages]
  /\ ui \in {"idle"} \union (Stages \ {"clear"})
  /\ started \in BOOLEAN /\ running \in BOOLEAN /\ alive \in BOOLEAN
  /\ holder \in {"none", "switch", "join"} /\ faults \in 0..MaxFaults
  /\ stall \in 0..StallWrites /\ lastRead \in Index(PlayCap)
  /\ play \in Rings(PlayCap) /\ capt \in Rings(CaptCap)
  /\ fill \in Index(PlayCap) \union {Idle}
  /\ heard \in Index(PlayCap) \union {Idle} /\ spoken \in Index(CaptCap) \union {Idle}
  /\ send \in Index(CaptCap) \union {Idle, Gone}
  /\ clean \in BOOLEAN /\ raced \in BOOLEAN

\* A call has just begun, its first in the process.
Init ==
  /\ call = "on" /\ recv = [e \in Engines |-> IF e = "now" THEN "idle" ELSE "gone"]
  /\ ui = "idle"
  /\ started = TRUE /\ holder = "none" /\ running = TRUE /\ alive = TRUE /\ faults = 0
  /\ stall = 0 /\ lastRead = 0
  /\ play = Empty(PlayCap) /\ fill = Idle /\ heard = Idle
  /\ capt = Empty(CaptCap) /\ spoken = Idle /\ send = Idle /\ clean = TRUE
  /\ raced = FALSE

-----------------------------------------------------------------------------
(* The callbacks.  They return at once unless g_running; with nothing to   *)
(* read the one plays silence, with no room the other drops the frame.     *)

PlayBegin ==
  /\ running /\ alive /\ heard = Idle /\ AvailableRead(play, PlayCap) > 0
  /\ heard' = play.r
  /\ UNCHANGED <<tasks, streams, watch, play, fill, capture, raced>>

PlayEnd ==
  /\ heard # Idle
  /\ play' = [play EXCEPT !.r = Plus(heard, 1, PlayCap), !.buf[heard] = "old"]
  /\ heard' = Idle
  /\ UNCHANGED <<tasks, streams, watch, fill, capture, raced>>

CaptureBegin ==
  /\ running /\ spoken = Idle /\ AvailableWrite(capt, CaptCap) > 0
  /\ spoken' = capt.w
  /\ capt' = [capt EXCEPT !.buf[capt.w] = Written(@)]
  /\ UNCHANGED <<tasks, streams, watch, playout, send, clean, raced>>

CaptureEnd ==
  /\ spoken # Idle
  /\ capt' = [capt EXCEPT !.w = Plus(spoken, 1, CaptCap)]
  /\ spoken' = Idle
  /\ UNCHANGED <<tasks, streams, watch, playout, send, clean, raced>>

\* The system stops calling the playout callback: seen on some devices.
PlayoutStops ==
  /\ running /\ alive /\ heard = Idle
  /\ alive' = FALSE
  /\ UNCHANGED <<tasks, started, holder, running, faults, watch, playout, capture, raced>>

-----------------------------------------------------------------------------
(* Opening and closing the streams                                         *)

\* Closing a stream waits for its callback.
CallbacksDone == heard = Idle /\ spoken = Idle

\* audio_stop: under the lock; nothing unless started.
AudioStop ==
  /\ holder = "none"
  /\ IF started
       THEN /\ CallbacksDone
            /\ started' = FALSE /\ running' = FALSE /\ alive' = FALSE
       ELSE UNCHANGED <<started, running, alive>>
  /\ UNCHANGED <<holder, faults>>

\* Where the threads are that may open streams: in "open" one is past its look
\* at g_running, in "poll" it has set it.
Places == {call, ui, recv["now"], recv["former"]}

\* wzp_oboe_start from the opening of the streams on: g_running is set before
\* they are started, and both must report Started within two seconds, or all
\* is closed again.
OpenStreams ==
  /\ running' = TRUE /\ alive' = TRUE
  /\ UNCHANGED faults

\* A clear that a watchdog has yet to do will meet these streams.
MeetsClear == raced' = (raced \/ \E e \in Engines : recv[e] = "clear")

OpenFails ==
  /\ faults < MaxFaults
  /\ faults' = faults + 1
  /\ UNCHANGED <<running, alive>>

PollFails ==
  /\ faults < MaxFaults /\ CallbacksDone
  /\ faults' = faults + 1
  /\ running' = FALSE /\ alive' = FALSE

-----------------------------------------------------------------------------
(* The recv task: audio_write_playout                                      *)

Stalled == play.r = lastRead /\ stall >= StallWrites

\* The ring has room: the frame is copied in, and published by the next step.
Write ==
  /\ recv["now"] = "idle" /\ fill = Idle /\ ~Stalled
  /\ IF play.r = lastRead
       THEN stall' = stall + 1 /\ UNCHANGED lastRead
       ELSE stall' = 0 /\ lastRead' = play.r
  /\ IF AvailableWrite(play, PlayCap) > 0
       THEN fill' = play.w /\ play' = [play EXCEPT !.buf[play.w] = Written(@)]
       ELSE UNCHANGED <<play, fill>>
  /\ UNCHANGED <<tasks, streams, heard, capture, raced>>

Publish ==
  /\ fill # Idle
  /\ play' = [play EXCEPT !.w = Plus(fill, 1, PlayCap)]
  /\ fill' = Idle
  /\ UNCHANGED <<tasks, streams, watch, heard, capture, raced>>

\* The watchdog's next stage, and its last stores.
To(e, stage) == recv' = [recv EXCEPT ![e] = stage] /\ UNCHANGED <<call, ui>>
Done(e) ==
  /\ To(e, IF e = "now" THEN "idle" ELSE "gone")
  /\ lastRead' = 0

\* Mutant: only streams that are started are restarted.
RestartStarted ==
  /\ recv["now"] = "idle" /\ fill = Idle /\ Stalled /\ started
  /\ stall' = 0
  /\ To("now", "stop")
  /\ UNCHANGED <<streams, lastRead, playout, capture, raced>>

\* The read index has not moved for StallWrites writes: restart.
Restart ==
  /\ recv["now"] = "idle" /\ fill = Idle /\ Stalled
  /\ stall' = 0
  /\ To("now", "stop")
  /\ UNCHANGED <<streams, lastRead, playout, capture, raced>>

\* Mutant: the rings are cleared with the streams running.
RestartKeeps(e) ==
  /\ recv[e] = "stop"
  /\ To(e, "clear")
  /\ UNCHANGED <<streams, watch, playout, capture, raced>>

\* Streams that another watchdog has opened and not yet marked are not stopped.
RestartStop(e) ==
  /\ recv[e] = "stop" /\ AudioStop
  /\ To(e, "clear")
  /\ raced' = (raced \/ (running /\ ~started))
  /\ UNCHANGED <<watch, playout, capture>>

\* The four stores.  A read of captured frames that begins among them is, in
\* what it leaves behind, one that was under way.
RestartClear(e) ==
  /\ recv[e] = "clear"
  /\ play' = Empty(PlayCap) /\ capt' = Empty(CaptCap)
  /\ clean' = (send \in {Idle, Gone})
  /\ raced' = (raced \/ fill # Idle)
  /\ To(e, "start")
  /\ UNCHANGED <<streams, stall, lastRead, fill, heard, spoken, send>>

\* wzp_oboe_start, without the lock, looks at g_running first.
RestartStart(e) ==
  /\ recv[e] = "start"
  /\ IF running
       THEN Done(e) /\ UNCHANGED raced
       ELSE To(e, "open") /\ raced' = (raced \/ "open" \in Places) /\ UNCHANGED lastRead
  /\ UNCHANGED <<streams, stall, playout, capture>>

RestartOpen(e) ==
  /\ recv[e] = "open"
  /\ \/ OpenStreams /\ To(e, "poll") /\ MeetsClear /\ UNCHANGED lastRead
     \/ OpenFails /\ Done(e) /\ UNCHANGED raced
  /\ UNCHANGED <<started, holder, stall, playout, capture>>

RestartMark(e) ==
  /\ recv[e] = "poll"
  /\ \/ holder = "none" /\ started' = TRUE /\ UNCHANGED <<running, alive, faults>>
     \/ PollFails /\ UNCHANGED started
  /\ Done(e)
  /\ UNCHANGED <<holder, stall, playout, capture, raced>>

\* The task sees that its call has ended.
RecvEnds ==
  /\ recv["now"] = "idle" /\ fill = Idle /\ call # "on"
  /\ To("now", "gone")
  /\ UNCHANGED <<streams, watch, playout, capture, raced>>

-----------------------------------------------------------------------------
(* The send task                                                           *)

\* The slots of the read under way.
Taken == {Plus(send, i, CaptCap) : i \in 0..SendFrames - 1}

\* Mutant: whatever is there is taken for a whole frame.
ReadPartial ==
  /\ send = Idle /\ AvailableRead(capt, CaptCap) > 0
  /\ send' = capt.r
  /\ UNCHANGED <<tasks, streams, watch, playout, capt, spoken, clean, raced>>

\* Nothing is read before a whole encoder frame is there.
ReadBegin ==
  /\ send = Idle /\ AvailableRead(capt, CaptCap) >= SendFrames
  /\ send' = capt.r
  /\ UNCHANGED <<tasks, streams, watch, playout, capt, spoken, clean, raced>>

ReadEnd ==
  /\ send \in Index(CaptCap)
  /\ capt' = [capt EXCEPT !.r = Plus(send, SendFrames, CaptCap),
                          !.buf = [i \in Index(CaptCap) |-> IF i \in Taken THEN "old" ELSE @[i]]]
  /\ send' = Idle
  /\ UNCHANGED <<tasks, streams, watch, playout, spoken, clean, raced>>

SendEnds ==
  /\ send = Idle /\ call # "on"
  /\ send' = Gone
  /\ UNCHANGED <<tasks, streams, watch, playout, capt, spoken, clean, raced>>

-----------------------------------------------------------------------------
(* The switches                                                            *)

\* audio_start, by the switch or the next call: it takes the lock and returns
\* if started; wzp_oboe_start refuses if g_running; else the lock is held until
\* the streams are up or have failed.
AudioStart(who) ==
  /\ holder' = who
  /\ raced' = (raced \/ "open" \in Places)
  /\ UNCHANGED <<started, running, alive, faults, watch, playout, capture>>

\* set_speakerphone, set_bluetooth_sco: if the streams run, stop and start.
Toggle ==
  /\ ui = "idle" /\ running
  /\ ui' = "stop"
  /\ UNCHANGED <<call, recv, streams, watch, playout, capture, raced>>

ToggleStop ==
  /\ ui = "stop" /\ AudioStop
  /\ ui' = "start"
  /\ UNCHANGED <<call, recv, watch, playout, capture, raced>>

ToggleStart ==
  /\ ui = "start" /\ holder = "none"
  /\ IF started \/ running
       THEN ui' = "idle" /\ UNCHANGED <<streams, watch, playout, capture, raced>>
       ELSE ui' = "open" /\ AudioStart("switch")
  /\ UNCHANGED <<call, recv>>

ToggleOpen ==
  /\ ui = "open"
  /\ \/ OpenStreams /\ MeetsClear /\ ui' = "poll" /\ UNCHANGED holder
     \/ OpenFails /\ ui' = "idle" /\ holder' = "none" /\ UNCHANGED raced
  /\ UNCHANGED <<call, recv, started, watch, playout, capture>>

\* Mutant: the result of the start is not looked at.
ToggleTrusts ==
  /\ ui = "poll"
  /\ started' = TRUE
  /\ PollFails \/ UNCHANGED <<running, alive, faults>>
  /\ holder' = "none"
  /\ ui' = "idle"
  /\ UNCHANGED <<call, recv, watch, playout, capture, raced>>

TogglePoll ==
  /\ ui = "poll"
  /\ \/ started' = TRUE /\ UNCHANGED <<running, alive, faults>>
     \/ PollFails /\ UNCHANGED started
  /\ holder' = "none"
  /\ ui' = "idle"
  /\ UNCHANGED <<call, recv, watch, playout, capture, raced>>

-----------------------------------------------------------------------------
(* The calls                                                               *)

\* CallEngine::stop: the tasks are told, but not waited for.
Hangup ==
  /\ call = "on"
  /\ call' = "ending"
  /\ UNCHANGED <<recv, ui, streams, watch, playout, capture, raced>>

HangupStop ==
  /\ call = "ending" /\ AudioStop
  /\ call' = "over"
  /\ UNCHANGED <<recv, ui, watch, playout, capture, raced>>

\* CallEngine::start: audio_stop.  By then the former call's tasks have seen its
\* end and gone, but for a watchdog that is still at work.
NextCall ==
  /\ call = "over" /\ AudioStop
  /\ send = Gone /\ recv["now"] # "idle" /\ recv["former"] = "gone"
  /\ call' = "start"
  /\ recv' = [e \in Engines |-> IF e = "now" THEN "gone" ELSE recv["now"]]
  /\ UNCHANGED <<ui, watch, playout, capture, raced>>

\* The streams are up: the tasks of the call begin, and with them its writes.
Begin ==
  /\ call' = "on"
  /\ recv' = [recv EXCEPT !["now"] = "idle"]
  /\ send' = Idle

\* A pause, and audio_start.
NextStart ==
  /\ call = "start" /\ holder = "none"
  /\ \/ /\ started /\ Begin
        /\ UNCHANGED <<streams, watch, playout, capt, spoken, clean, raced>>
     \/ /\ ~started /\ running
        /\ call' = "over"
        /\ UNCHANGED <<recv, streams, watch, playout, capture, raced>>
     \/ /\ ~started /\ ~running
        /\ call' = "open" /\ AudioStart("join")
        /\ UNCHANGED recv
  /\ UNCHANGED ui

NextOpen ==
  /\ call = "open"
  /\ \/ OpenStreams /\ MeetsClear /\ call' = "poll" /\ UNCHANGED holder
     \/ OpenFails /\ call' = "over" /\ holder' = "none" /\ UNCHANGED raced
  /\ UNCHANGED <<recv, ui, started, watch, playout, capture>>

NextPoll ==
  /\ call = "poll"
  /\ \/ Begin /\ started' = TRUE /\ UNCHANGED <<running, alive, faults>>
     \/ PollFails /\ call' = "over" /\ UNCHANGED <<started, recv, send>>
  /\ holder' = "none"
  /\ UNCHANGED <<ui, watch, playout, capt, spoken, clean, raced>>

-----------------------------------------------------------------------------

Callbacks == PlayBegin \/ PlayEnd \/ CaptureBegin \/ CaptureEnd \/ PlayoutStops
Watchdog(e) ==
  RestartStop(e) \/ RestartClear(e) \/ RestartStart(e) \/ RestartOpen(e) \/ RestartMark(e)
RecvTask == Write \/ Publish \/ Restart \/ Watchdog("now")
SendTask == ReadBegin \/ ReadEnd
Switch == ToggleStop \/ ToggleStart \/ ToggleOpen \/ TogglePoll
Join == NextStart \/ NextOpen \/ NextPoll

\* Two threads that open streams at once write the same two stream pointers, and
\* a clear under a running callback its buffers and indices: data races, and
\* what comes of them is not followed.  NothingRaces asks whether they happen.
Next ==
  /\ ~raced
  /\ \/ Callbacks \/ RecvTask \/ Watchdog("former") \/ RecvEnds
     \/ SendTask \/ SendEnds \/ Toggle \/ Switch \/ Hangup \/ HangupStop \/ NextCall \/ Join

Spec == Init /\ [][Next]_vars

\* The recv task goes on writing (packets come, the speaker is not muted), a
\* switch that was begun goes on, and callbacks under way end.  Strong
\* fairness, since wzp_oboe_stop turns g_running off before it waits for the
\* callbacks: the next ones cannot keep it waiting.
Fairness ==
  /\ SF_vars(RecvTask) /\ SF_vars(Switch)
  /\ WF_vars(PlayEnd) /\ WF_vars(CaptureEnd)

FairSpec == Spec /\ Fairness

-----------------------------------------------------------------------------

\* What the playout callback copies was written and not read before, from the
\* load of its index to the store, and no frame is written over an unread one:
\* nothing is lost, repeated, half overwritten or left over from before a
\* restart, through restarts, switches and calls.  Not promised once a
\* watchdog's clear, outside the lock, has met streams another start opened.
PlayedOnce ==
  ~raced =>
    /\ heard # Idle => play.buf[heard] = "new"
    /\ \A i \in Index(PlayCap) : play.buf[i] # "torn"

\* The same of the frames the send task copies, unless a restart has cleared
\* the ring under a read.
SentOnce ==
  clean /\ ~raced =>
    /\ send \in Index(CaptCap) => \A i \in Taken : capt.buf[i] = "new"
    /\ \A i \in Index(CaptCap) : capt.buf[i] # "torn"

\* But while streams are being opened, started says whether they run: streams
\* that run can be stopped, and the next start is not refused for ever.
FlagTellsStreams ==
  {"open", "poll"} \intersect Places = {} => started = running

\* A call whose playout has stopped gets it back, or ends: the "self-healing
\* behavior" of the watchdog, which no failed start or switch may disable.
StallHeals ==
  call = "on" /\ ~(running /\ alive) ~> call # "on" \/ (running /\ alive) \/ raced

\* "Explicitly stop them here so the mic + speaker are released between calls"
\* (CallEngine::stop).
ReleasedBetweenCalls == call = "over" => ~running

\* "Clear the rings so the restart doesn't read stale data" (the watchdog).
NothingStale == send \in Index(CaptCap) => \A i \in Taken : capt.buf[i] = "new"

\* "SPSC with atomic read/write cursors; producer and consumer are always on
\* different threads" (RingBuffer), "the same logic as the Rust-side audio_stop()
\* + audio_start()" (the watchdog), whose lock keeps two starts apart.
NothingRaces == ~raced

\* "the Oboe playout callback has stopped firing" (the watchdog).
RestartsTheDead == [][Restart => ~(running /\ alive)]_vars
=============================================================================
