# A TLA+ verification project for WarzonePhone (wzp)

wzp is a voice and video calling system: native clients and browsers talk to
relays over QUIC (or WebSocket), a relay forwards media between the members of
a room, clients place direct calls through a signalling connection, and relays
federate with one another. This directory holds TLA+ modules that model the
parts in which tasks, connections, timers and messages interleave, TLC
configurations that check them on small instances, and TLAPS proofs that hold
for every instance. Paths below are relative to the repository, `crates/`
unless said otherwise.

## Inventory of the system

| Part | State | Operations | Hard because | What makes it correct |
|---|---|---|---|---|
| Room mode: `wzp-relay/src/room.rs`, media part of `main.rs`, `ws.rs` | rooms with participants and qualities; keyframe cache, PLI state, stream owners; session table; presence | admission, join, receive and forward, leave, forced leave after a 2 s timeout, cleanup | one task per connection; join and leave take their locks several times; clients reconnect under the same fingerprint | no ghosts on a roster, a fingerprint once, two parties in a call room, every session slot given back, evicted tasks end |
| Direct calls: `signal_hub.rs`, `call_registry.rs`, `_signal` part of `main.rs` | hub: fingerprint to connection; registry: call to state and peer relay | register, offer, answer, hangup, disconnect | each handler locks hub and registry in turn and awaits sends in between; reconnects; no timeouts | hub entries are served, calls end, ringing stops, acceptance connects, rejection never does |
| Cross-relay dispatcher: `main.rs`, `federation.rs` | the registries of two relays and the signals between them | forward, dispatch offer, answer, hangup | a lossy link between two registries that nothing reconciles | both ends route an active call to one another |
| Encrypted media: `wzp-crypto/src/session.rs`, `anti_replay.rs`, `wzp-client/src/encrypted_transport.rs` | keys, per-stream replay window | seal, open, rekey | datagrams are lost, duplicated, reordered; sequence numbers wrap; the ends rekey at different times | nothing twice, nothing fresh refused |
| Federation: `wzp-relay/src/federation.rs` | peer links with active rooms and remote participants, the room-event channel, the stale sweeper | dial, accept, announce, handle signals, sweep, dispatch room events | two relays dial one another; a link ends in two tasks; events are dropped; announcements travel over cycles of relays | every entry is served, no activation is lost on the way, a link that is heard is not swept |
| Signal connection of a client: `desktop/src-tauri/src/lib.rs` | the transport in use, the desired relay, the reconnect guard | register, deregister, receive loop, supervisor | a command, the end of an old loop and a supervisor act on the same state | the transport has a loop, one supervisor, the client stays connected |
| Path selection: `wzp-client/src/dual_path.rs`, `desktop/src-tauri/src/lib.rs` | the race, the report of the other end | race direct and relay path, report, decide | two ends decide separately, on timers | both ends take the direct path or neither does |
| Adaptive quality: `wzp-proto/src/quality.rs`, the engines, room tier in `room.rs` | tier, counters, probe; the encoder's profile; tiers per participant | observe a report, probe, network change, force; recompute the room's tier | hysteresis over sequences of reports, several writers of one atomic and of the encoder, directives sent outside the lock | falls and rises are earned, the encoder follows, the weakest participant decides |
| Jitter buffer: `wzp-proto/src/jitter.rs` | buffer by sequence number, playout position | push, pop, reset for a new sender | playout is clocked by arrivals; wrap-around, eviction at capacity, loss and reordering | in order, each packet once, playout never ahead of the sender |
| Native Android audio: `wzp-native/src/lib.rs` and `cpp/oboe_bridge.cpp`, `desktop/src-tauri/src/engine.rs` and `lib.rs` | two lock-free rings, stream states, the running flag | callbacks, read and write, watchdog restart, speaker switch, start and stop | real-time callbacks, two async tasks and a switch share rings and a flag without a lock | frames once and in order, the flag tells whether streams run, a stalled playout comes back |
| FEC: `wzp-fec/src`, `wzp-client/src/call.rs`, `wzp-relay/src/pipeline.rs` | blocks in progress | add symbols, decode | packing of block and symbol into one header field | any K of K+R symbols give the block back |
| Video, handshake, wire format, codecs, transport, probes, scorers, user interfaces | - | - | - | not modelled, see below |

Components interact through shared objects behind locks (room manager, session
manager, presence, hub, registry, a client's signal state), through channels
(room events, cross-relay signals, federation egress, path reports), through
atomics (the pending profile, the audio rings) and over QUIC streams and
datagrams.

## Modules

| Module | What it is | Proofs |
|---|---|---|
| `RoomManager` | connection tasks of room mode against the shared tables | `RoomManagerProofs` |
| `DirectCall` | signal tasks and dispatchers against hub and registries; implements `CallLife` | `DirectCallProofs` |
| `CallLife` | abstract: what relays promise of a direct call, without tasks and messages | |
| `ReplayWindow` | abstract: what a receiver promises, over numbers that do not wrap | |
| `CryptoSession` | the bitmap window, wire sequence numbers, keys and the path; implements `ReplayWindow` | `MediaPathProofs` |
| `Federation` | relays, their links and the announcements between them | `FederationProofs` |
| `SignalClient` | a client's signal connection and its supervisor | `SignalClientProofs` |
| `PathSelection` | two clients choosing a media path | `PathSelectionProofs` |
| `Tiers` | the quality tiers, and the moves a controller promises | |
| `QualityController` | a client's adaptive controller and its encoder | `QualityProofs` |
| `RoomQuality` | the relay's room-wide tier over participants that move as `Tiers` allows | `QualityProofs` |
| `JitterBuffer` | senders, network, push and pop | `MediaPathProofs` |
| `NativeAudio` | the Android client's rings, callbacks, tasks, watchdog and switches | `NativeAudioProofs` |
| `FecPath` | blocks and symbols from the encoder to a decoder | `MediaPathProofs` |

`MCRoomManager`, `MCDirectCall`, `MCFederation` and `MCRoomQuality` hold
instances and symmetry sets; the other modules are parameterised by plain
constants and their .cfg files instantiate them directly.

### RoomManager

A connection task is a `pc`; each action is what the task does under one lock.
`Admit`, `CreateSession` and `CheckCallRoom` are main.rs up to the join (ws.rs
has its own `AcceptWs` and no call-room checks); `JoinCheck` and `JoinCommit`
are `RoomManager::join`, which reads `was_empty` under one lock and changes the
room under another; `LeaveRemove`, `LeaveClose`, `LeaveClear` and
`LeaveAnnounce` are `RoomManager::leave`, which decides that the room is empty,
drops its locks, removes the room, clears the side maps and sends the event.
`RecvPacket` is the media loop's roster check, `CachePacket` its later write to
the keyframe cache. `ForceLeave` is the second leave main.rs does when the
media task hangs in its last broadcast. Participant ids are never reused, so a
participant is identified with its connection. The relay builds the
RoomManager without an ACL, so `is_authorized` is TRUE. `EndCall` stands for
whoever ends the call in `DirectCall`.

Not in the module: what the loop does with a packet apart from the cache
(fan-out, layer selection, metrics), PLI and stream ownership, and the trunked
loop, which has the same steps as the plain one.

### DirectCall

A signal task is a `pc`, the call its handler works on (`job`), the calls its
hangup or cleanup loop has left (`todo`) and the `peer_relay_fp` it read
(`route`). Since a client registers with one relay, `hub` is one function for
all relays; `reg` and `via` are the registries. A dispatcher per relay takes
forwarded signals from `wire` one at a time, in any order (they may come over
different links). `view` is what a connection's client last heard of a call
and `choice` what the clients did with it: a client dials an id once (ids are
timestamps), answers only an offer it was shown, and answers once.

Left out: signals that change no hub or registry state (media path reports,
candidates, hole punching, presence lists), the CallRinging a callee's client
sends, and the addresses a CallSetup carries. `set_ringing` and `expire_stale`
are never called by the relay, so neither a Ringing state nor a timeout exists.

`CallLife` is what the rest of the relay may rely on: a call id is dialled once
and answered at most once; each relay enters the call at most once, as pending,
has it active only if the callee accepted, and never again after its end. The
refinement mapping `Entry` reads a registry that has no entry of a call in one
of two ways: it is `expected` as long as the relay may still come to enter it
(`MayCome`: nobody has dialled it, the caller's task is still before that step,
or the offer is on a link or in a dispatcher's hands), and `over` otherwise. A
step that merely loses the last of these is the abstract `GiveUp`. `RoomManager`
rests on this: its set `calls`, the call rooms that may be entered, only shrinks.

### CryptoSession and ReplayWindow

Packets are numbered without wrapping; `Wire` reduces the number to the wire's
sequence space, and `highest` and the bitmap are the code's, words and carry
included. A packet opens under the key that sealed it and no other. The two
ends derive the next key once both have sent their ephemeral key and switch at
different times; `complete_rekey` keeps the windows. History variables
(`newest`, `delivered`, `twice`) record what really happened. `Ideal` reads the
bitmap as packet numbers and is an instance of `ReplayWindow`.

### Federation

Every relay dials its configured peers, and each end of a connection runs
`run_federation_link`: `end[c][r]` is what relay r's task of connection c is
doing (starting, announcing, receiving, relaying) and `todo` what it still has
to send. No relay lists itself. `links[r][p]` is the entry of `peer_links`,
keyed by the peer: all connections between two relays write the same entry, so
that a signal which comes over an older connection changes the newer one's entry
(`Noted`), and the cleanup of an older one removes it (`EndLink`). An entry's
`lost` is history: the rooms it gave up though the peer did not say so on the
entry's own connection (the sweeper purged them, or an older connection's
Inactive came late), until the peer reports them again. `wire` holds the signals
on each connection in order, while nothing orders two connections; a handler
may be dropped half way when its connection fails. `events` is the broadcast
channel of room events, `EventCap` long, from which a lagging dispatcher loses
events (`missed`). `rooms` and `view` are the local participants and the roster
the local clients were last sent. The sweeper notes the rooms of silent peers
under one lock and purges them under another (`sweep`).

One lock of `peer_links` is one action and a send after the unlock another;
`StartLink` alone merges two locks with no send between them. The `hops` of a
signal are history. Left out: media datagrams (which also refresh `last_seen`),
deduplication and rate limits, the egress queue.

### SignalClient

The user's commands `register_signal` and `deregister` and the reconnect
supervisors are tasks, a receive loop belongs to each connection. The actions
are the stretches between two awaits or two locks: a registration closes the
old transport, connects, stores the new one and spawns the loop; a loop that
ends clears the transport, whichever it is by then, and starts a supervisor unless
`reconnect_in_progress` is set; a supervisor backs off, reads the desired relay
and registers. A connection may fail to come up or be lost at any time, finitely
often.

### PathSelection

Each client races a direct against a relay leg (`race` in dual_path.rs), sends
whether its direct leg worked, waits for the same from its peer and decides
(`connect` in lib.rs). Time is a counter; a timer or a result that is due is
acted on before the next tick. The network is under no such limit: a report is
delivered or lost at any time, long after the wait for it included, and so is
the acceptor's end of the direct connection completed. `late` is history: a
report was under way for longer than `MaxDelay`, or the acceptor's end completed
more than `QuicDelay` after the dialer's. One call is modelled; a report of an
earlier call, which the handler (lib.rs:2044) would take for one of this call, is
not. The relay leg's own timeout never matters because the race is over by then. A
client may be started with `direct_only`.

### Tiers, QualityController and RoomQuality

`QualityController` has one action per way in which `observe` can end, next to
`signal_network_change`, `force_profile` and `reset_counters`; a report is the
tier it classifies to, and the clocks (30 s of stability, 5 s of a probe, its
cooldown) and the bandwidth test are left open at every report. `pending` is the
atomic through which the receive task hands the encoder's profile to the send
task, `ApplyProfile` the send task's swap (desktop engine.rs:1207, the older
Android engine.rs:653). Two others steer the encoder. The signal task stores the
relay's directive in the same atomic (`Directive`, desktop engine.rs:401 and
:2062, Android engine.rs:1244). And the send task of the desktop switches the
encoder at the top of its loop when the effective quality, the smaller of
`active_quality` and `peer_max_quality`, is another than it last applied
(`ApplyEffective`, engine.rs:1104 and :2730). `Asked` is the set of profiles
they may ask for. `ForceProfile` changes the controller only: no code switches an
encoder for it. `adrift` is history: somebody else than the controller had the
last word on the encoder, or a handoff lowered the tier without a word to it.

`Tiers` states what a controller promises the rest of the system: it falls to
any lower tier, and it rises one step at a time. `TierSteps` shows that
`QualityController` keeps the promise; `RoomQuality` is the relay's
`observe_quality` with participants that move by it, the room tier, and the
directives sent after the lock is released.

### JitterBuffer

Every loop that decodes is the same (cli.rs:601 and :733, wzp-web main.rs:397,
echo_test.rs:166): a source packet arrives, `ingest` pushes it, whatever `push`
makes of it, and one `decode_next` pops. So there is no playout clock: `Arrive`
is the push (`Pushed`: first packet, duplicate, late packet, new sender,
insertion, eviction) and the pop (`DecodeNext`) together, and when packets stop
coming nothing is popped, as in the code. Packets carry their sender and number,
sequence numbers wrap at `SeqMod`, and `SeqBefore` is the code's half-window
comparison. `First` is what the first sender has sent before the receiver joins,
so that numbers wrap soon. `Reach` bounds reordering: a packet overtaken by that
many is lost. The network does not repeat: QUIC takes no packet twice, and the
window of `CryptoSession` refuses other copies.

The adaptive depth is left out: it never decides what `pop` returns except
through `min_depth`, which is the constant. `reset` is called by tests only. The
relay's pipeline (pipeline.rs:155) pops until nothing is ready, but only what its
FEC decoder gives back, which is nothing (run `fec`).

### NativeAudio

The capture ring and the playout ring have the code's read and write indices and
a capacity each; a callback or task that copies a frame loads its index in one
step and stores it in another, so everything else may fall in between. Frames
are the units: partial frames are abstracted. A watchdog's restart is the code's
five stages: the stop under the lock, the four stores that clear the rings, the
look at `g_running`, the opening of the streams (from then on callbacks run),
and the poll for Started with the store of the flag. The speaker and Bluetooth
switches and the start of a call go through `audio_stop` and `audio_start`,
which hold the lock over the look, the opening and the poll. Nothing keeps a
watchdog, a switch, a hangup and the next call's start apart but that lock, and
a watchdog of the former call may still be at work in the next one
(`recv["former"]`). The write that primes the ring at a call's start is the
first `Write` of the new task. `wzp_oboe_stop` waits for callbacks under way.

Assumed of time: when a call starts, the tasks of the former one have seen its
end and gone (the code does not await them, but pauses for 50 ms and sets up a
connection first), but for one whose watchdog is at work, and there is at most
one such. `raced` marks two threads
in `wzp_oboe_start` at once (they write the same stream pointers without a
lock), and a watchdog's clear that meets streams another start opened or a write
of the next call. Both are data races; what follows them is not modelled,
`PlayedOnce` and `SentOnce` promise nothing there, and `NativeAudio_race` shows
that they happen. `FlagTellsStreams` needs no such exemption.

### FecPath

`CallEncoder` groups K frames into a block and adds R repair symbols; the packet
carries `symbol << 8 | block`, and the decoder's entries are filled as
`RelayPipeline::ingest` fills them. That K symbols of a block decode it is
RaptorQ's promise and assumed. Profile switches reset the frame counter of the
block and keep its number, as `set_profile` does.

## Runs

| Run | Instance | States | Shows |
|---|---|---|---|
| `rooms` | 3 QUIC + 1 WebSocket connection, 3 fingerprints, one call room, 3 slots, no auth; QUIC connections symmetric | 583,476 | `NoGhosts`, `OnePerFingerprint`, `QualitiesMatchRoster`, `CallRoomLimit`, `SessionAccounting` |
| `rooms_live` | 2 QUIC + 1 WebSocket connection, 2 fingerprints, an open room, 2 slots, auth, fairness | 44,515 | `EvictedTasksEnd` |
| `calls` | 1 relay, 2 clients with a connection each, a call each way, one client that hangs up without a call id; fairness | 25,967 | `CallsHaveAnEnder`, `RingingStops`, `AcceptConnects` |
| `calls_cross` | 2 relays, a caller with 2 connections, a callee, lossy link | 140,832 | `HubEntriesServed`, `RejectedNeverConnects`, `ActiveCallsRouted`, refinement `ImplementsCallLife` |
| `crypto_session` | sequence space 12, words of 2 bits, window 5, 15 packets, a rekey | 263,937 | `DeliveredOnce`, `BitmapIsHistory`, refinement `ImplementsIdealWindow` |
| `federation` | hub and east dial each other, west dials the hub; a client of east; 2 connections, 2 joins, 2 faults, an event channel of 1 | 1,557,237 | `LinksServed`, `ActiveRoomsKnown`, `SweepSparesTheHeard` |
| `signal_client` | 2 relays, 3 commands, 6 connections, 2 faults; fairness | 366,969 | `TransportServed`, `GuardHeld`, `KeepsConnected` |
| `paths` | direct leg 4 ticks, head start 1, grace 1, wait 4, reports and acceptor's end of any delay (late beyond 1 tick), start skew 1, 1 lost report, one direct-only client; fairness | 291,146 | `PathsAgree`, `DirectHasPeer`, `ConnectsInTime`, `ConnectDecides` |
| `quality` | the code's six tiers and thresholds 3, 2, 5, 10, 1 bad report per probe; others ask for Degraded and Studio64k | 360,304 | `ProbeIsOneStepUp`, `EncoderNearTier`, `FallsAreEarned`, `NoStudioOnCellular`, `TierSteps` |
| `jitter` | 64 numbers, half window 13, reset distance 6, depth 2 to 3, 3 senders of 10 packets, the first from number 60 on, reach 3 | 646,973 | `PlayoutNotAhead`, `PlayedInOrder` |
| `native_audio` | rings of 2 and 3, 2 frames to send, a stall after 2 writes, a start that fails, a former call's watchdog; fairness | 1,142,346 | `PlayedOnce`, `SentOnce`, `FlagTellsStreams`, `StallHeals` |
| `fec` | blocks of 3 with 2 repair symbols, 2 block numbers, 3 blocks, 1 profile switch | to the counterexample | counterexample to `AnyKSuffice` |

Why the bounds are enough for the questions asked:

- Rooms: three QUIC connections are the least with which a call room could get
  a third participant or a replacement could race a join and a leave; the
  WebSocket one adds a participant without fingerprint. Three slots for four
  connections make the limit bite.
- Calls: two calls in opposite directions make a client caller and callee at
  once and give the hangup loop two entries. Two connections of the caller give
  the reconnect races.
- Crypto: 15 packets wrap a space of 12, a window of 5 spans three words of 2
  bits with a partly used last word, and jumps below, at and above the window
  occur. `Window < SeqSpace \div 2` keeps the code's ratio (32 to 1024 of 2^32)
  in kind.
- Federation: a pair of relays that dial each other gives two connections that
  overlap in either order, the third relay a link that signals are passed on to;
  two faults let a link fail while the sweeper takes its peer for silent; a
  channel of one event overflows. A third connection is covered by the proofs
  only.
- Signal client: three commands and two faults let two registrations, the end
  of an old loop and a supervisor overlap; connections are numbered so that an
  old one is never taken for a new one.
- Paths: timers are scaled down in the code's order (direct leg at least head
  start and grace together, wait longer than grace); the proof covers all values.
  `WaitAssumption` says what `late` means and bounds nothing the network does. It
  is sharp: with one more tick of delay not counted as late the ends disagree.
- Quality: nothing is scaled down, counters included. One profile asked for lies
  below the tier the controller starts from and one above all it can reach
  in one step.
- Jitter: the first sender's numbers wrap after four packets, so packets on both
  sides of the wrap are in the buffer when it evicts; ten packets of a sender are
  more than the buffer, the reset distance and the reordering hold, three senders
  give two resets in a row. The constants keep the order of the code's (reach <
  reset distance < half window < numbers) and the reset distance is twice the
  reach, the least that the proof asks for.
- Audio: rings of three fill, run empty and wrap; two faults let a callback stop
  and the restart fail.
- FEC: the smallest block in which a lost frame leaves K symbols of several
  kinds.

### Fairness

`RoomManager`: the tasks' own steps run (tokio schedules ready tasks), a
broadcast ends because main.rs bounds it with a timeout, and a client in a call
sends media packets all the time; nothing makes a client connect or disconnect.
`DirectCall`: handlers and dispatchers go on once started; nothing makes a
client dial, answer, hang up or leave. A send that never returns would break
the second assumption: the code awaits it with the hub locked.
`SignalClient`: tasks run; faults are finite, so a supervisor's attempts succeed
in the end; nothing makes the user give a command. `PathSelection`: weak
fairness of `Next`: time goes on and what is due is done, while no report need
ever arrive. `NativeAudio`: strong fairness of the receive task and of a switch, which
wait for callbacks whose flag the stop has already turned off, and weak fairness
of the ends of callbacks. The safety-only modules have none.

### What the code does otherwise than it says

One registered run ends in a counterexample. `fec`: docs/ARCHITECTURE.md:207
promises that any K of K+R symbols reconstruct a block; `pipeline.rs:112` passes
the whole header field on as the block, so each symbol index gets a decoder
block of its own and no block of two or more frames is ever recovered. The
Android engine and `CallDecoder` make the same call (`CallDecoder` does not
even ask for decoded frames). Source symbols are also fed without the length
prefix with which the encoder computes repair symbols. `MediaPathProofs` proves
that nothing is recovered, for every block size above one.

More configurations are kept beside the runs; each ends in a counterexample to
a sentence of the source:

| Configuration | Violated | The sentence, and what happens |
|---|---|---|
| `MCRoomManager_events` | `EventsTellOccupancy` | room.rs:380 "Last local participant left this room.": LocalLeave can be sent after the LocalJoin of a later join |
| `MCRoomManager_cache` | `ClosedRoomsForget` | room.rs:913 "Remove all per-room state when a room is closed.": a keyframe can be cached afterwards, and the next room of that name replays it |
| `MCRoomManager_presence` | `PresenceIsConnected` | presence.rs:58 "Fingerprints connected directly to THIS relay.": a client refused after it was entered stays |
| `MCDirectCall_reconnect` | `ConnectedIsOnline` | signal_hub.rs:3 "Tracks clients connected via `_signal` SNI.": the cleanup of an old connection takes the new one's entry out |
| `MCDirectCall_reject` | `RejectReachesCaller` | main.rs:556 "Hangup - forward to the local participant(s).": the arm at main.rs:747 only logs |
| `MCFederation_mesh` | `SignalsDieOut` | docs/ADMINISTRATION.md:357-399 describes a full mesh of three relays: in one, an announcement is passed on for ever, since `handle_signal` (federation.rs:893, :1004) keeps no memory of what it passed on; only call signals have loop prevention |
| `MCFederation_both` | `ActiveRoomsAlwaysKnown` | docs/ADMINISTRATION.md:305-355 and docs/PRD-relay-federation.md:43 "Both sides must configure each other for federation to work": each then dials the other, both connections are up, and a late Inactive of the older one takes away a room that the newer one announced |
| `MCFederation_ghosts` | `DepartedDisappear` | docs/DESIGN.md:521: participants behind a link that ended stay on the rosters (federation.rs:826) |
| `SignalClient_deregister` | `DeregisteredStaysOff` | lib.rs:1617: a supervisor that read the desired relay before a deregistration registers after it |
| `PathSelection_late` | `PathsAlwaysAgree` | lib.rs:1072 "Both sides must agree on the same path": a report that comes after the 3 s wait (:1112) leaves one end on the relay and the other one direct |
| `PathSelection_direct_only` | `DirectOnlyNeverRelays` | lib.rs:813 "when true, skip relay fallback entirely": a race without a result falls back to the relay |
| `QualityController_probe` | `EncoderFollows` | quality.rs:364 "stay at current tier": when a probe fails, the encoder keeps the probe's profile |
| `JitterBuffer_long_call` | `NothingStranded` | jitter.rs:272 "A backward jump of >100 seq [...] indicates a new sender in a federation room - reset instead of dropping.": not when the old one had sent 0x8000 packets (eleven minutes of 20 ms frames) or more, since `seq_before` takes the new one's for packets to come; they fill the buffer and are evicted unplayed |
| `NativeAudio_release` | `ReleasedBetweenCalls` | engine.rs:3871 "so the mic + speaker are released between calls": `audio_stop` does nothing while the watchdog or a switch is between stop and start, and the streams start afterwards |
| `NativeAudio_stale` | `NothingStale` | lib.rs:365 "Clear the rings so the restart doesn't read stale data": a read under way stores its old index |
| `NativeAudio_race` | `NothingRaces` | lib.rs:353 "the same logic as the Rust-side audio_stop() + audio_start()", which keep two starts apart by the lock; the watchdog starts without it, so a switch or the next call may be in `wzp_oboe_start` too, or have streams running when the watchdog clears the rings (lib.rs:100 "producer and consumer are always on different threads") |
| `NativeAudio_burst` | `RestartsTheDead` | lib.rs:343 "Callback hasn't drained anything in ~1 second": writes are counted, not time, so a burst of them between two callbacks restarts streams that run |

`MCRoomQuality.cfg` is kept beside the runs too, and passes: no
room runs above its weakest participant, but for one who entered a room above
Good and has not moved since (`RoomNotAboveWeakest`), and directives that are
sent one after the other leave everybody with the room's tier
(`DirectivesInOrder`); three participants, four joins, 1,452,548 states.

Weaknesses visible in the models without a sentence they contradict:

- a join that falls between leave's emptiness test and `rooms.remove` loses its
  roster entry (the connection then ends by itself: `EvictedTasksEnd`);
- the WebSocket path checks neither the call room's ACL nor its size
  (`CallRoomLimit` is about QUIC participants);
- a cross-relay answer that overtakes the stash at the caller's relay is dropped;
- the room tier is recomputed only by a report that changes its participant's
  tier: it stays low when the weakest participant leaves, and a newcomer at the
  starting tier does not lower a studio room; two tasks' directives can arrive
  out of order, so that participants end with different tiers (`DirectivesAgree`
  fails);
- `signal_network_change` lowers the controller's tier and tells nobody
  (`adrift` in `QualityController`);
- in automatic mode the encoder takes a recommendation or a directive whatever
  `peer_max_quality` says, which is applied when it changes and not again
  (docs/PRD/PRD-quality-upgrade-flow.md:22 has it cap the encoder), and an
  agreed upgrade is undone in the same iteration of the send loop when an older
  recommendation is still pending;
- a link that is up has no entry, and its peer is told nothing, once the cleanup
  of an older connection has removed it (federation.rs:828); a relay that missed
  a room event is not told of the room again before a link starts anew
  (`ActiveRoomsKnown` promises nothing of either);
- `pop` moves playout on whether the packet is there or not, once playout has
  begun, although its comment says that it waits: each lost packet makes the
  buffer one packet deeper until `max_depth` evicts, and packets reordered at the
  very start of playout, or of a new sender, put it ahead, so that those to come
  are dropped as late until losses make up for it. `PlayoutNotAhead` bounds this
  by the reordering;
- at the wrap of the numbers eviction removes the newest packet, whose number is
  the smallest, and moves playout past it;
- a new sender whose predecessor had sent at most 100 packets is dropped as late
  until its numbers catch up (jitter.rs:292);
- a speaker switch that takes longer than the watchdog's stall time is followed
  by a restart that forgets the Bluetooth route; rings are not cleared between
  calls.

## Proofs

Every safety property of a passing run is proved, for every value of the
constants that the named ASSUMEs allow and the hypotheses said below. TLC
checked each inductive invariant, or its parts, on the instances above before it
was proved. The two refinements (`ReplayWindow`, `CallLife`) are proved step by
step. Where one module proves about several components, the others are
instances with renamed variables (`Fec!`, `Room!`); an instance does not bring
the ASSUMEs of its module along, so these theorems restate them as hypotheses.

**`RoomManagerProofs`**: `Spec => []Inv` for every set of connections,
fingerprints, rooms and every session limit, from the assumptions `ConnAssumption`,
`FpAssumption`, `RoomAssumption` and `LimitAssumption` (finitely many
connections, `NoFp` is no fingerprint, call rooms have two parties from `Fp`).
`Inv` is the conjunction of `TypeOK`, `NoGhosts`, `OnePerFingerprint`,
`QualitiesMatchRoster` and two facts no run needs by itself:

- `AdmittedParties`: past the ACL a QUIC task for a call room acts for one of
  the call's two parties. With `OnePerFingerprint` it gives `CallRoomLimit` by
  pigeonhole, *without* the size check, which is racy: it is the ACL and the
  replacement by fingerprint that keep a call room a pair.
- `SlotsHeld`: a task has a slot exactly from `create_session` to its end. With
  `NoGhosts` it gives `SessionAccounting`; the bound itself uses that adding an
  element to a finite set below the limit stays within it.

`NoGhosts` has to be carried along, because a roster entry's room and position
are what the leave steps preserve it by.

**`DirectCallProofs`**, for every number of relays, clients, connections and
calls. `Inv` is `TypeOK`, `HubEntriesServed`, `CallsHaveAnEnder` and

- `JobsNamed`: a handler in its middle has its call at hand, and whoever is
  about to register a call is its caller's task, hence itself a witness of
  `CallsHaveAnEnder`;
- `OffersTravel`: a forwarded offer is never on its way to its caller's own
  relay, so the dispatcher never registers a call there.

`RejectedNeverConnects` and `ActiveCallsRouted` need to know what is on the way
(`RouteInv`): an answer handler works by the answer that called it
(`AnswersChosen`); a forwarded answer is of an accepted call and goes from its
callee's relay to its caller's (`SignalsAddressed`); a registry entry has the
route its side of the call can know by then, the callee's end from the offer on
and the caller's once active (`EntriesRouted`). Since a client answers a call
once, a call that is active or set up anywhere was accepted
(`OnlyAcceptedConnect`).

The refinement `ImplementsCallLife` (`CallsLiveOnce`) follows from `LifeInv`,
which adds that one task at most is about to enter a call and no offer has left
by then (`OneEnters`), that an offer is on its way or in a dispatcher's hands
once (`OffersOnce`), and that a relay with an entry will not come to enter the
call again (`EnteredOnce`). `LifeCases` sorts the steps: one leaves what may come
alone and does at most one of answering, activating and ending (`Quiet`,
`Move`), or gives a call up at some relays (`GivesUp`), or enters it at one
(`Enters`). That `set_active`'s result is ignored is harmless because
`set_active` itself refuses a call that is gone; without that test the mutant of
the run breaks the refinement. `EndedStaysEnded` is the consequence that
`RoomManager` uses.

**`FederationProofs`**, for every topology, room names and clients:

- `LinksServed`: an entry of `peer_links` belongs to a connection between the
  two relays whose task is still on its way to unregister it. It needs the types
  of connections and ends, and lemmas for the four ways an entry changes (start,
  note, purge, end).
- `SweepSparesTheHeard`: a peer heard of between the sweeper's locks is spared.
- `ActiveRoomsKnown`. `NewsInv` follows an activation from the event channel over
  the announcing task's list and the wire to the entry (`Told`, `NewsTravels`),
  on the connection that the peer sends its news on and that the relay has or
  will have its entry from (`Hears`); a list or a wire is read as the fate of one
  room, by lemmas about its last word. Signals of other connections may come
  between at any time: they add to the entry or move a room to `lost`, which the
  two make up together (`Known`). No hypothesis on who dials whom is left. What
  the property exempts does happen: without `lost` it is false when both relays
  dial (`MCFederation_both`), and relays whose entries hold different connections,
  or that missed an event, are promised nothing.

That announcements die out is not proved, since it is false where the peerings
have a cycle (`MCFederation_mesh`).

**`SignalClientProofs`**: `TransportServed` and `GuardHeld`. The transport stored
always has its receive loop, and a set guard always has a supervisor that will
clear it, for any number of relays, commands, connections and faults.

**`PathSelectionProofs`**: `PathsAgree`, `DirectHasPeer` and `ConnectsInTime` for
all values of the timers and for a network without a time limit; the last two
whatever is lost or late. `WaitAssumption`, `QuicDelay + Grace + MaxDelay < Wait`,
says what lateness the wait makes up for: with the code's 1 s and 3 s just under
2 s for the report and the handshake together. The invariant carries time
through the protocol: a race is over within `Grace` of its direct leg
(`RaceTimely`), the two ends of the connection complete within `QuicDelay` unless
something was late (`LegsPaired`), a report is true, unique and, unless late,
young (`ReportsTrue`), and a client that waits will take it (`Listening`). Hence,
as long as nothing is lost or late, a client that gives up waiting had no peer
with a direct leg, nor will it have one (`NothingMissed`) - the step in which
the assumption is used.

**`QualityProofs`**: all five properties of the run `quality`, for any number of
tiers and any thresholds with `ThresholdAssumption`. Beside the checked
invariants `Inv` needs `RunIsRecent`: the count of bad reports is only positive
if the last report was bad for today's tier, whatever raised the tier meanwhile;
that is what makes a fall take two reports, and it holds because a forced
profile clears the count and stops it. `EncoderNearTier` holds beside the two
other writers: whenever the controller speaks it overwrites what is pending, and
a word of another that is applied in between is followed by the controller's own,
still pending. Where another had the last word (`adrift`) nothing is promised. The
second half of the module proves
`RoomNotAboveWeakest` of `RoomQuality` for any tiers, participants, moves and
joins: `WeakestIsLeast` says that `weakest_tier` returns the least tier present,
which `LeastTier` gets from the well-foundedness of strict subsets.
`DirectivesStayInOrder` is `DirectivesInOrder`, by `DirectiveInv`: only who is
present sends or is sent to, and as long as no two directives were ever under
way together the one that is carries the room's tier, while whoever is owed none
has the room's tier as the last word in the inbox or, if that is empty, as what
was heard, if anything was (`LastIsRoomTier`).

**`MediaPathProofs`**, in three parts:

- `CryptoSession`: `TypeOK`, `DeliveredOnce`, `BitmapIsHistory` and the
  refinement `ImplementsIdealWindow`, for any window, word size and sequence
  space with `SessionAssumption` (the window is less than half the space).
  `Inv` adds `Placement` (the receiver is never more than half the space behind
  the sender, so a wire number names one packet: `WrapSub`) and `KeysPaired` (an
  end with a rekey pending is not ahead of the other). The work is in the lemmas
  on the bitmap: advancing by whole words and a rest with carry is a shift of all
  the offsets. The refinement follows step by step, `Receive` being a step of
  `ReplayWindow` with the same verdict and everything else a stutter.
- `JitterBuffer`: types and depth without any hypothesis, across the wrap of the
  numbers (`JitterStaysTyped`). `PlayoutNotAhead` and `PlayedInOrder` if the
  numbers do not wrap (`NotWrapped`: 2^32 frames of 20 ms last 2.7 years; the run
  shows the wrap) and reordering is below half the reset distance (`SmallReach`:
  fewer than 50 packets of 20 ms, a second). Nothing bounds the length of a call
  against the half window, nor the pops that find nothing, but that each comes
  with an arrival. That is the argument: a packet moves playout by one at most
  and is then no longer on the way, so `next` plus the packets on the way never
  exceeds what was sent plus the reach (`Near`). Then a late packet of the present
  sender is behind playout by less than twice the reach and not taken for a new
  sender, which is all that could rewind it.
- `FecPath`: `NothingRecovered`, for any K of at least two, any number of repair
  symbols and blocks: a decoder entry only ever holds symbols of one index.

**`NativeAudioProofs`**: `PlayedOnce`, `SentOnce` and `FlagTellsStreams`, for
rings of any size, any watchdog threshold and any number of faults, with no
hypothesis on who interleaves with whom. `Coordinated` says which of the two
watchdogs, the switch and the call may be opening streams and what the flags are
meanwhile: at most one is past its look at `g_running`, and whoever is about to
clear the rings has stopped the streams. It holds until `raced`; the flags'
part holds always. `PlayRing` and `CaptRing` account for every slot of a ring,
which is new exactly from the read to the write index. `PlayoutTouched` and
`CaptureTouched` list the few steps that reach a ring, so that the ring lemmas
are applied to those only.

Only model-checked: the liveness properties (`EvictedTasksEnd`, `RingingStops`,
`AcceptConnects`, `KeepsConnected`, `ConnectDecides`, `StallHeals`), which need
fairness and so are beyond the prover. The
configurations that end in counterexamples have nothing to prove, but for `fec`,
whose general form is `NothingIsRecovered`.

## Plan

Done: the fourteen modules above and their proofs. Next, in this order:

1. The cross-relay answer that overtakes the stash, as a property with the
   history of the answer.
2. PLI and stream ownership in `RoomManager`, and the media path of `Federation`
   (deduplication and rate limit).
3. NACK bookkeeping and the command line client's audio ring.
4. Proofs of what these add.

## Not modelled

Handshake and key derivation, wire formats, codecs and audio processing, video
encoders and depacketizers, the QUIC layer, probes, metrics, scorers and the
user interfaces: pure functions on bytes or samples, bindings to other systems,
or input and output. They are also most of the repository's lines, which is why
the modules stand for a small share of them: what is left for a model is the
coordination code. The NACK sender is used by its library only, the session state
machine is a transition table, the command line client's audio ring detects being
lapped only before a read; they are left for later. Within `room.rs`, outbound
video stream ids are reduced modulo a small number (room.rs:357), which is a
question of numbers and not of steps.

PROJECT.json lists each component with its reason, and lists under "hazards"
what is hard to test in the code, with the properties that cover it or why none
does yet.
