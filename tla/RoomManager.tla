----------------------------- MODULE RoomManager -----------------------------
(***************************************************************************)
(* The relay's room mode: one task per client connection runs the          *)
(* lifecycle of main.rs (QUIC) or ws.rs (WebSocket) against the shared     *)
(* RoomManager, SessionManager, PresenceRegistry and CallRegistry.         *)
(*                                                                         *)
(* RoomManager::join and RoomManager::leave take their locks more than     *)
(* once, so each is several actions here, one per lock acquisition:        *)
(*                                                                         *)
(*   join   JoinCheck (was_empty) ; JoinCommit (roster, event)             *)
(*   leave  LeaveRemove (roster) ; LeaveClose (rooms.remove) ;             *)
(*          LeaveClear (clear_room_state) ; LeaveAnnounce (event)          *)
(*                                                                         *)
(* NEXT_PARTICIPANT_ID gives each join a fresh id and a connection joins   *)
(* at most once, so a participant id is identified with its connection,    *)
(* and the (room, participant) keys of the side maps with the connection.  *)
(***************************************************************************)
EXTENDS Naturals, FiniteSets

CONSTANTS
  Conn,         \* connection tasks of the relay
  WsConn,       \* the ones that came in through the WebSocket listener
  Fp,           \* client fingerprints
  NoFp,         \* fingerprint: None, a WebSocket client without auth
  Room,         \* room names
  CallRoom,     \* the rooms named "call-<id>"
  Caller,       \* DirectCall.caller_fingerprint of each call room
  Callee,       \* DirectCall.callee_fingerprint of each call room
  MaxSessions,  \* SessionManager.max_sessions
  AuthEnabled   \* the relay was started with --auth-url

ASSUME ConnAssumption == IsFiniteSet(Conn) /\ WsConn \subseteq Conn
ASSUME FpAssumption == NoFp \notin Fp /\ Fp # {}
ASSUME RoomAssumption ==
  /\ Room # {}
  /\ CallRoom \subseteq Room
  /\ Caller \in [CallRoom -> Fp]
  /\ Callee \in [CallRoom -> Fp]
ASSUME LimitAssumption == MaxSessions \in Nat /\ AuthEnabled \in BOOLEAN

VARIABLES
  pc,         \* where each connection task is
  fp,         \* participant_fp of each task
  room,       \* room_name of each task
  wasEmpty,   \* join's local was_empty
  forced,     \* the task already ran main's forced leave
  open,       \* keys of RoomManager.rooms
  members,    \* Room.participants
  qualities,  \* keys of Room.qualities
  cache,      \* participants with an entry in keyframe_cache
  lastEvent,  \* the last RoomEvent sent for each room
  sessions,   \* SessionManager.tracked
  presence,   \* PresenceRegistry.local
  calls       \* call rooms whose call is in the CallRegistry

vars == <<pc, fp, room, wasEmpty, forced, open, members, qualities, cache,
          lastEvent, sessions, presence, calls>>
task == <<fp, room, wasEmpty, forced>>
shared == <<open, members, qualities, cache, lastEvent>>

PC == {"new", "admitted", "sizing", "joining", "committing", "registering",
       "running", "checked", "leaving", "closing", "clearing", "announcing",
       "broadcasting", "left", "done"}

Events == {"none", "LocalJoin", "LocalLeave"}

Quic == Conn \ WsConn

Goto(c, l) == pc' = [pc EXCEPT ![c] = l]

Init ==
  /\ pc = [c \in Conn |-> "new"]
  /\ fp = [c \in Conn |-> NoFp]
  /\ room \in [Conn -> Room]
  /\ wasEmpty = [c \in Conn |-> FALSE]
  /\ forced = [c \in Conn |-> FALSE]
  /\ open = {}
  /\ members = [r \in Room |-> {}]
  /\ qualities = [r \in Room |-> {}]
  /\ cache = {}
  /\ lastEvent = [r \in Room |-> "none"]
  /\ sessions = {}
  /\ presence = {}
  /\ calls = CallRoom

-----------------------------------------------------------------------------
(* Admission *)

\* The call-room ACL: the call is registered and f is one of its two parties.
Authorized(r, f) ==
  r \in CallRoom => r \in calls /\ f \in {Caller[r], Callee[r]}

AdmitAnyone(c) ==
  /\ c \in Quic
  /\ pc[c] = "new"
  /\ \E f \in Fp :
       /\ fp' = [fp EXCEPT ![c] = f]
       /\ presence' = presence \cup {f}
  /\ Goto(c, "admitted")
  /\ UNCHANGED <<room, wasEmpty, forced, sessions, calls, shared>>

\* A QUIC client finished the handshake under fingerprint f. A call room
\* turns away everyone but its parties; the others are put in the presence
\* registry.
Admit(c) ==
  /\ c \in Quic
  /\ pc[c] = "new"
  /\ \E f \in Fp :
       /\ fp' = [fp EXCEPT ![c] = f]
       /\ \/ /\ Authorized(room[c], f)
             /\ presence' = presence \cup {f}
             /\ Goto(c, "admitted")
          \/ /\ ~Authorized(room[c], f)
             /\ Goto(c, "done")
             /\ UNCHANGED presence
  /\ UNCHANGED <<room, wasEmpty, forced, sessions, calls, shared>>

\* A WebSocket client: a fingerprint only comes from the auth service.
AcceptWs(c) ==
  /\ c \in WsConn
  /\ pc[c] = "new"
  /\ \E f \in IF AuthEnabled THEN Fp ELSE {NoFp} : fp' = [fp EXCEPT ![c] = f]
  /\ Goto(c, "admitted")
  /\ UNCHANGED <<room, wasEmpty, forced, sessions, presence, calls, shared>>

\* SessionManager::create_session. A task turned away here just returns: its
\* presence entry stays.
CreateSession(c) ==
  /\ pc[c] = "admitted"
  /\ \/ /\ Cardinality(sessions) < MaxSessions
        /\ sessions' = sessions \cup {c}
        /\ Goto(c, IF c \in Quic /\ room[c] \in CallRoom THEN "sizing"
                                                          ELSE "joining")
     \/ /\ Cardinality(sessions) >= MaxSessions
        /\ Goto(c, "done")
        /\ UNCHANGED sessions
  /\ UNCHANGED <<task, presence, calls, shared>>

CheckCallRoomKeepsSession(c) ==
  /\ pc[c] = "sizing"
  /\ Goto(c, IF Cardinality(members[room[c]]) >= 2 THEN "done" ELSE "joining")
  /\ UNCHANGED <<sessions, task, presence, calls, shared>>

\* "Call rooms: enforce 2-participant limit": a read of room_size that join
\* does not repeat.
CheckCallRoom(c) ==
  /\ pc[c] = "sizing"
  /\ \/ /\ Cardinality(members[room[c]]) >= 2
        /\ sessions' = sessions \ {c}
        /\ Goto(c, "done")
     \/ /\ Cardinality(members[room[c]]) < 2
        /\ Goto(c, "joining")
        /\ UNCHANGED sessions
  /\ UNCHANGED <<task, presence, calls, shared>>

-----------------------------------------------------------------------------
(* RoomManager::join *)

\* was_empty, read under a lock of its own. The relay never enables the
\* RoomManager's own ACL, so is_authorized lets everyone through.
JoinCheck(c) ==
  /\ pc[c] = "joining"
  /\ wasEmpty' = [wasEmpty EXCEPT
        ![c] = room[c] \notin open \/ members[room[c]] = {}]
  /\ Goto(c, "committing")
  /\ UNCHANGED <<fp, room, forced, sessions, presence, calls, shared>>

NobodyReplaced(c) == {}

\* Room::remove_by_fingerprint: who a newcomer replaces.
SameFingerprint(c) ==
  {d \in members[room[c]] : fp[c] # NoFp /\ fp[d] = fp[c]}

\* The rest of join, under the DashMap shard lock and the room's write lock.
JoinCommit(c) ==
  LET r == room[c]
      old == SameFingerprint(c)
  IN  /\ pc[c] = "committing"
      /\ open' = open \cup {r}
      /\ members' = [members EXCEPT ![r] = (@ \ old) \cup {c}]
      /\ qualities' = [qualities EXCEPT ![r] = (@ \ old) \cup {c}]
      /\ cache' = cache \ old
      /\ lastEvent' = IF wasEmpty[c]
                      THEN [lastEvent EXCEPT ![r] = "LocalJoin"]
                      ELSE lastEvent
      /\ wasEmpty' = [wasEmpty EXCEPT ![c] = FALSE]
      /\ Goto(c, IF c \in WsConn THEN "registering" ELSE "running")
      /\ UNCHANGED <<fp, room, forced, sessions, presence, calls>>

\* ws.rs registers presence only once the room was joined.
RegisterWs(c) ==
  /\ pc[c] = "registering"
  /\ presence' = presence \cup ({fp[c]} \ {NoFp})
  /\ Goto(c, "running")
  /\ UNCHANGED <<task, sessions, calls, shared>>

-----------------------------------------------------------------------------
(* The media loop *)

RecvPacketUnchecked(c) ==
  /\ c \in Quic
  /\ pc[c] = "running"
  /\ Goto(c, "checked")
  /\ UNCHANGED <<task, sessions, presence, calls, shared>>

\* A media packet arrived: a task that is no longer on the roster stops.
\* (The WebSocket loop has no such check and changes no state.)
RecvPacket(c) ==
  /\ c \in Quic
  /\ pc[c] = "running"
  /\ Goto(c, IF c \in members[room[c]] THEN "checked" ELSE "leaving")
  /\ UNCHANGED <<task, sessions, presence, calls, shared>>

\* update_keyframe_cache, when the packet completes a keyframe or not. The
\* roster may have changed since RecvPacket looked. (The other side maps,
\* cleared in the same places as the cache, are not modelled.)
CachePacket(c) ==
  /\ pc[c] = "checked"
  /\ \/ cache' = cache \cup {c}
     \/ UNCHANGED cache
  /\ Goto(c, "running")
  /\ UNCHANGED <<task, open, members, qualities, lastEvent, sessions,
                 presence, calls>>

DisconnectWithoutLeave(c) ==
  /\ pc[c] = "running"
  /\ presence' = IF c \in WsConn THEN presence \ {fp[c]} ELSE presence
  /\ Goto(c, "left")
  /\ UNCHANGED <<task, sessions, calls, shared>>

\* The client went away (or its signal loop ended). ws.rs unregisters
\* presence before it leaves the room, main.rs after.
Disconnect(c) ==
  /\ pc[c] = "running"
  /\ presence' = IF c \in WsConn THEN presence \ {fp[c]} ELSE presence
  /\ Goto(c, "leaving")
  /\ UNCHANGED <<task, sessions, calls, shared>>

-----------------------------------------------------------------------------
(* RoomManager::leave *)

LeaveKeepsQuality(c) ==
  LET r == room[c]
      rest == members[r] \ {c}
  IN  /\ pc[c] = "leaving"
      /\ members' = [members EXCEPT ![r] = rest]
      /\ cache' = cache \ {c}
      /\ Goto(c, CASE r \notin open -> "left"
                   [] r \in open /\ rest = {} -> "closing"
                   [] r \in open /\ rest # {} /\ c \in WsConn -> "left"
                   [] OTHER -> "broadcasting")
      /\ UNCHANGED <<task, open, qualities, lastEvent, sessions, presence,
                     calls>>

\* A room that is gone has nothing to clean up. Otherwise the participant
\* goes, and the last one to go also closes the room, after both locks were
\* released.
LeaveRemove(c) ==
  LET r == room[c]
      rest == members[r] \ {c}
  IN  /\ pc[c] = "leaving"
      /\ \/ /\ r \notin open
            /\ Goto(c, "left")
            /\ UNCHANGED <<members, qualities, cache>>
         \/ /\ r \in open
            /\ members' = [members EXCEPT ![r] = rest]
            /\ qualities' = [qualities EXCEPT ![r] = @ \ {c}]
            /\ cache' = cache \ {c}
            /\ Goto(c, IF rest = {} THEN "closing"
                       ELSE IF c \in WsConn THEN "left" ELSE "broadcasting")
      /\ UNCHANGED <<task, open, lastEvent, sessions, presence, calls>>

\* rooms.remove(room_name): whoever joined in the meantime goes with it.
LeaveClose(c) ==
  /\ pc[c] = "closing"
  /\ open' = open \ {room[c]}
  /\ members' = [members EXCEPT ![room[c]] = {}]
  /\ qualities' = [qualities EXCEPT ![room[c]] = {}]
  /\ Goto(c, "clearing")
  /\ UNCHANGED <<task, cache, lastEvent, sessions, presence, calls>>

\* clear_room_state
LeaveClear(c) ==
  /\ pc[c] = "clearing"
  /\ cache' = {d \in cache : room[d] # room[c]}
  /\ Goto(c, "announcing")
  /\ UNCHANGED <<task, open, members, qualities, lastEvent, sessions,
                 presence, calls>>

LeaveAnnounce(c) ==
  /\ pc[c] = "announcing"
  /\ lastEvent' = [lastEvent EXCEPT ![room[c]] = "LocalLeave"]
  /\ Goto(c, "left")
  /\ UNCHANGED <<task, open, members, qualities, cache, sessions, presence,
                 calls>>

\* The RoomUpdate went out to the remaining participants.
BroadcastDone(c) ==
  /\ pc[c] = "broadcasting"
  /\ Goto(c, "left")
  /\ UNCHANGED <<task, sessions, presence, calls, shared>>

\* The media task hung in that broadcast for 2 s after the signal loop had
\* ended: main.rs aborts it and leaves the room a second time.
ForceLeave(c) ==
  /\ pc[c] = "broadcasting"
  /\ ~forced[c]
  /\ forced' = [forced EXCEPT ![c] = TRUE]
  /\ Goto(c, "leaving")
  /\ UNCHANGED <<fp, room, wasEmpty, sessions, presence, calls, shared>>

\* Per-connection cleanup. Only an authenticated QUIC client is taken out of
\* the presence registry here.
Cleanup(c) ==
  /\ pc[c] = "left"
  /\ presence' = IF c \in Quic /\ AuthEnabled THEN presence \ {fp[c]}
                                              ELSE presence
  /\ sessions' = sessions \ {c}
  /\ forced' = [forced EXCEPT ![c] = FALSE]
  /\ Goto(c, "done")
  /\ UNCHANGED <<fp, room, wasEmpty, calls, shared>>

\* CallRegistry::end_call: the call is over, its room stays as it is.
EndCall(r) ==
  /\ r \in calls
  /\ calls' = calls \ {r}
  /\ UNCHANGED <<pc, task, sessions, presence, shared>>

\* Every connection the bound allows has come and gone.
AllDone ==
  /\ \A c \in Conn : pc[c] = "done"
  /\ UNCHANGED vars

Step(c) ==
  \/ Admit(c) \/ AcceptWs(c) \/ CreateSession(c) \/ CheckCallRoom(c)
  \/ JoinCheck(c) \/ JoinCommit(c) \/ RegisterWs(c)
  \/ RecvPacket(c) \/ CachePacket(c) \/ Disconnect(c)
  \/ LeaveRemove(c) \/ LeaveClose(c) \/ LeaveClear(c) \/ LeaveAnnounce(c)
  \/ BroadcastDone(c) \/ ForceLeave(c) \/ Cleanup(c)

Next ==
  \/ \E c \in Conn : Step(c)
  \/ \E r \in CallRoom : EndCall(r)
  \/ AllDone

Spec == Init /\ [][Next]_vars

\* What the relay's runtime owes a task: the steps between two awaits run,
\* the 2 s timeout bounds a broadcast, and a client in a call sends media all
\* the time. Nothing makes a client connect or go away.
Fairness ==
  \A c \in Conn :
    /\ WF_vars(RecvPacket(c) \/ CachePacket(c))
    /\ WF_vars(LeaveRemove(c) \/ LeaveClose(c) \/ LeaveClear(c)
                 \/ LeaveAnnounce(c))
    /\ WF_vars(BroadcastDone(c))
    /\ WF_vars(Cleanup(c))

FairSpec == Spec /\ Fairness

-----------------------------------------------------------------------------
(* Properties *)

\* The variables hold what the relay's data structures can hold.
TypeOK ==
  /\ pc \in [Conn -> PC]
  /\ fp \in [Conn -> Fp \cup {NoFp}]
  /\ room \in [Conn -> Room]
  /\ wasEmpty \in [Conn -> BOOLEAN]
  /\ forced \in [Conn -> BOOLEAN]
  /\ open \subseteq Room
  /\ members \in [Room -> SUBSET Conn]
  /\ qualities \in [Room -> SUBSET Conn]
  /\ cache \subseteq Conn
  /\ lastEvent \in [Room -> Events]
  /\ sessions \subseteq Conn
  /\ presence \subseteq Fp
  /\ calls \subseteq CallRoom

\* A roster entry belongs to a task of that room that has yet to leave it,
\* whatever joins, replacements, closes and forced leaves happened in between:
\* no ghost participant survives its task (leave, join, main's cleanup).
OnRoster == {"registering", "running", "checked", "leaving"}
NoGhosts ==
  \A r \in Room : \A c \in members[r] :
    /\ r \in open
    /\ room[c] = r
    /\ pc[c] \in OnRoster

\* A fingerprint is on a room's roster once: a reconnecting client replaces
\* its old connection rather than sitting beside it (join).
OnePerFingerprint ==
  \A r \in Room : \A c, d \in members[r] :
    c # d => fp[c] = NoFp \/ fp[c] # fp[d]

\* The qualities the room-wide tier is computed from are those of the roster:
\* a departed participant cannot hold the room's quality down.
QualitiesMatchRoster == qualities = members

\* A direct call's room never has more than two QUIC participants, although
\* the size is checked without a lock that join would share.
CallRoomLimit ==
  \A r \in CallRoom : \A c, d, e \in members[r] \ WsConn :
    c = d \/ d = e \/ c = e

\* The session table never exceeds max_sessions, holds a slot for everyone on
\* a roster, and holds none for a task that ended, on whichever path.
SessionAccounting ==
  /\ Cardinality(sessions) <= MaxSessions
  /\ \A r \in Room : members[r] \subseteq sessions
  /\ \A c \in sessions : pc[c] # "done"

\* A QUIC task that is no longer on its room's roster (replaced, or its room
\* was closed under it) stops and gives its session back.
EvictedTasksEnd ==
  \A c \in Quic :
    (pc[c] = "running" /\ c \notin members[room[c]])
      ~> (pc[c] = "done" /\ c \notin sessions)

-----------------------------------------------------------------------------
(* The inductive invariant behind the safety properties *)

\* Past the ACL, a QUIC task for a call room acts for one of the two parties.
AdmittedParties ==
  \A c \in Quic :
    pc[c] \notin {"new", "done"} /\ room[c] \in CallRoom
      => fp[c] \in {Caller[room[c]], Callee[room[c]]}

\* A task holds a session slot from create_session to its end.
SlotsHeld ==
  /\ Cardinality(sessions) <= MaxSessions
  /\ \A c \in Conn : c \in sessions <=> pc[c] \notin {"new", "admitted", "done"}

\* NoGhosts, OnePerFingerprint and QualitiesMatchRoster need one another and
\* AdmittedParties; together they give CallRoomLimit and SessionAccounting.
Inv ==
  /\ TypeOK
  /\ NoGhosts
  /\ OnePerFingerprint
  /\ QualitiesMatchRoster
  /\ AdmittedParties
  /\ SlotsHeld

-----------------------------------------------------------------------------
(* What the source says of the code, and the code does not do *)

\* No task is inside join or leave.
Quiescent ==
  \A c \in Conn :
    pc[c] \notin {"committing", "closing", "clearing", "announcing"}

\* room.rs, RoomEvent: LocalJoin is "First local participant joined this
\* room.", LocalLeave is "Last local participant left this room.": once joins
\* and leaves have settled, the last event told says whether anyone is there.
EventsTellOccupancy ==
  Quiescent =>
    \A r \in Room : lastEvent[r] = "LocalLeave" => members[r] = {}

\* room.rs, clear_room_state: "Remove all per-room state when a room is
\* closed.": no keyframe of a connection that ended outlives a closed room, to
\* be replayed to whoever opens a room of that name next.
ClosedRoomsForget ==
  Quiescent => \A c \in cache : pc[c] = "done" => room[c] \in open

\* presence.rs: local holds the "Fingerprints connected directly to THIS
\* relay": a fingerprint in it has a connection that has not ended.
PresenceIsConnected ==
  \A f \in presence : \E c \in Conn : fp[c] = f /\ pc[c] # "done"

=============================================================================
