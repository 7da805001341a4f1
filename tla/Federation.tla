----------------------------- MODULE Federation -----------------------------
(***************************************************************************)
(* The signal plane of relay federation (federation.rs).  Every relay      *)
(* dials its configured peers; each end of a connection runs               *)
(* run_federation_link: it registers the connection in peer_links under    *)
(* the peer's fingerprint, announces the rooms it knows, then handles the  *)
(* peer's signals until the connection fails, and unregisters the peer.    *)
(* A dispatcher turns the RoomManager's events into signals and a sweeper  *)
(* purges what a silent peer reported.                                     *)
(*                                                                         *)
(* Signals of one connection arrive in the order they were sent (streams   *)
(* are accepted in order); nothing orders two connections.  One lock of    *)
(* peer_links is one action; a send that follows the unlock is another.    *)
(* StartLink alone stands for two locks, the insertion of the link and the *)
(* reading of the rooms to announce: nothing is sent between them.         *)
(*                                                                         *)
(* A roster is a set of participants: labels and order are left out.       *)
(***************************************************************************)
EXTENDS Naturals, Sequences, FiniteSets

CONSTANTS
  Relay,        \* relays of the federation
  Peers,        \* <<r, p>>: p is in the peers list of r, so r dials p
  Client,       \* participants
  Home,         \* the relay each participant connects to
  NameOf,       \* the room name its client uses: raw or hashed
  RoomName,     \* global room names, in every form clients use
  Canonical,    \* resolve_global_room
  NoLink,       \* the peer has no entry in peer_links
  MaxConns,     \* bound: connections ever dialled
  MaxJoins,     \* bound: joins ever made
  MaxFaults,    \* bound: failed connections and silences, together
  EventCap      \* capacity of the RoomEvent broadcast channel

ASSUME PeersAssumption ==
  /\ Peers \subseteq Relay \X Relay
  /\ \A r \in Relay : <<r, r>> \notin Peers
ASSUME ClientAssumption ==
  /\ Home \in [Client -> Relay]
  /\ NameOf \in [Client -> RoomName]
ASSUME NameAssumption ==
  /\ Canonical \in [RoomName -> RoomName]
  /\ \A n \in RoomName : Canonical[Canonical[n]] = Canonical[n]
ASSUME BoundAssumption ==
  /\ MaxConns \in Nat /\ MaxJoins \in Nat /\ MaxFaults \in Nat
  /\ EventCap \in Nat \ {0}

VARIABLES
  rooms,   \* local participants of each relay's rooms
  view,    \* the roster of the last RoomUpdate sent to a room's local clients
  events,  \* the dispatcher's unread RoomEvents
  conns,   \* the connections made so far: who dialled whom, still up
  wire,    \* signals under way on a connection, to each end
  end,     \* what each end's run_federation_link is doing
  todo,    \* what that task still has to send
  links,   \* peer_links
  sweep,   \* the sweeper's stale_rooms
  missed,  \* history: relays whose dispatcher lost an event
  joins,   \* joins made so far
  faults   \* faults so far

vars == <<rooms, view, events, conns, wire, end, todo, links, sweep, missed,
          joins, faults>>
locals == <<rooms, view, events, missed, joins>>
net == <<conns, wire, end, todo, faults>>

Conn == 1..MaxConns

Rosters == UNION {[D -> SUBSET Client] : D \in SUBSET RoomName}
\* GlobalRoomActive and GlobalRoomInactive. The field hops is history: how
\* often relays have passed the news on.
Active(n, who, h) == [type |-> "Active", room |-> n, who |-> who, hops |-> h]
Inactive(n, h) == [type |-> "Inactive", room |-> n, who |-> {}, hops |-> h]
Signals == [type : {"Active", "Inactive"}, room : RoomName,
            who : SUBSET Client, hops : Nat]
Links == [conn : Conn, active : SUBSET RoomName, remote : Rosters,
          quiet : BOOLEAN, lost : SUBSET RoomName]

\* The work a link task carries across an unlock: the announcements still to
\* be sent, the other links a signal is passed on to, and the rooms whose
\* local clients get a RoomUpdate with the roster known at that time.
NoWork == [own |-> {}, heard |-> {}, room |-> {}, remaining |-> {},
           others |-> {}, hops |-> 0]

Init ==
  /\ rooms = [r \in Relay |-> [n \in RoomName |-> {}]]
  /\ view = [r \in Relay |-> [n \in RoomName |-> {}]]
  /\ events = [r \in Relay |-> <<>>]
  /\ conns = <<>>
  /\ wire = [c \in Conn |-> [r \in Relay |-> <<>>]]
  /\ end = [c \in Conn |-> [r \in Relay |-> "none"]]
  /\ todo = [c \in Conn |-> [r \in Relay |-> NoWork]]
  /\ links = [r \in Relay |-> [p \in Relay |-> NoLink]]
  /\ sweep = [r \in Relay |-> {}]
  /\ missed = {}
  /\ joins = 0
  /\ faults = 0

-----------------------------------------------------------------------------
(* What the handlers read *)

Up(c) == c \in DOMAIN conns /\ conns[c].up
Other(c, r) == IF conns[c].dialer = r THEN conns[c].acceptor
               ELSE conns[c].dialer
Linked(r) == {p \in Relay : links[r][p] # NoLink}
OpenRooms(r) == {n \in RoomName : rooms[r][n] # {}}

\* The local rooms that carry the same global room as n.
SameRoom(r, n) == {m \in OpenRooms(r) : Canonical[m] = Canonical[n]}

Reported(link, names) ==
  UNION {link.remote[m] : m \in names \cap DOMAIN link.remote}

\* get_remote_participants, deduplicated: what the links say under the
\* canonical name and under the name asked for.
RemoteParticipants(ls, n) ==
  UNION {Reported(ls[p], {Canonical[n], n}) : p \in {q \in Relay : ls[q] # NoLink}}

\* The rosters the links other than p's hold under the canonical name.
RemainingRemote(r, p, n) ==
  UNION {Reported(links[r][q], {Canonical[n]}) : q \in Linked(r) \ {p}}

Without(f, names) == [m \in DOMAIN f \ names |-> f[m]]
With(f, n, who) == [m \in DOMAIN f \cup {n} |-> IF m = n THEN who ELSE f[m]]

\* The wires after relay r sent m on the connections cs: a send on a failed
\* connection is an error the caller ignores.
Sent(r, cs, m) ==
  [c \in Conn |->
     IF c \in cs /\ Up(c)
     THEN [wire[c] EXCEPT ![Other(c, r)] = Append(@, m)]
     ELSE wire[c]]

Transports(r, ps) == {links[r][p].conn : p \in ps}

\* How far the handler of a signal from c gets through the connections cs:
\* when c fails, select! drops the handler at an await between two sends.
Reached(c, cs) == IF Up(c) THEN {cs} ELSE SUBSET cs

-----------------------------------------------------------------------------
(* Local rooms and the event dispatcher *)

\* A broadcast channel that is full drops its oldest event; the receiver
\* only learns that it lagged.
Publish(r, e) ==
  /\ events' = [events EXCEPT ![r] =
       Append(IF Len(@) = EventCap THEN Tail(@) ELSE @, e)]
  /\ missed' = IF Len(events[r]) = EventCap THEN missed \cup {r} ELSE missed

\* A client enters its room: everybody there gets the merged roster. Only
\* the first participant of a room is an event.
Join(p) ==
  LET r == Home[p]  n == NameOf[p] IN
  /\ joins < MaxJoins
  /\ p \notin rooms[r][n]
  /\ rooms' = [rooms EXCEPT ![r][n] = @ \cup {p}]
  /\ view' = [view EXCEPT ![r][n] =
       rooms[r][n] \cup {p} \cup RemoteParticipants(links[r], n)]
  /\ \/ rooms[r][n] = {} /\ Publish(r, [type |-> "LocalJoin", room |-> n])
     \/ rooms[r][n] # {} /\ UNCHANGED <<events, missed>>
  /\ joins' = joins + 1
  /\ UNCHANGED <<net, links, sweep>>

\* A client leaves: those who stay get a roster of local participants, the
\* last one to leave is an event.
Leave(p) ==
  LET r == Home[p]  n == NameOf[p]  rest == rooms[r][n] \ {p} IN
  /\ p \in rooms[r][n]
  /\ rooms' = [rooms EXCEPT ![r][n] = rest]
  /\ view' = [view EXCEPT ![r][n] = rest]
  /\ \/ rest = {} /\ Publish(r, [type |-> "LocalLeave", room |-> n])
     \/ rest # {} /\ UNCHANGED <<events, missed>>
  /\ UNCHANGED <<net, links, sweep, joins>>

\* The roster announced is the one of the moment the event is read.
EventSignal(r, e) ==
  IF e.type = "LocalJoin" THEN Active(e.room, rooms[r][e.room], 0)
  ELSE Inactive(e.room, 0)

Dispatch(r) ==
  /\ events[r] # <<>>
  /\ wire' = Sent(r, Transports(r, Linked(r)), EventSignal(r, Head(events[r])))
  /\ events' = [events EXCEPT ![r] = Tail(@)]
  /\ UNCHANGED <<rooms, view, conns, end, todo, links, sweep, missed, joins, faults>>

-----------------------------------------------------------------------------
(* Connections *)

\* run_peer_loop dials again once the link it dialled before is over; the
\* accepting side may not have noticed yet.
Dial(r, p) ==
  LET c == Len(conns) + 1 IN
  /\ <<r, p>> \in Peers
  /\ c \in Conn
  /\ \A d \in DOMAIN conns :
       conns[d].dialer = r /\ conns[d].acceptor = p => end[d][r] = "over"
  /\ conns' = Append(conns, [dialer |-> r, acceptor |-> p, up |-> TRUE])
  /\ end' = [end EXCEPT ![c][r] = "starting", ![c][p] = "starting"]
  /\ UNCHANGED <<locals, wire, todo, links, sweep, faults>>

Fail(c) ==
  /\ Up(c)
  /\ faults < MaxFaults
  /\ conns' = [conns EXCEPT ![c].up = FALSE]
  /\ faults' = faults + 1
  /\ UNCHANGED <<locals, wire, end, todo, links, sweep>>

\* The accepting side never got the hello of a connection that failed.
NoHello(c) ==
  LET r == conns[c].acceptor IN
  /\ c \in DOMAIN conns
  /\ ~Up(c)
  /\ end[c][r] = "starting"
  /\ end' = [end EXCEPT ![c][r] = "over"]
  /\ UNCHANGED <<locals, conns, wire, todo, links, sweep, faults>>

\* Give the task of r on connection c the work w: it reads signals again as
\* soon as there is none.
Continue(c, r, w) ==
  /\ todo' = [todo EXCEPT ![c][r] = w]
  /\ end' = [end EXCEPT ![c][r] = IF w = NoWork THEN "receiving" ELSE "announcing"]

\* Mutant: a new link is told what other links reported, not the local rooms.
StartLinkPassingOnOnly(c, r) ==
  LET p == Other(c, r) IN
  /\ c \in DOMAIN conns
  /\ end[c][r] = "starting"
  /\ links' = [links EXCEPT ![r][p] =
       [conn |-> c, active |-> {}, remote |-> <<>>, quiet |-> FALSE,
        lost |-> {}]]
  /\ Continue(c, r,
       [NoWork EXCEPT
          !.heard = UNION {{Active(n, links[r][q].remote[n], 0) :
                              n \in DOMAIN links[r][q].remote} :
                           q \in Linked(r) \ {p}}])
  /\ UNCHANGED <<locals, conns, wire, sweep, faults>>

\* Register the link, replacing what was known of the peer, and collect the
\* announcements: the local rooms, and what the other links reported.
StartLink(c, r) ==
  LET p == Other(c, r) IN
  /\ c \in DOMAIN conns
  /\ end[c][r] = "starting"
  /\ links' = [links EXCEPT ![r][p] =
       [conn |-> c, active |-> {}, remote |-> <<>>, quiet |-> FALSE,
        lost |-> {}]]
  /\ Continue(c, r,
       [NoWork EXCEPT
          !.own = {Active(n, rooms[r][n], 0) : n \in OpenRooms(r)},
          !.heard = UNION {{Active(n, links[r][q].remote[n], 0) :
                              n \in DOMAIN links[r][q].remote} :
                           q \in Linked(r) \ {p}}])
  /\ UNCHANGED <<locals, conns, wire, sweep, faults>>

\* The announcements go out one by one after the locks are released, local
\* rooms first.
Announce(c, r) ==
  LET w == todo[c][r] IN
  /\ end[c][r] = "announcing"
  /\ \/ \E m \in w.own :
          /\ wire' = Sent(r, {c}, m)
          /\ Continue(c, r, [w EXCEPT !.own = @ \ {m}])
     \/ \E m \in w.heard :
          /\ w.own = {}
          /\ wire' = Sent(r, {c}, m)
          /\ Continue(c, r, [w EXCEPT !.heard = @ \ {m}])
  /\ UNCHANGED <<locals, conns, links, sweep, faults>>

\* Mutant: the cleanup leaves the peer's entry.
EndLinkKeepingEntry(c, r) ==
  /\ c \in DOMAIN conns
  /\ ~Up(c)
  /\ end[c][r] \in {"receiving", "relaying"}
  /\ end' = [end EXCEPT ![c][r] = "over"]
  /\ todo' = [todo EXCEPT ![c][r] = NoWork]
  /\ wire' = [wire EXCEPT ![c][r] = <<>>]
  /\ UNCHANGED <<locals, conns, links, sweep, faults>>

\* The link is over for one end, in whatever handler it was: what is
\* registered for the peer goes, and nobody is told.
EndLink(c, r) ==
  /\ c \in DOMAIN conns
  /\ ~Up(c)
  /\ end[c][r] \in {"receiving", "relaying"}
  /\ end' = [end EXCEPT ![c][r] = "over"]
  /\ todo' = [todo EXCEPT ![c][r] = NoWork]
  /\ links' = [links EXCEPT ![r][Other(c, r)] = NoLink]
  /\ wire' = [wire EXCEPT ![c][r] = <<>>]
  /\ UNCHANGED <<locals, conns, sweep, faults>>

-----------------------------------------------------------------------------
(* handle_signal *)

\* What the handler of connection c changes in the entry of the peer, if
\* there still is one: entries are found by peer, so m may have come over an
\* older connection than the entry's. The field lost is history: rooms the
\* entry gave up though the peer did not say so on the entry's connection.
Noted(link, c, m) ==
  IF m.type = "Active"
  THEN [link EXCEPT !.active = @ \cup {m.room},
                    !.remote = With(@, m.room, m.who), !.quiet = FALSE,
                    !.lost = @ \ {m.room}]
  ELSE [link EXCEPT !.active = @ \ {m.room},
                    !.remote = Without(@, {m.room, Canonical[m.room]}),
                    !.quiet = FALSE,
                    !.lost = IF c = link.conn THEN @ \ {m.room}
                             ELSE @ \cup ({m.room} \cap link.active)]

Note(c, r, p, m) ==
  links' = IF p \in Linked(r) THEN [links EXCEPT ![r][p] = Noted(@, c, m)]
           ELSE links

\* The RoomUpdate for global room n: of the local rooms that stand for it
\* only the first the iteration meets is told. The handler of a failed
\* connection may not get that far.
NotifyLocals(c, r, n, remote) ==
  \/ \E l \in SameRoom(r, n) :
       view' = [view EXCEPT ![r][l] = rooms[r][l] \cup remote[l]]
  \/ (SameRoom(r, n) = {} \/ ~Up(c)) /\ UNCHANGED view

\* GlobalRoomActive: remember the roster, pass the signal on to every other
\* peer under the lock, and tell the local clients.
HandleActive(c, r) ==
  LET m == Head(wire[c][r])
      p == Other(c, r)
  IN
  /\ end[c][r] = "receiving"
  /\ wire[c][r] # <<>>
  /\ m.type = "Active"
  /\ Note(c, r, p, m)
  /\ \E cs \in Reached(c, Transports(r, Linked(r) \ {p})) :
       wire' = [Sent(r, cs, [m EXCEPT !.hops = @ + 1]) EXCEPT ![c][r] = Tail(@)]
  /\ NotifyLocals(c, r, m.room, [l \in RoomName |-> RemoteParticipants(links'[r], l)])
  /\ UNCHANGED <<rooms, events, missed, joins, conns, end, todo, sweep, faults>>

\* GlobalRoomInactive: forget the roster, and note under the lock what the
\* other links still report and whom to tell.
HandleInactive(c, r) ==
  LET m == Head(wire[c][r])  p == Other(c, r) IN
  /\ end[c][r] = "receiving"
  /\ wire[c][r] # <<>>
  /\ m.type = "Inactive"
  /\ Note(c, r, p, m)
  /\ todo' = [todo EXCEPT ![c][r] =
       [NoWork EXCEPT !.room = {m.room},
                      !.remaining = RemainingRemote(r, p, m.room),
                      !.others = Transports(r, Linked(r) \ {p}),
                      !.hops = m.hops + 1]]
  /\ wire' = [wire EXCEPT ![c][r] = Tail(@)]
  /\ end' = [end EXCEPT ![c][r] = "relaying"]
  /\ UNCHANGED <<locals, conns, sweep, faults>>

\* ... then tell the other peers: the room is still active with who remains,
\* here or behind the other links, or it is inactive; and the local clients.
PassInactiveOn(c, r) ==
  LET w == todo[c][r] IN
  /\ end[c][r] = "relaying"
  /\ \E n \in w.room, cs \in Reached(c, w.others) :
       /\ \/ /\ SameRoom(r, n) = {}
             /\ wire' = Sent(r, cs, IF w.remaining = {} THEN Inactive(n, w.hops)
                                    ELSE Active(n, w.remaining, w.hops))
          \/ \E l \in SameRoom(r, n) :
               wire' = Sent(r, cs, Active(n, w.remaining \cup rooms[r][l], w.hops))
       /\ NotifyLocals(c, r, n, [l \in RoomName |-> w.remaining])
  /\ todo' = [todo EXCEPT ![c][r] = NoWork]
  /\ end' = [end EXCEPT ![c][r] = "receiving"]
  /\ UNCHANGED <<rooms, events, missed, joins, conns, links, sweep, faults>>

-----------------------------------------------------------------------------
(* The stale presence sweeper *)

\* Nothing has come from p for REMOTE_PARTICIPANT_STALE_SECS: what p had sent
\* has arrived long since.
GoQuiet(r, p) ==
  /\ p \in Linked(r)
  /\ ~links[r][p].quiet
  /\ DOMAIN links[r][p].remote # {}
  /\ wire[links[r][p].conn][r] = <<>>
  /\ faults < MaxFaults
  /\ links' = [links EXCEPT ![r][p].quiet = TRUE]
  /\ faults' = faults + 1
  /\ UNCHANGED <<locals, conns, wire, end, todo, sweep>>

StaleRooms(r) ==
  {x \in Relay \X RoomName :
     /\ x[1] \in Linked(r)
     /\ links[r][x[1]].quiet
     /\ x[2] \in DOMAIN links[r][x[1]].remote}

Collect(r) ==
  /\ sweep[r] = {}
  /\ StaleRooms(r) # {}
  /\ sweep' = [sweep EXCEPT ![r] = StaleRooms(r)]
  /\ UNCHANGED <<locals, net, links>>

\* Mutant: the sweeper does not look again under the second lock.
PurgedUnchecked(r, p) ==
  LET link == links[r][p]  ns == {x[2] : x \in {y \in sweep[r] : y[1] = p}} IN
  IF link # NoLink
  THEN [link EXCEPT !.active = @ \ ns, !.remote = Without(@, ns),
                    !.lost = @ \cup (ns \cap link.active)]
  ELSE link

\* Under a second lock: a peer heard of in between is spared.
Purged(r, p) ==
  LET link == links[r][p]  ns == {x[2] : x \in {y \in sweep[r] : y[1] = p}} IN
  IF link # NoLink /\ link.quiet
  THEN [link EXCEPT !.active = @ \ ns, !.remote = Without(@, ns),
                    !.lost = @ \cup (ns \cap link.active)]
  ELSE link

\* The local clients of each room purged get a new roster: one action with
\* the purge.
Purge(r) ==
  LET after == [p \in Relay |-> Purged(r, p)]
      hit == {x[2] : x \in {y \in sweep[r] : links[r][y[1]] # NoLink
                                             /\ links[r][y[1]].quiet}}
  IN
  /\ sweep[r] # {}
  /\ links' = [links EXCEPT ![r] = after]
  /\ \E told \in SUBSET OpenRooms(r) :
       /\ \A n \in hit : SameRoom(r, n) # {} => SameRoom(r, n) \cap told # {}
       /\ \A l \in told : \E n \in hit : Canonical[n] = Canonical[l]
       /\ view' = [view EXCEPT ![r] =
            [l \in RoomName |-> IF l \in told THEN rooms[r][l] \cup RemoteParticipants(after, l)
                                ELSE @[l]]]
  /\ sweep' = [sweep EXCEPT ![r] = {}]
  /\ UNCHANGED <<rooms, events, missed, joins, net>>

-----------------------------------------------------------------------------
EndStep(c, r) ==
  \/ StartLink(c, r)
  \/ Announce(c, r)
  \/ EndLink(c, r)
  \/ HandleActive(c, r)
  \/ HandleInactive(c, r)
  \/ PassInactiveOn(c, r)

Next ==
  \/ \E p \in Client : Join(p) \/ Leave(p)
  \/ \E r, p \in Relay : Dial(r, p) \/ GoQuiet(r, p)
  \/ \E c \in Conn : Fail(c) \/ NoHello(c) \/ \E r \in Relay : EndStep(c, r)
  \/ \E r \in Relay : Dispatch(r) \/ Collect(r) \/ Purge(r)

Spec == Init /\ [][Next]_vars


-----------------------------------------------------------------------------
(* Properties *)

Works == [own : SUBSET Signals, heard : SUBSET Signals, room : SUBSET RoomName,
          remaining : SUBSET Client, others : SUBSET Conn,
          hops : Nat]
Phases == {"none", "starting", "announcing", "receiving", "relaying", "over"}

\* The state has its type.
TypeOK ==
  /\ rooms \in [Relay -> [RoomName -> SUBSET Client]]
  /\ view \in [Relay -> [RoomName -> SUBSET Client]]
  /\ events \in [Relay -> Seq([type : {"LocalJoin", "LocalLeave"},
                               room : RoomName])]
  /\ \A r \in Relay : Len(events[r]) <= EventCap
  /\ conns \in Seq([dialer : Relay, acceptor : Relay, up : BOOLEAN])
  /\ Len(conns) <= MaxConns
  /\ wire \in [Conn -> [Relay -> Seq(Signals)]]
  /\ end \in [Conn -> [Relay -> Phases]]
  /\ todo \in [Conn -> [Relay -> Works]]
  /\ links \in [Relay -> [Relay -> Links \cup {NoLink}]]
  /\ sweep \in [Relay -> SUBSET (Relay \X RoomName)]
  /\ missed \subseteq Relay
  /\ joins \in 0..MaxJoins
  /\ faults \in 0..MaxFaults

\* A peer_links entry always holds the connection of a link task that is
\* still running, so a signal or a datagram sent to a peer goes to somebody
\* who would notice that it failed: however connections to the same peer
\* overlap, no entry outlives its task.
LinksServed ==
  \A r, p \in Relay :
    p \in Linked(r) =>
      LET c == links[r][p].conn IN
      /\ c \in DOMAIN conns
      /\ {conns[c].dialer, conns[c].acceptor} = {r, p}
      /\ end[c][r] \notin {"none", "starting", "over"}

\* Nothing is under way: no event, no signal, no task in the middle of one.
Settled ==
  /\ \A r \in Relay : events[r] = <<>> /\ sweep[r] = {}
  /\ \A c \in DOMAIN conns : \A r \in {conns[c].dialer, conns[c].acceptor} :
       /\ end[c][r] = IF Up(c) THEN "receiving" ELSE "over"
       /\ wire[c][r] = <<>>

\* r's entry for p and p's for r hold the same connection.
Joined(r, p) ==
  /\ p \in Linked(r) /\ r \in Linked(p)
  /\ links[r][p].conn = links[p][r].conn

\* Once things settle, two relays whose entries for each other share a
\* connection agree that a room is active: r knows of every room p has
\* participants in, unless p's dispatcher lost an event. Announcements race
\* with the dispatcher, both ends dial and replace each other's entries, and
\* handlers are dropped half way: none of that loses an activation. What does
\* is in lost: the sweeper purged a silent p, or an Inactive of an older
\* connection came late, and p has not reported the room since.
ActiveRoomsKnown ==
  Settled =>
    \A r, p \in Relay :
      Joined(r, p) /\ p \notin missed
        => OpenRooms(p) \subseteq links[r][p].active \cup links[r][p].lost

\* The same without the exemption, when no connection failed and nobody was
\* silent: false where each relay dials the other, as the docs have it
\* (MCFederation_both).
ActiveRoomsAlwaysKnown ==
  Settled =>
    \A r, p \in Relay :
      Joined(r, p) /\ p \notin missed /\ faults = 0
        => OpenRooms(p) \subseteq links[r][p].active

\* The sweeper only takes away what a peer reported while that peer is
\* silent: a link heard of between the two locks keeps its rooms.
SweepSparesTheHeard ==
  [][\A r, p \in Relay :
       sweep[r] # {} /\ sweep'[r] = {} /\ p \in Linked(r) /\ ~links[r][p].quiet
         => links'[r][p] = links[r][p]]_vars

\* When a peer goes down its participants disappear from the rosters: once
\* things settle the local clients have been told of nobody whom neither the
\* room nor a link still holds.
DepartedDisappear ==
  Settled =>
    \A r \in Relay : \A n \in OpenRooms(r) :
      view[r][n] \subseteq rooms[r][n] \cup RemoteParticipants(links[r], n)

\* News dies out: between n relays a signal is passed on at most n - 2 times,
\* whatever it is turned into on the way.
SignalsDieOut ==
  \A c \in Conn, r \in Relay : \A i \in DOMAIN wire[c][r] :
    wire[c][r][i].hops + 2 <= Cardinality(Relay)
=============================================================================
