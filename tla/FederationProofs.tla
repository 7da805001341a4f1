--------------------------- MODULE FederationProofs ---------------------------
(* Proofs about Federation, for any relays, peers, clients and rooms.        *)
EXTENDS Federation, SequenceTheorems, TLAPS

\* A connection is known by who dialled whom.
ConnsType ==
  /\ conns \in Seq([dialer : Relay, acceptor : Relay, up : BOOLEAN])
  /\ Len(conns) <= MaxConns

Ends(c) == {conns[c].dialer, conns[c].acceptor}

\* Only the two ends of a connection that was dialled run a link task for it.
EndsType ==
  /\ end \in [Conn -> [Relay -> Phases]]
  /\ \A c \in Conn, r \in Relay :
       end[c][r] # "none" => c \in DOMAIN conns /\ r \in Ends(c)

\* An entry of peer_links is a record with a connection.
EntriesType ==
  /\ DOMAIN links = Relay
  /\ \A r \in Relay :
       /\ DOMAIN links[r] = Relay
       /\ \A p \in Relay : links[r][p] # NoLink =>
            /\ links[r][p] = [x \in DOMAIN links[r][p] |-> links[r][p][x]]
            /\ "conn" \in DOMAIN links[r][p]

Inv == ConnsType /\ EndsType /\ EntriesType /\ LinksServed

\* A task of connection c is on its way, between its start and its end.
Serving == Phases \ {"none", "starting", "over"}

\* After a change an entry is the old one, but for what was reported.
SameConn(new, old) ==
  /\ new = [x \in DOMAIN new |-> new[x]]
  /\ "conn" \in DOMAIN new
  /\ new.conn = old.conn

\* What a peer reports changes its entry, never the entry's connection.
LEMMA NotedSameConn ==
  ASSUME NEW link, "conn" \in DOMAIN link, NEW c, NEW m
  PROVE  SameConn(Noted(link, c, m), link)
  BY DEF SameConn, Noted

\* Nor does a sweep, which only takes rooms out of the entry.
LEMMA PurgedSameConn ==
  ASSUME NEW r, NEW p, links[r][p] # NoLink, "conn" \in DOMAIN links[r][p],
         links[r][p] = [x \in DOMAIN links[r][p] |-> links[r][p][x]]
  PROVE  SameConn(Purged(r, p), links[r][p])
  BY DEF SameConn, Purged

\* The other end of a connection's end.
LEMMA OtherEnd ==
  ASSUME ConnsType, NEW c \in DOMAIN conns, NEW r \in Ends(c)
  PROVE  Other(c, r) \in Relay /\ Ends(c) = {r, Other(c, r)}
<1>1. conns[c] \in [dialer : Relay, acceptor : Relay, up : BOOLEAN]
  BY LenProperties, ElementOfSeq DEF ConnsType
<1>2. CASE conns[c].dialer = r
  BY <1>1, <1>2 DEF Ends, Other
<1>3. CASE conns[c].dialer # r
  BY <1>1, <1>3 DEF Ends, Other
<1> QED
  BY <1>2, <1>3

\* LinksServed of one entry: its connection has the two relays as ends, and
\* the relay's task serves it.
ServedBy(r, p, c) ==
  c \in Conn /\ c \in DOMAIN conns /\ Ends(c) = {r, p} /\ end[c][r] \in Serving

\* An entry of peer_links is served by a task of its relay.
LEMMA EntryServed ==
  ASSUME ConnsType, EndsType, LinksServed,
         NEW r \in Relay, NEW p \in Relay, links[r][p] # NoLink
  PROVE  ServedBy(r, p, links[r][p].conn)
<1> DEFINE c == links[r][p].conn
<1>1. c \in DOMAIN conns /\ Ends(c) = {r, p} /\ end[c][r] \notin {"none", "starting", "over"}
  BY DEF LinksServed, Linked, Ends
<1>2. c \in Conn
  BY <1>1, BoundAssumption DEF ConnsType, Conn
<1>3. end[c][r] \in Phases
  BY <1>2 DEF EndsType
<1> QED
  BY <1>1, <1>2, <1>3 DEF ServedBy, Serving

\* A step that keeps the connections of the entries it leaves, and no task
\* that serves one stops, leaves every entry served.
LEMMA ServedKept ==
  ASSUME Inv, ConnsType', EndsType', DOMAIN links' = Relay,
         \A c \in DOMAIN conns : c \in DOMAIN conns' /\ Ends(c)' = Ends(c),
         \A c \in Conn, r \in Relay : end[c][r] \in Serving => end'[c][r] \in Serving,
         \A r \in Relay : DOMAIN links'[r] = Relay,
         \A r, p \in Relay : links'[r][p] # NoLink =>
           links[r][p] # NoLink /\ SameConn(links'[r][p], links[r][p])
  PROVE  EntriesType' /\ LinksServed'
<1>1. EntriesType'
  BY DEF EntriesType, SameConn
<1>2. ASSUME NEW r \in Relay, NEW p \in Relay, links'[r][p] # NoLink
      PROVE  LET c == links'[r][p].conn IN
             /\ c \in DOMAIN conns'
             /\ {conns'[c].dialer, conns'[c].acceptor} = {r, p}
             /\ end'[c][r] \notin {"none", "starting", "over"}
  <2>1. links[r][p] # NoLink /\ links'[r][p].conn = links[r][p].conn
    BY <1>2 DEF SameConn
  <2>2. PICK c : c = links[r][p].conn
    OBVIOUS
  <2>3. ServedBy(r, p, c)
    BY <2>1, <2>2, EntryServed DEF Inv
  <2>4. c \in DOMAIN conns' /\ Ends(c)' = {r, p} /\ end'[c][r] \in Serving
    BY <2>3 DEF ServedBy
  <2> QED
    BY <2>1, <2>2, <2>4 DEF Ends, Serving
<1> QED
  BY <1>1, <1>2 DEF LinksServed, Linked

-----------------------------------------------------------------------------
\* Steps that touch neither the connections nor what the link tasks are doing.
LEMMA OtherStep ==
  ASSUME Inv, UNCHANGED <<conns, end>>
  PROVE  ConnsType' /\ EndsType'
  BY DEF Inv, ConnsType, EndsType, Ends

\* A link task that goes on, from one of its phases to another.
LEMMA PhaseStep ==
  ASSUME Inv, UNCHANGED conns, NEW c \in Conn, NEW r \in Relay, NEW e \in Phases,
         end[c][r] # "none", end' = [end EXCEPT ![c][r] = e]
  PROVE  ConnsType' /\ EndsType'
<1>1. ConnsType'
  BY DEF Inv, ConnsType
<1>2. end' \in [Conn -> [Relay -> Phases]]
  BY DEF Inv, EndsType
<1>3. ASSUME NEW d \in Conn, NEW q \in Relay, end'[d][q] # "none"
      PROVE  d \in DOMAIN conns /\ q \in Ends(d)
  BY <1>3 DEF Inv, EndsType
<1> QED
  BY <1>1, <1>2, <1>3 DEF EndsType, Ends

\* A connection that is dialled is a new one, and gives a task to its ends.
LEMMA DialStep ==
  ASSUME Inv, NEW r \in Relay, NEW p \in Relay, Dial(r, p)
  PROVE  /\ ConnsType' /\ EndsType'
         /\ \A c \in DOMAIN conns : c \in DOMAIN conns' /\ Ends(c)' = Ends(c)
         /\ \A c \in Conn, q \in Relay :
              end[c][q] \in Serving => end'[c][q] \in Serving
<1> DEFINE new == [dialer |-> r, acceptor |-> p, up |-> TRUE]
           Ok == [dialer : Relay, acceptor : Relay, up : BOOLEAN]
<1>1. PICK c \in Conn :
        /\ c = Len(conns) + 1
        /\ conns' = Append(conns, new)
        /\ end' = [end EXCEPT ![c][r] = "starting", ![c][p] = "starting"]
  BY DEF Dial
<1>2. conns \in Seq(Ok) /\ new \in Ok /\ Len(conns) \in Nat
  BY LenProperties DEF Inv, ConnsType
<1>3. /\ conns' \in Seq(Ok) /\ Len(conns') = c
      /\ \A d \in 1..Len(conns) : conns'[d] = conns[d]
      /\ conns'[c] = new
  BY <1>1, <1>2, AppendProperties
<1>4. DOMAIN conns = 1..Len(conns) /\ DOMAIN conns' = 1..c
  BY <1>2, <1>3, LenProperties
<1>5. ConnsType'
  BY <1>1, <1>3 DEF ConnsType, Conn
<1>6. \A d \in DOMAIN conns : d \in DOMAIN conns' /\ Ends(d)' = Ends(d)
  BY <1>1, <1>2, <1>3, <1>4 DEF Ends
<1>7. c \notin DOMAIN conns /\ \A q \in Relay : end[c][q] = "none"
  BY <1>1, <1>2, <1>4 DEF Inv, EndsType
<1>8. end' \in [Conn -> [Relay -> Phases]]
  BY <1>1 DEF Inv, EndsType, Phases
<1>9. ASSUME NEW d \in Conn, NEW q \in Relay, d # c
      PROVE  end'[d][q] = end[d][q]
  BY <1>1, <1>9 DEF Inv, EndsType
<1>10. \A q \in Relay : end'[c][q] # "none" => q \in {r, p}
  BY <1>1, <1>7 DEF Inv, EndsType
<1>11. Ends(c)' = {r, p} /\ c \in DOMAIN conns'
  BY <1>1, <1>2, <1>3, <1>4 DEF Ends
<1>12. EndsType'
  <2>1. ASSUME NEW d \in Conn, NEW q \in Relay, end'[d][q] # "none"
        PROVE  d \in DOMAIN conns' /\ q \in Ends(d)'
    <3>1. CASE d = c
      BY <2>1, <3>1, <1>10, <1>11
    <3>2. CASE d # c
      BY <2>1, <3>2, <1>6, <1>9 DEF Inv, EndsType
    <3> QED
      BY <3>1, <3>2
  <2> QED
    BY <1>8, <2>1 DEF EndsType
<1>13. \A d \in Conn, q \in Relay : end[d][q] \in Serving => end'[d][q] \in Serving
  BY <1>7, <1>9 DEF Serving
<1> QED
  BY <1>5, <1>6, <1>12, <1>13

\* Every step of the relays' tasks and the connections.
LEMMA EndsStep ==
  ASSUME Inv, [Next]_vars
  PROVE  ConnsType' /\ EndsType'
<1>1. CASE UNCHANGED vars
  BY <1>1, OtherStep DEF vars
<1>2. ASSUME NEW p \in Client, Join(p) \/ Leave(p)
      PROVE  ConnsType' /\ EndsType'
  BY <1>2, OtherStep DEF Join, Leave, net
<1>3. ASSUME NEW r \in Relay, NEW p \in Relay, Dial(r, p) \/ GoQuiet(r, p)
      PROVE  ConnsType' /\ EndsType'
  BY <1>3, OtherStep, DialStep DEF GoQuiet
<1>4. ASSUME NEW r \in Relay, Dispatch(r) \/ Collect(r) \/ Purge(r)
      PROVE  ConnsType' /\ EndsType'
  BY <1>4, OtherStep DEF Dispatch, Collect, Purge, net
<1>5. ASSUME NEW c \in Conn, Fail(c)
      PROVE  ConnsType' /\ EndsType'
  <2>1. /\ conns' = [conns EXCEPT ![c].up = FALSE] /\ end' = end
        /\ c \in DOMAIN conns
    BY <1>5 DEF Fail, Up
  <2>2. conns[c] \in [dialer : Relay, acceptor : Relay, up : BOOLEAN]
    BY <2>1, LenProperties, ElementOfSeq DEF Inv, ConnsType
  <2>3. /\ conns' \in Seq([dialer : Relay, acceptor : Relay, up : BOOLEAN])
        /\ Len(conns') = Len(conns) /\ DOMAIN conns' = DOMAIN conns
    <3> DEFINE e == [conns[c] EXCEPT !.up = FALSE]
    <3>1. e \in [dialer : Relay, acceptor : Relay, up : BOOLEAN]
      BY <2>2
    <3>2. c \in 1..Len(conns) /\ conns' = [conns EXCEPT ![c] = e]
      BY <2>1, LenProperties DEF Inv, ConnsType
    <3> HIDE DEF e
    <3> QED
      BY <3>1, <3>2, ExceptSeq, LenProperties DEF Inv, ConnsType
  <2>4. \A d \in DOMAIN conns : Ends(d)' = Ends(d)
    BY <2>1, <2>2 DEF Ends
  <2> QED
    BY <2>1, <2>3, <2>4 DEF Inv, ConnsType, EndsType
<1>6. ASSUME NEW c \in Conn, NoHello(c)
      PROVE  ConnsType' /\ EndsType'
  <2>1. conns[c] \in [dialer : Relay, acceptor : Relay, up : BOOLEAN]
    BY <1>6, LenProperties, ElementOfSeq DEF Inv, ConnsType, NoHello
  <2> QED
    BY <1>6, <2>1, PhaseStep DEF NoHello, Phases
<1>7. ASSUME NEW c \in Conn, NEW r \in Relay, EndStep(c, r)
      PROVE  ConnsType' /\ EndsType'
  <2>1. CASE HandleActive(c, r)
    BY <2>1, OtherStep DEF HandleActive
  <2>2. CASE ~HandleActive(c, r)
    <3>1. PICK e \in Phases : /\ UNCHANGED conns /\ end[c][r] # "none"
                              /\ end' = [end EXCEPT ![c][r] = e]
      <4> DEFINE P == \E e \in Phases : /\ UNCHANGED conns /\ end[c][r] # "none"
                                        /\ end' = [end EXCEPT ![c][r] = e]
      <4>1. CASE StartLink(c, r)
        BY <4>1 DEF StartLink, Continue, Phases
      <4>2. CASE Announce(c, r)
        BY <4>2 DEF Announce, Continue, Phases
      <4>3. CASE EndLink(c, r)
        BY <4>3 DEF EndLink, Phases
      <4>4. CASE HandleInactive(c, r)
        BY <4>4 DEF HandleInactive, Phases
      <4>5. CASE PassInactiveOn(c, r)
        BY <4>5 DEF PassInactiveOn, Phases
      <4> QED
        BY <1>7, <2>2, <4>1, <4>2, <4>3, <4>4, <4>5 DEF EndStep
    <3> QED
      BY <3>1, PhaseStep
  <2> QED
    BY <2>1, <2>2
<1> QED
  BY <1>1, <1>2, <1>3, <1>4, <1>5, <1>6, <1>7 DEF Next

-----------------------------------------------------------------------------
\* A step that changes neither the entries nor the connections' ends, and
\* stops no task that serves one.
LEMMA LinksKept ==
  ASSUME Inv, ConnsType', EndsType', links' = links,
         \A c \in DOMAIN conns : c \in DOMAIN conns' /\ Ends(c)' = Ends(c),
         \A c \in Conn, r \in Relay : end[c][r] \in Serving => end'[c][r] \in Serving
  PROVE  EntriesType' /\ LinksServed'
<1>1. \A r, p \in Relay : links'[r][p] # NoLink =>
        links[r][p] # NoLink /\ SameConn(links'[r][p], links[r][p])
  BY DEF Inv, EntriesType, SameConn
<1>2. DOMAIN links' = Relay /\ \A r \in Relay : DOMAIN links'[r] = Relay
  BY DEF Inv, EntriesType
<1> QED
  BY <1>1, <1>2, ServedKept

\* What a peer reported, or its silence, is noted in the entry it has.
LEMMA NoteStep ==
  ASSUME Inv, ConnsType', EndsType', UNCHANGED conns,
         \A c \in Conn, q \in Relay : end[c][q] \in Serving => end'[c][q] \in Serving,
         NEW r \in Relay, NEW p \in Relay, links[r][p] # NoLink, NEW new,
         SameConn(new, links[r][p]), links' = [links EXCEPT ![r][p] = new]
  PROVE  EntriesType' /\ LinksServed'
<1>1. DOMAIN links' = Relay /\ \A q \in Relay : DOMAIN links'[q] = Relay
  BY DEF Inv, EntriesType
<1>2. ASSUME NEW q \in Relay, NEW s \in Relay, links'[q][s] # NoLink
      PROVE  links[q][s] # NoLink /\ SameConn(links'[q][s], links[q][s])
  <2>1. CASE q = r /\ s = p
    <3>1. links'[q][s] = new
      BY <2>1 DEF Inv, EntriesType
    <3> QED
      BY <2>1, <3>1
  <2>2. CASE ~(q = r /\ s = p)
    <3>1. links'[q][s] = links[q][s]
      BY <2>2 DEF Inv, EntriesType
    <3> QED
      BY <1>2, <3>1 DEF Inv, EntriesType, SameConn
  <2> QED
    BY <2>1, <2>2
<1>3. \A c \in DOMAIN conns : c \in DOMAIN conns' /\ Ends(c)' = Ends(c)
  BY DEF Ends
<1> QED
  BY <1>1, <1>2, <1>3, ServedKept

\* A task that starts replaces the entry of its peer, and serves it.
LEMMA StartStep ==
  ASSUME Inv, ConnsType', EndsType', NEW c \in Conn, NEW r \in Relay, StartLink(c, r)
  PROVE  EntriesType' /\ LinksServed'
<1> DEFINE new == [conn |-> c, active |-> {}, remote |-> <<>>, quiet |-> FALSE,
                   lost |-> {}]
           p == Other(c, r)
<1>1. r \in Ends(c) /\ c \in DOMAIN conns
  BY DEF StartLink, Inv, EndsType
<1>2. p \in Relay /\ Ends(c) = {r, p}
  BY <1>1, OtherEnd DEF Inv
<1>3. /\ links' = [links EXCEPT ![r][p] = new] /\ conns' = conns
      /\ end[c][r] = "starting"
      /\ \E e \in {"receiving", "announcing"} : end' = [end EXCEPT ![c][r] = e]
  BY DEF StartLink, Continue
<1>4. end'[c][r] \in {"receiving", "announcing"}
  BY <1>3 DEF Inv, EndsType
<1>5. \A d \in Conn, q \in Relay : end[d][q] \in Serving => end'[d][q] \in Serving
  BY <1>3, <1>4 DEF Inv, EndsType, Serving, Phases
<1>6. links'[r][p] = new /\ new.conn = c
  BY <1>2, <1>3 DEF Inv, EntriesType
<1>7. \A q, s \in Relay : ~(q = r /\ s = p) => links'[q][s] = links[q][s]
  BY <1>2, <1>3 DEF Inv, EntriesType
<1>8. EntriesType'
  <2>1. DOMAIN links' = Relay /\ \A q \in Relay : DOMAIN links'[q] = Relay
    BY <1>3 DEF Inv, EntriesType
  <2>2. new = [x \in DOMAIN new |-> new[x]] /\ "conn" \in DOMAIN new
    OBVIOUS
  <2> HIDE DEF new, p
  <2> QED
    BY <1>6, <1>7, <2>1, <2>2 DEF Inv, EntriesType
<1>9. ASSUME NEW q \in Relay, NEW s \in Relay, links'[q][s] # NoLink
      PROVE  LET d == links'[q][s].conn IN
             /\ d \in DOMAIN conns'
             /\ {conns'[d].dialer, conns'[d].acceptor} = {q, s}
             /\ end'[d][q] \notin {"none", "starting", "over"}
  <2>1. CASE q = r /\ s = p
    BY <2>1, <1>1, <1>2, <1>3, <1>4, <1>6 DEF Ends
  <2>2. CASE ~(q = r /\ s = p)
    <3>1. PICK d : d = links[q][s].conn
      OBVIOUS
    <3>2. links'[q][s] = links[q][s]
      BY <2>2, <1>7
    <3>3. ServedBy(q, s, d)
      BY <1>9, <3>1, <3>2, EntryServed DEF Inv
    <3> QED
      BY <1>3, <1>5, <3>1, <3>2, <3>3 DEF ServedBy, Ends, Serving
  <2> QED
    BY <2>1, <2>2
<1> QED
  BY <1>8, <1>9 DEF LinksServed, Linked

\* A task that ends takes out the entry of its peer, so none is left that
\* holds its connection.
LEMMA EndStepLinks ==
  ASSUME Inv, ConnsType', EndsType', NEW c \in Conn, NEW r \in Relay, EndLink(c, r)
  PROVE  EntriesType' /\ LinksServed'
<1> DEFINE p == Other(c, r)
<1>1. r \in Ends(c) /\ c \in DOMAIN conns
  BY DEF EndLink, Inv, EndsType
<1>2. p \in Relay /\ Ends(c) = {r, p}
  BY <1>1, OtherEnd DEF Inv
<1>3. /\ links' = [links EXCEPT ![r][p] = NoLink] /\ conns' = conns
      /\ end' = [end EXCEPT ![c][r] = "over"]
  BY DEF EndLink
<1>4. links'[r][p] = NoLink
  BY <1>2, <1>3 DEF Inv, EntriesType
<1>5. \A q, s \in Relay : ~(q = r /\ s = p) => links'[q][s] = links[q][s]
  BY <1>2, <1>3 DEF Inv, EntriesType
<1>6. EntriesType'
  <2>1. DOMAIN links' = Relay /\ \A q \in Relay : DOMAIN links'[q] = Relay
    BY <1>3 DEF Inv, EntriesType
  <2> HIDE DEF p
  <2> QED
    BY <1>4, <1>5, <2>1 DEF Inv, EntriesType
<1>7. ASSUME NEW q \in Relay, NEW s \in Relay, links'[q][s] # NoLink
      PROVE  LET d == links'[q][s].conn IN
             /\ d \in DOMAIN conns'
             /\ {conns'[d].dialer, conns'[d].acceptor} = {q, s}
             /\ end'[d][q] \notin {"none", "starting", "over"}
  <2>1. ~(q = r /\ s = p) /\ links'[q][s] = links[q][s]
    BY <1>4, <1>5, <1>7
  <2>2. PICK d : d = links[q][s].conn
    OBVIOUS
  <2>3. ServedBy(q, s, d)
    BY <1>7, <2>1, <2>2, EntryServed DEF Inv
  <2>4. ~(d = c /\ q = r)
    BY <1>2, <2>1, <2>3 DEF ServedBy
  <2>5. end'[d][q] = end[d][q]
    BY <1>3, <2>3, <2>4 DEF Inv, EndsType, ServedBy
  <2> QED
    BY <1>3, <2>1, <2>2, <2>3, <2>5 DEF ServedBy, Ends, Serving
<1> QED
  BY <1>6, <1>7 DEF LinksServed, Linked

\* A handler notes what the peer said in the peer's entry, if there is one.
LEMMA HandlerStep ==
  ASSUME Inv, ConnsType', EndsType', UNCHANGED conns,
         \A c \in Conn, q \in Relay : end[c][q] \in Serving => end'[c][q] \in Serving,
         NEW c \in Conn, NEW r \in Relay, end[c][r] # "none", NEW m,
         Note(c, r, Other(c, r), m)
  PROVE  EntriesType' /\ LinksServed'
<1> DEFINE p == Other(c, r)
<1>1. p \in Relay
  BY OtherEnd DEF Inv, EndsType
<1>2. CASE p \in Linked(r)
  <2>1. links[r][p] # NoLink /\ "conn" \in DOMAIN links[r][p]
    BY <1>1, <1>2 DEF Linked, Inv, EntriesType
  <2>2. links' = [links EXCEPT ![r][p] = Noted(links[r][p], c, m)]
    BY <1>2 DEF Note
  <2>3. SameConn(Noted(links[r][p], c, m), links[r][p])
    BY <2>1, NotedSameConn
  <2> HIDE DEF p
  <2> QED
    BY <1>1, <2>1, <2>2, <2>3, NoteStep
<1>3. CASE p \notin Linked(r)
  BY <1>3, LinksKept DEF Note, Ends
<1> QED
  BY <1>2, <1>3

\* The sweeper takes rooms out of entries, never a connection.
LEMMA PurgeStep ==
  ASSUME Inv, ConnsType', EndsType', NEW r \in Relay, Purge(r)
  PROVE  EntriesType' /\ LinksServed'
<1>1. /\ links' = [links EXCEPT ![r] = [p \in Relay |-> Purged(r, p)]]
      /\ UNCHANGED <<conns, end>>
  BY DEF Purge, net
<1>2. DOMAIN links' = Relay /\ \A q \in Relay : DOMAIN links'[q] = Relay
  BY <1>1 DEF Inv, EntriesType
<1>3. ASSUME NEW q \in Relay, NEW s \in Relay, links'[q][s] # NoLink
      PROVE  links[q][s] # NoLink /\ SameConn(links'[q][s], links[q][s])
  <2>1. CASE q = r
    <3>1. links'[q][s] = Purged(r, s)
      BY <1>1, <2>1 DEF Inv, EntriesType
    <3>2. links[r][s] # NoLink
      BY <1>3, <3>1 DEF Purged
    <3>3. /\ "conn" \in DOMAIN links[r][s]
          /\ links[r][s] = [x \in DOMAIN links[r][s] |-> links[r][s][x]]
      BY <3>2 DEF Inv, EntriesType
    <3>4. SameConn(Purged(r, s), links[r][s])
      BY <3>2, <3>3, PurgedSameConn
    <3> QED
      BY <2>1, <3>1, <3>2, <3>4
  <2>2. CASE q # r
    <3>1. links'[q][s] = links[q][s]
      BY <1>1, <2>2 DEF Inv, EntriesType
    <3> QED
      BY <1>3, <3>1 DEF Inv, EntriesType, SameConn
  <2> QED
    BY <2>1, <2>2
<1>4. \A c \in DOMAIN conns : c \in DOMAIN conns' /\ Ends(c)' = Ends(c)
  BY <1>1 DEF Ends
<1> QED
  BY <1>1, <1>2, <1>3, <1>4, ServedKept

\* Every step keeps every entry served.
LEMMA LinksStep ==
  ASSUME Inv, [Next]_vars
  PROVE  EntriesType' /\ LinksServed'
<1>1. ConnsType' /\ EndsType'
  BY EndsStep
<1>2. CASE UNCHANGED vars
  BY <1>1, <1>2, LinksKept DEF vars, Ends
<1>3. ASSUME NEW p \in Client, Join(p) \/ Leave(p)
      PROVE  EntriesType' /\ LinksServed'
  BY <1>1, <1>3, LinksKept DEF Join, Leave, net, Ends
<1>4. ASSUME NEW r \in Relay, NEW p \in Relay, Dial(r, p)
      PROVE  EntriesType' /\ LinksServed'
  <2>1. links' = links
    BY <1>4 DEF Dial
  <2> QED
    BY <1>1, <1>4, <2>1, DialStep, LinksKept
<1>5. ASSUME NEW r \in Relay, NEW p \in Relay, GoQuiet(r, p)
      PROVE  EntriesType' /\ LinksServed'
  <2> DEFINE new == [links[r][p] EXCEPT !.quiet = TRUE]
  <2>1. /\ links[r][p] # NoLink /\ links' = [links EXCEPT ![r][p] = new]
        /\ UNCHANGED <<conns, end>>
    BY <1>5 DEF GoQuiet, Linked
  <2>2. SameConn(new, links[r][p])
    BY <2>1 DEF SameConn, Inv, EntriesType
  <2> HIDE DEF new
  <2> QED
    BY <1>1, <2>1, <2>2, NoteStep
<1>6. ASSUME NEW r \in Relay, Dispatch(r) \/ Collect(r)
      PROVE  EntriesType' /\ LinksServed'
  BY <1>1, <1>6, LinksKept DEF Dispatch, Collect, net, Ends
<1>7. ASSUME NEW r \in Relay, Purge(r)
      PROVE  EntriesType' /\ LinksServed'
  BY <1>1, <1>7, PurgeStep
<1>8. ASSUME NEW c \in Conn, Fail(c)
      PROVE  EntriesType' /\ LinksServed'
  <2>1. /\ conns' = [conns EXCEPT ![c].up = FALSE] /\ UNCHANGED <<end, links>>
        /\ c \in DOMAIN conns
    BY <1>8 DEF Fail, Up, locals
  <2>2. conns[c] \in [dialer : Relay, acceptor : Relay, up : BOOLEAN]
    BY <2>1, LenProperties, ElementOfSeq DEF Inv, ConnsType
  <2>3. \A d \in DOMAIN conns : d \in DOMAIN conns' /\ Ends(d)' = Ends(d)
    BY <2>1, <2>2 DEF Ends
  <2> QED
    BY <1>1, <2>1, <2>3, LinksKept
<1>9. ASSUME NEW c \in Conn, NoHello(c)
      PROVE  EntriesType' /\ LinksServed'
  <2>1. UNCHANGED <<conns, links>>
    BY <1>9 DEF NoHello
  <2>2. \A d \in Conn, q \in Relay : end[d][q] \in Serving => end'[d][q] \in Serving
    BY <1>9 DEF NoHello, Inv, EndsType, Serving
  <2> QED
    BY <1>1, <2>1, <2>2, LinksKept DEF Ends
<1>10. ASSUME NEW c \in Conn, NEW r \in Relay, EndStep(c, r)
       PROVE  EntriesType' /\ LinksServed'
  <2>1. CASE StartLink(c, r)
    BY <1>1, <2>1, StartStep
  <2>2. CASE EndLink(c, r)
    BY <1>1, <2>2, EndStepLinks
  <2>3. CASE Announce(c, r) \/ PassInactiveOn(c, r)
    <3>1. UNCHANGED <<conns, links>>
      BY <2>3 DEF Announce, PassInactiveOn
    <3>2. \E e \in {"receiving", "announcing"} : end' = [end EXCEPT ![c][r] = e]
      BY <2>3 DEF Announce, PassInactiveOn, Continue
    <3>3. \A d \in Conn, q \in Relay : end[d][q] \in Serving => end'[d][q] \in Serving
      BY <3>2 DEF Inv, EndsType, Serving, Phases
    <3> QED
      BY <1>1, <3>1, <3>3, LinksKept DEF Ends
  <2>4. CASE HandleActive(c, r)
    <3>1. /\ UNCHANGED <<conns, end>> /\ end[c][r] # "none"
          /\ \E m : Note(c, r, Other(c, r), m)
      BY <2>4 DEF HandleActive
    <3> QED
      BY <1>1, <3>1, HandlerStep
  <2>5. CASE HandleInactive(c, r)
    <3>1. /\ UNCHANGED conns /\ end' = [end EXCEPT ![c][r] = "relaying"]
          /\ end[c][r] # "none" /\ \E m : Note(c, r, Other(c, r), m)
      BY <2>5 DEF HandleInactive
    <3>2. \A d \in Conn, q \in Relay : end[d][q] \in Serving => end'[d][q] \in Serving
      BY <3>1 DEF Inv, EndsType, Serving, Phases
    <3> QED
      BY <1>1, <3>1, <3>2, HandlerStep
  <2> QED
    BY <1>10, <2>1, <2>2, <2>3, <2>4, <2>5 DEF EndStep
<1> QED
  BY <1>2, <1>3, <1>4, <1>5, <1>6, <1>7, <1>8, <1>9, <1>10 DEF Next

-----------------------------------------------------------------------------
(* Types                                                                     *)

Event == [type : {"LocalJoin", "LocalLeave"}, room : RoomName]

\* A roster with a room's participants put in is a roster.
LEMMA WithType ==
  ASSUME NEW f \in Rosters, NEW n \in RoomName, NEW who \in SUBSET Client
  PROVE  With(f, n, who) \in Rosters
<1>1. PICK D \in SUBSET RoomName : f \in [D -> SUBSET Client]
  BY DEF Rosters
<1>2. With(f, n, who) \in [D \cup {n} -> SUBSET Client]
  BY <1>1 DEF With
<1> QED
  BY <1>2 DEF Rosters

\* So is one with rooms taken out.
LEMMA WithoutType ==
  ASSUME NEW f \in Rosters, NEW names
  PROVE  Without(f, names) \in Rosters
<1>1. PICK D \in SUBSET RoomName : f \in [D -> SUBSET Client]
  BY DEF Rosters
<1>2. Without(f, names) \in [D \ names -> SUBSET Client]
  BY <1>1 DEF Without
<1> QED
  BY <1>2 DEF Rosters

\* What a roster holds.
LEMMA RosterOf ==
  ASSUME NEW f \in Rosters
  PROVE  DOMAIN f \subseteq RoomName /\ \A n \in DOMAIN f : f[n] \subseteq Client
BY DEF Rosters

\* An entry stays one when a signal is noted in it.
LEMMA NotedType ==
  ASSUME NEW link \in Links, NEW c, NEW m \in Signals
  PROVE  Noted(link, c, m) \in Links
<1>1. /\ m.room \in RoomName /\ m.who \in SUBSET Client
      /\ link.active \in SUBSET RoomName /\ link.remote \in Rosters
      /\ link.conn \in Conn /\ link.lost \in SUBSET RoomName
  BY DEF Signals, Links
<1>2. With(link.remote, m.room, m.who) \in Rosters
  BY <1>1, WithType
<1>3. Without(link.remote, {m.room, Canonical[m.room]}) \in Rosters
  BY <1>1, WithoutType
<1>4. ASSUME NEW a \in SUBSET RoomName, NEW f \in Rosters, NEW g \in SUBSET RoomName
      PROVE  [link EXCEPT !.active = a, !.remote = f, !.quiet = FALSE, !.lost = g] \in Links
  BY DEF Links
<1>5. /\ (link.active \cup {m.room}) \in SUBSET RoomName
      /\ (link.active \ {m.room}) \in SUBSET RoomName
      /\ (link.lost \ {m.room}) \in SUBSET RoomName
      /\ (IF c = link.conn THEN link.lost \ {m.room}
          ELSE link.lost \cup ({m.room} \cap link.active)) \in SUBSET RoomName
  BY <1>1
<1>6. CASE m.type = "Active"
  <2>1. Noted(link, c, m) = [link EXCEPT !.active = link.active \cup {m.room},
                             !.remote = With(link.remote, m.room, m.who), !.quiet = FALSE,
                             !.lost = link.lost \ {m.room}]
    BY <1>6, Zenon DEF Noted
  <2>2. PICK a, f, g : /\ a = link.active \cup {m.room} /\ f = With(link.remote, m.room, m.who)
                       /\ g = link.lost \ {m.room}
    OBVIOUS
  <2>3. a \in SUBSET RoomName /\ f \in Rosters /\ g \in SUBSET RoomName
    BY <1>2, <1>5, <2>2
  <2>4. Noted(link, c, m) = [link EXCEPT !.active = a, !.remote = f, !.quiet = FALSE, !.lost = g]
    BY <2>1, <2>2, Zenon
  <2>5. [link EXCEPT !.active = a, !.remote = f, !.quiet = FALSE, !.lost = g] \in Links
    BY <1>4, <2>3
  <2> QED
    BY <2>4, <2>5, Zenon
<1>7. CASE m.type # "Active"
  <2>1. Noted(link, c, m) = [link EXCEPT !.active = link.active \ {m.room},
                             !.remote = Without(link.remote, {m.room, Canonical[m.room]}),
                             !.quiet = FALSE,
                             !.lost = IF c = link.conn THEN link.lost \ {m.room}
                                      ELSE link.lost \cup ({m.room} \cap link.active)]
    BY <1>7, Zenon DEF Noted
  <2>2. PICK a, f, g : /\ a = link.active \ {m.room}
                       /\ f = Without(link.remote, {m.room, Canonical[m.room]})
                       /\ g = IF c = link.conn THEN link.lost \ {m.room}
                              ELSE link.lost \cup ({m.room} \cap link.active)
    OBVIOUS
  <2>3. a \in SUBSET RoomName /\ f \in Rosters /\ g \in SUBSET RoomName
    BY <1>3, <1>5, <2>2
  <2>4. Noted(link, c, m) = [link EXCEPT !.active = a, !.remote = f, !.quiet = FALSE, !.lost = g]
    BY <2>1, <2>2, Zenon
  <2>5. [link EXCEPT !.active = a, !.remote = f, !.quiet = FALSE, !.lost = g] \in Links
    BY <1>4, <2>3
  <2> QED
    BY <2>4, <2>5, Zenon
<1> QED
  BY <1>6, <1>7

\* And when the sweeper purges it.
LEMMA PurgedType ==
  ASSUME NEW r \in Relay, NEW p \in Relay, links[r][p] \in Links \cup {NoLink}
  PROVE  Purged(r, p) \in Links \cup {NoLink}
<1> DEFINE link == links[r][p]
           ns == {x[2] : x \in {y \in sweep[r] : y[1] = p}}
<1>1. CASE link # NoLink /\ link.quiet
  <2>1. link \in Links
    BY <1>1
  <2>2. (link.active \ ns) \in SUBSET RoomName /\ link.remote \in Rosters
        /\ link.lost \in SUBSET RoomName /\ link.active \in SUBSET RoomName
    BY <2>1 DEF Links
  <2>3. Without(link.remote, ns) \in Rosters
    BY <2>2, WithoutType
  <2>4. ASSUME NEW a \in SUBSET RoomName, NEW f \in Rosters, NEW b \in SUBSET RoomName
        PROVE  [link EXCEPT !.active = a, !.remote = f, !.lost = b] \in Links
    BY <2>1 DEF Links
  <2>5. (link.lost \cup (ns \cap link.active)) \in SUBSET RoomName
    <3> HIDE DEF ns, link
    <3> QED
      BY <2>2
  <2>6. [link EXCEPT !.active = link.active \ ns, !.remote = Without(link.remote, ns),
                     !.lost = link.lost \cup (ns \cap link.active)] \in Links
    BY <2>2, <2>3, <2>4, <2>5
  <2>7. Purged(r, p) = [link EXCEPT !.active = @ \ ns, !.remote = Without(@, ns),
                                    !.lost = @ \cup (ns \cap link.active)]
    BY <1>1 DEF Purged
  <2> QED
    BY <2>6, <2>7
<1>2. CASE ~(link # NoLink /\ link.quiet)
  BY <1>2 DEF Purged
<1> QED
  BY <1>1, <1>2

\* What the links report are participants.
LEMMA RemoteType ==
  ASSUME NEW ls \in [Relay -> Links \cup {NoLink}], NEW n
  PROVE  RemoteParticipants(ls, n) \subseteq Client
<1>1. ASSUME NEW p \in Relay, ls[p] # NoLink, NEW names
      PROVE  Reported(ls[p], names) \subseteq Client
  <2>1. ls[p].remote \in Rosters
    BY <1>1 DEF Links
  <2> QED
    BY <2>1, RosterOf DEF Reported
<1> QED
  BY <1>1 DEF RemoteParticipants

\* And so are those a link that reported them leaves behind.
LEMMA RemainingType ==
  ASSUME TypeOK, NEW r \in Relay, NEW p, NEW n
  PROVE  RemainingRemote(r, p, n) \subseteq Client
<1>1. ASSUME NEW q \in Linked(r), NEW names
      PROVE  Reported(links[r][q], names) \subseteq Client
  <2>1. links[r][q].remote \in Rosters
    BY DEF TypeOK, Links, Linked
  <2> QED
    BY <2>1, RosterOf DEF Reported
<1> QED
  BY <1>1 DEF RemainingRemote

\* Sending is appending.
LEMMA SentType ==
  ASSUME TypeOK, NEW r \in Relay, NEW cs, NEW m \in Signals
  PROVE  Sent(r, cs, m) \in [Conn -> [Relay -> Seq(Signals)]]
<1>1. ASSUME NEW c \in Conn, NEW q
      PROVE  [wire[c] EXCEPT ![q] = Append(@, m)] \in [Relay -> Seq(Signals)]
  <2>1. PICK w : w = wire[c]
    OBVIOUS
  <2>2. w \in [Relay -> Seq(Signals)]
    BY <2>1 DEF TypeOK
  <2>3. \A x \in Relay : Append(w[x], m) \in Seq(Signals)
    BY <2>2, AppendProperties
  <2>4. CASE q \in Relay
    BY <2>1, <2>2, <2>3, <2>4
  <2>5. CASE q \notin Relay
    BY <2>1, <2>2, <2>5
  <2> QED
    BY <2>4, <2>5
<1> QED
  BY <1>1 DEF Sent, TypeOK

\* A full channel drops its oldest event and takes the new one.
LEMMA PublishType ==
  ASSUME TypeOK, NEW r \in Relay, NEW e \in Event, Publish(r, e)
  PROVE  /\ events' \in [Relay -> Seq(Event)]
         /\ \A q \in Relay : Len(events'[q]) <= EventCap
         /\ missed' \subseteq Relay
         /\ r \notin missed' => events'[r] = Append(events[r], e) /\ r \notin missed
<1>1. events[r] \in Seq(Event) /\ Len(events[r]) <= EventCap /\ EventCap \in Nat \ {0}
  BY BoundAssumption DEF TypeOK, Event
<1> DEFINE s == IF Len(events[r]) = EventCap THEN Tail(events[r]) ELSE events[r]
<1>2. s \in Seq(Event) /\ Len(s) < EventCap
  <2>1. CASE Len(events[r]) = EventCap
    <3>1. events[r] # <<>>
      BY <1>1, <2>1
    <3>2. Tail(events[r]) \in Seq(Event) /\ Len(Tail(events[r])) = Len(events[r]) - 1
      BY <1>1, <3>1, HeadTailProperties
    <3> QED
      BY <1>1, <2>1, <3>2
  <2>2. CASE Len(events[r]) # EventCap
    BY <1>1, <2>2
  <2> QED
    BY <2>1, <2>2
<1>3. Append(s, e) \in Seq(Event) /\ Len(Append(s, e)) <= EventCap
  BY <1>1, <1>2, AppendProperties
<1>4. events' = [events EXCEPT ![r] = Append(s, e)]
  BY DEF Publish
<1>5. r \notin missed' => Len(events[r]) # EventCap /\ r \notin missed
  BY DEF Publish
<1>6. missed' \subseteq Relay
  BY DEF Publish, TypeOK
<1>7. r \notin missed' => s = events[r]
  BY <1>5
<1> HIDE DEF s
<1> QED
  BY <1>3, <1>4, <1>5, <1>6, <1>7 DEF TypeOK, Event

\* Joins and leaves.
LEMMA LocalTypes ==
  ASSUME TypeOK, NEW q \in Client, Join(q) \/ Leave(q)
  PROVE  TypeOK'
<1> DEFINE r == Home[q]
           n == NameOf[q]
<1>1. r \in Relay /\ n \in RoomName
  BY ClientAssumption
<1>2. UNCHANGED <<net, links, sweep>>
  BY DEF Join, Leave
<1>3. /\ rooms' \in [Relay -> [RoomName -> SUBSET Client]]
      /\ view' \in [Relay -> [RoomName -> SUBSET Client]]
  <2>1. links[r] \in [Relay -> Links \cup {NoLink}]
    BY <1>1 DEF TypeOK
  <2>2. RemoteParticipants(links[r], n) \subseteq Client
    BY <2>1, RemoteType
  <2>3. CASE Join(q)
    BY <1>1, <2>2, <2>3 DEF Join, TypeOK
  <2>4. CASE Leave(q)
    BY <1>1, <2>4 DEF Leave, TypeOK
  <2> QED
    BY <2>3, <2>4
<1>4. \/ UNCHANGED <<events, missed>>
      \/ \E e \in Event : Publish(r, e)
  BY <1>1 DEF Join, Leave, Event
<1>5. /\ events' \in [Relay -> Seq(Event)]
      /\ \A p \in Relay : Len(events'[p]) <= EventCap
      /\ missed' \subseteq Relay
  BY <1>1, <1>4, PublishType DEF TypeOK, Event
<1>6. joins' \in 0..MaxJoins
  BY BoundAssumption DEF Join, Leave, TypeOK
<1> QED
  BY <1>2, <1>3, <1>5, <1>6 DEF TypeOK, net, Event

\* The dispatcher.
LEMMA DispatchTypes ==
  ASSUME TypeOK, NEW r \in Relay, Dispatch(r)
  PROVE  TypeOK'
<1>1. events[r] \in Seq(Event) /\ events[r] # <<>> /\ Len(events[r]) <= EventCap
  BY DEF Dispatch, TypeOK, Event
<1>2. /\ Head(events[r]) \in Event /\ Tail(events[r]) \in Seq(Event)
      /\ Len(Tail(events[r])) <= EventCap
  BY <1>1, BoundAssumption, HeadTailProperties
<1>3. EventSignal(r, Head(events[r])) \in Signals
  <2>1. Head(events[r]).room \in RoomName
    BY <1>2 DEF Event
  <2>2. rooms[r][Head(events[r]).room] \in SUBSET Client
    BY <2>1 DEF TypeOK
  <2> QED
    BY <2>1, <2>2 DEF EventSignal, Active, Inactive, Signals
<1>4. wire' \in [Conn -> [Relay -> Seq(Signals)]]
  BY <1>3, SentType DEF Dispatch
<1>5. /\ events' \in [Relay -> Seq(Event)]
      /\ \A p \in Relay : Len(events'[p]) <= EventCap
  BY <1>2 DEF Dispatch, TypeOK, Event
<1> QED
  BY <1>4, <1>5 DEF Dispatch, TypeOK, Event

\* A link that starts is told about rooms.
LEMMA StartTypes ==
  ASSUME Inv, TypeOK, NEW c \in Conn, NEW r \in Relay, StartLink(c, r)
  PROVE  TypeOK'
<1> DEFINE p == Other(c, r)
           new == [conn |-> c, active |-> {}, remote |-> <<>>, quiet |-> FALSE,
                   lost |-> {}]
           own == {Active(n, rooms[r][n], 0) : n \in OpenRooms(r)}
           heard == UNION {{Active(n, links[r][q].remote[n], 0) :
                              n \in DOMAIN links[r][q].remote} :
                           q \in Linked(r) \ {p}}
<1>1. p \in Relay
  BY OtherEnd DEF StartLink, Inv, EndsType
<1>2. new \in Links
  <2>1. <<>> \in Rosters
    <3>1. <<>> \in [{} -> SUBSET Client]
      OBVIOUS
    <3> QED
      BY <3>1 DEF Rosters
  <2> QED
    BY <2>1 DEF Links
<1>3. links' \in [Relay -> [Relay -> Links \cup {NoLink}]]
  BY <1>1, <1>2 DEF StartLink, TypeOK
<1>4. own \subseteq Signals
  BY DEF TypeOK, OpenRooms, Active, Signals
<1>5. heard \subseteq Signals
  <2>1. ASSUME NEW q \in Linked(r), NEW n \in DOMAIN links[r][q].remote
        PROVE  Active(n, links[r][q].remote[n], 0) \in Signals
    <3>1. links[r][q].remote \in Rosters
      BY DEF TypeOK, Linked, Links
    <3> QED
      BY <3>1, RosterOf DEF Active, Signals
  <2> QED
    BY <2>1
<1> HIDE DEF own, heard
<1>6. [NoWork EXCEPT !.own = own, !.heard = heard] \in Works
  BY <1>4, <1>5 DEF NoWork, Works
<1>7. Continue(c, r, [NoWork EXCEPT !.own = own, !.heard = heard])
  BY DEF StartLink, own, heard
<1>8. todo' \in [Conn -> [Relay -> Works]] /\ end' \in [Conn -> [Relay -> Phases]]
  BY <1>6, <1>7 DEF Continue, TypeOK, Phases
<1> QED
  BY <1>3, <1>8 DEF StartLink, TypeOK, locals

\* A task that announces.
LEMMA AnnounceTypes ==
  ASSUME TypeOK, NEW c \in Conn, NEW r \in Relay, Announce(c, r)
  PROVE  TypeOK'
<1> DEFINE w == todo[c][r]
<1>1. w \in Works
  BY DEF TypeOK
<1>a. \E m, u :
        /\ m \in w.own \cup w.heard
        /\ u \in {[w EXCEPT !.own = @ \ {m}], [w EXCEPT !.heard = @ \ {m}]}
        /\ wire' = Sent(r, {c}, m) /\ Continue(c, r, u)
  BY DEF Announce
<1>2. PICK m, u :
        /\ m \in w.own \cup w.heard
        /\ u \in {[w EXCEPT !.own = @ \ {m}], [w EXCEPT !.heard = @ \ {m}]}
        /\ wire' = Sent(r, {c}, m) /\ Continue(c, r, u)
  BY <1>a
<1>3. m \in Signals /\ u \in Works
  <2>1. w.own \in SUBSET Signals /\ w.heard \in SUBSET Signals
    BY <1>1 DEF Works
  <2>2. ASSUME NEW a \in SUBSET Signals
        PROVE  [w EXCEPT !.own = a] \in Works /\ [w EXCEPT !.heard = a] \in Works
    BY <1>1 DEF Works
  <2>3. (w.own \ {m}) \in SUBSET Signals /\ (w.heard \ {m}) \in SUBSET Signals
    BY <2>1
  <2> HIDE DEF w
  <2> QED
    BY <1>2, <2>1, <2>2, <2>3
<1>4. wire' \in [Conn -> [Relay -> Seq(Signals)]]
  BY <1>2, <1>3, SentType
<1>5. todo' \in [Conn -> [Relay -> Works]] /\ end' \in [Conn -> [Relay -> Phases]]
  BY <1>2, <1>3 DEF Continue, TypeOK, Phases
<1> QED
  BY <1>4, <1>5 DEF Announce, TypeOK, locals

\* What a handler changes in peer_links and on the wires.
LEMMA HandlerTypes ==
  ASSUME Inv, TypeOK, NEW c \in Conn, NEW r \in Relay, end[c][r] # "none",
         wire[c][r] # <<>>, NEW m, m = Head(wire[c][r]), Note(c, r, Other(c, r), m)
  PROVE  /\ m \in Signals
         /\ Tail(wire[c][r]) \in Seq(Signals)
         /\ links' \in [Relay -> [Relay -> Links \cup {NoLink}]]
         /\ Other(c, r) \in Relay
<1>1. wire[c][r] \in Seq(Signals)
  BY DEF TypeOK
<1>2. m \in Signals /\ Tail(wire[c][r]) \in Seq(Signals)
  BY <1>1, HeadTailProperties
<1>3. Other(c, r) \in Relay
  BY OtherEnd DEF Inv, EndsType
<1>4. CASE Other(c, r) \in Linked(r)
  <2>1. PICK p \in Relay : p = Other(c, r)
    BY <1>3
  <2>2. links[r][p] \in Links
    BY <1>4, <2>1 DEF Linked, TypeOK
  <2>3. Noted(links[r][p], c, m) \in Links
    BY <1>2, <2>2, NotedType
  <2>4. links' = [links EXCEPT ![r][p] = Noted(links[r][p], c, m)]
    BY <1>4, <2>1 DEF Note
  <2> QED
    BY <1>2, <1>3, <2>3, <2>4 DEF TypeOK
<1>5. CASE Other(c, r) \notin Linked(r)
  BY <1>2, <1>3, <1>5 DEF Note, TypeOK
<1> QED
  BY <1>4, <1>5

\* The RoomUpdate that local clients get names participants.
LEMMA NotifyType ==
  ASSUME TypeOK, NEW c, NEW r \in Relay, NEW n,
         NEW remote, \A l \in RoomName : remote[l] \subseteq Client,
         NotifyLocals(c, r, n, remote)
  PROVE  view' \in [Relay -> [RoomName -> SUBSET Client]]
<1>1. CASE view' = view
  BY <1>1 DEF TypeOK
<1>2. ASSUME NEW l \in SameRoom(r, n),
             view' = [view EXCEPT ![r][l] = rooms[r][l] \cup remote[l]]
      PROVE  view' \in [Relay -> [RoomName -> SUBSET Client]]
  <2>1. l \in RoomName
    BY DEF SameRoom, OpenRooms
  <2> QED
    BY <1>2, <2>1 DEF TypeOK
<1> QED
  BY <1>1, <1>2 DEF NotifyLocals

\* What is on a wire after a send.
LEMMA SentAt ==
  ASSUME TypeOK, NEW r, NEW cs, NEW m, NEW d \in Conn, NEW q \in Relay
  PROVE  /\ d \in cs /\ Up(d) /\ q = Other(d, r) => Sent(r, cs, m)[d][q] = Append(wire[d][q], m)
         /\ ~(d \in cs /\ Up(d) /\ q = Other(d, r)) => Sent(r, cs, m)[d][q] = wire[d][q]
<1>1. wire[d] \in [Relay -> Seq(Signals)]
  BY DEF TypeOK
<1>2. CASE d \in cs /\ Up(d)
  <2>1. Sent(r, cs, m)[d] = [wire[d] EXCEPT ![Other(d, r)] = Append(@, m)]
    BY <1>2 DEF Sent
  <2> QED
    BY <1>1, <1>2, <2>1
<1>3. CASE ~(d \in cs /\ Up(d))
  BY <1>3 DEF Sent
<1> QED
  BY <1>2, <1>3

\* A wire that is sent on is not empty if it was not.
LEMMA SentThenTail ==
  ASSUME TypeOK, NEW r \in Relay, NEW cs, NEW m \in Signals, NEW c \in Conn, NEW q \in Relay,
         wire[c][q] # <<>>, NEW u, u = [Sent(r, cs, m) EXCEPT ![c][q] = Tail(@)]
  PROVE  u \in [Conn -> [Relay -> Seq(Signals)]]
<1> DEFINE s == Sent(r, cs, m)
<1>1. s \in [Conn -> [Relay -> Seq(Signals)]]
  BY SentType
<1>2. wire[c][q] \in Seq(Signals)
  BY DEF TypeOK
<1>3. s[c][q] \in Seq(Signals) /\ s[c][q] # <<>>
  <2>1. s[c][q] = Append(wire[c][q], m) \/ s[c][q] = wire[c][q]
    <3>1. CASE c \in cs /\ Up(c) /\ q = Other(c, r)
      BY <3>1, SentAt
    <3>2. CASE ~(c \in cs /\ Up(c) /\ q = Other(c, r))
      BY <3>2, SentAt
    <3> QED
      BY <3>1, <3>2
  <2>2. Append(wire[c][q], m) \in Seq(Signals) /\ Append(wire[c][q], m) # <<>>
    BY <1>2, AppendProperties
  <2> HIDE DEF s
  <2> QED
    BY <1>2, <2>1, <2>2
<1>4. PICK t \in Seq(Signals) : t = Tail(s[c][q])
  BY <1>3, HeadTailProperties
<1> HIDE DEF s
<1>5. [s EXCEPT ![c][q] = t] \in [Conn -> [Relay -> Seq(Signals)]]
  BY <1>1, <1>4
<1>6. [s EXCEPT ![c][q] = Tail(@)] = [s EXCEPT ![c][q] = t]
  BY <1>4
<1> QED
  BY <1>5, <1>6 DEF s

\* A signal that is passed on is a signal.
LEMMA HopType ==
  ASSUME NEW m \in Signals
  PROVE  /\ [m EXCEPT !.hops = @ + 1] \in Signals
         /\ [m EXCEPT !.hops = @ + 1].type = m.type
         /\ [m EXCEPT !.hops = @ + 1].room = m.room
         /\ [m EXCEPT !.hops = @ + 1].hops = m.hops + 1
<1>1. m.hops + 1 \in Nat
  BY DEF Signals
<1>2. ASSUME NEW h \in Nat
      PROVE  /\ [m EXCEPT !.hops = h] \in Signals
             /\ [m EXCEPT !.hops = h].type = m.type
             /\ [m EXCEPT !.hops = h].room = m.room
             /\ [m EXCEPT !.hops = h].hops = h
  BY DEF Signals
<1> QED
  BY <1>1, <1>2, Zenon

\* A GlobalRoomActive.
LEMMA ActiveTypes ==
  ASSUME Inv, TypeOK, NEW c \in Conn, NEW r \in Relay, HandleActive(c, r)
  PROVE  TypeOK'
<1> DEFINE m == Head(wire[c][r])
<1>1. m = Head(wire[c][r])
  OBVIOUS
<1>2. /\ end[c][r] = "receiving" /\ wire[c][r] # <<>>
      /\ Note(c, r, Other(c, r), m)
      /\ \E cs : wire' = [Sent(r, cs, [m EXCEPT !.hops = @ + 1]) EXCEPT ![c][r] = Tail(@)]
      /\ NotifyLocals(c, r, m.room, [l \in RoomName |-> RemoteParticipants(links'[r], l)])
      /\ UNCHANGED <<rooms, events, missed, joins, conns, end, todo, sweep, faults>>
  BY Zenon DEF HandleActive
<1> HIDE DEF m
<1>3. m \in Signals /\ links' \in [Relay -> [Relay -> Links \cup {NoLink}]]
  BY <1>1, <1>2, HandlerTypes
<1>4. [m EXCEPT !.hops = @ + 1] \in Signals
  BY <1>3, HopType
<1>5. wire' \in [Conn -> [Relay -> Seq(Signals)]]
  <2>1. PICK m2 \in Signals : m2 = [m EXCEPT !.hops = @ + 1]
    BY <1>4
  <2>2. PICK cs : wire' = [Sent(r, cs, m2) EXCEPT ![c][r] = Tail(@)]
    BY <1>2, <2>1
  <2> QED
    <3>1. wire[c][r] # <<>>
      BY <1>2
    <3> QED
      BY <2>2, <3>1, SentThenTail, Zenon
<1>6. view' \in [Relay -> [RoomName -> SUBSET Client]]
  <2>1. \A l \in RoomName : RemoteParticipants(links'[r], l) \subseteq Client
    BY <1>3, RemoteType
  <2> DEFINE remote == [l \in RoomName |-> RemoteParticipants(links'[r], l)]
  <2>2. \A l \in RoomName : remote[l] \subseteq Client
    BY <2>1
  <2>3. NotifyLocals(c, r, m.room, remote)
    BY <1>2
  <2> HIDE DEF remote
  <2> QED
    BY <2>2, <2>3, NotifyType
<1> QED
  BY <1>2, <1>3, <1>5, <1>6 DEF TypeOK

\* A GlobalRoomInactive, up to what is passed on.
LEMMA InactiveTypes ==
  ASSUME Inv, TypeOK, NEW c \in Conn, NEW r \in Relay, HandleInactive(c, r)
  PROVE  TypeOK'
<1>1. PICK m : m = Head(wire[c][r])
  OBVIOUS
<1> DEFINE p == Other(c, r)
           u == [NoWork EXCEPT !.room = {m.room},
                               !.remaining = RemainingRemote(r, p, m.room),
                               !.others = Transports(r, Linked(r) \ {p}),
                               !.hops = m.hops + 1]
<1>2. /\ end[c][r] = "receiving" /\ wire[c][r] # <<>>
      /\ Note(c, r, p, m)
      /\ todo' = [todo EXCEPT ![c][r] = u]
      /\ wire' = [wire EXCEPT ![c][r] = Tail(wire[c][r])]
      /\ end' = [end EXCEPT ![c][r] = "relaying"]
      /\ UNCHANGED <<locals, conns, sweep, faults>>
  BY <1>1 DEF HandleInactive
<1>3. /\ m \in Signals /\ links' \in [Relay -> [Relay -> Links \cup {NoLink}]]
      /\ Tail(wire[c][r]) \in Seq(Signals) /\ p \in Relay
  BY <1>1, <1>2, HandlerTypes
<1>4. u \in Works
  <2>1. RemainingRemote(r, p, m.room) \subseteq Client
    BY RemainingType
  <2>2. Transports(r, Linked(r) \ {p}) \subseteq Conn
    BY DEF Transports, Linked, TypeOK, Links
  <2>3. m.room \in RoomName /\ m.hops \in Nat
    BY <1>3 DEF Signals
  <2>4. ASSUME NEW rm \in SUBSET RoomName, NEW rem \in SUBSET Client,
               NEW os \in SUBSET Conn, NEW h \in Nat
        PROVE  [NoWork EXCEPT !.room = rm, !.remaining = rem, !.others = os,
                              !.hops = h] \in Works
    BY DEF NoWork, Works
  <2>5. {m.room} \in SUBSET RoomName /\ m.hops + 1 \in Nat
    BY <2>3
  <2> QED
    BY <2>1, <2>2, <2>4, <2>5, Zenon
<1> HIDE DEF u
<1>5. /\ todo' \in [Conn -> [Relay -> Works]] /\ end' \in [Conn -> [Relay -> Phases]]
      /\ wire' \in [Conn -> [Relay -> Seq(Signals)]]
  BY <1>2, <1>3, <1>4 DEF TypeOK, Phases
<1> QED
  BY <1>2, <1>3, <1>5 DEF TypeOK, locals

\* ... and passing it on.
LEMMA PassTypes ==
  ASSUME Inv, TypeOK, NEW c \in Conn, NEW r \in Relay, PassInactiveOn(c, r)
  PROVE  TypeOK'
<1> DEFINE w == todo[c][r]
<1>1. w \in Works
  BY DEF TypeOK
<1>2. PICK n, cs, m :
        /\ n \in w.room
        /\ m \in {Inactive(n, w.hops), Active(n, w.remaining, w.hops)}
                 \cup {Active(n, w.remaining \cup rooms[r][l], w.hops) : l \in SameRoom(r, n)}
        /\ wire' = Sent(r, cs, m)
        /\ NotifyLocals(c, r, n, [l \in RoomName |-> w.remaining])
  <2>1. PICK n \in w.room, cs \in Reached(c, w.others) :
          /\ \/ /\ SameRoom(r, n) = {}
                /\ wire' = Sent(r, cs, IF w.remaining = {} THEN Inactive(n, w.hops)
                                       ELSE Active(n, w.remaining, w.hops))
             \/ \E l \in SameRoom(r, n) :
                  wire' = Sent(r, cs, Active(n, w.remaining \cup rooms[r][l], w.hops))
          /\ NotifyLocals(c, r, n, [l \in RoomName |-> w.remaining])
    BY DEF PassInactiveOn
  <2> QED
    BY <2>1
<1>3. /\ n \in RoomName /\ w.hops \in Nat /\ w.remaining \subseteq Client
      /\ \A l \in SameRoom(r, n) : rooms[r][l] \subseteq Client
  <2>1. n \in RoomName /\ w.hops \in Nat /\ w.remaining \subseteq Client
    BY <1>1, <1>2 DEF Works
  <2>2. \A l \in SameRoom(r, n) : rooms[r][l] \subseteq Client
    BY DEF TypeOK, SameRoom, OpenRooms
  <2> QED
    BY <2>1, <2>2
<1>4. m \in Signals
  BY <1>2, <1>3 DEF Signals, Active, Inactive
<1>5. wire' \in [Conn -> [Relay -> Seq(Signals)]]
  BY <1>2, <1>4, SentType
<1>6. view' \in [Relay -> [RoomName -> SUBSET Client]]
  <2> DEFINE remote == [l \in RoomName |-> w.remaining]
  <2>1. \A l \in RoomName : remote[l] \subseteq Client
    BY <1>3
  <2>2. NotifyLocals(c, r, n, remote)
    BY <1>2
  <2> HIDE DEF remote
  <2> QED
    BY <2>1, <2>2, NotifyType
<1>7. NoWork \in Works
  BY DEF NoWork, Works
<1>8. todo' \in [Conn -> [Relay -> Works]] /\ end' \in [Conn -> [Relay -> Phases]]
  BY <1>7 DEF PassInactiveOn, TypeOK, Phases
<1> QED
  BY <1>5, <1>6, <1>8 DEF PassInactiveOn, TypeOK

\* The sweeper.
LEMMA PurgeTypes ==
  ASSUME TypeOK, NEW r \in Relay, Purge(r)
  PROVE  TypeOK'
<1> DEFINE after == [p \in Relay |-> Purged(r, p)]
<1>1. after \in [Relay -> Links \cup {NoLink}]
  BY PurgedType DEF TypeOK
<1>2. links' \in [Relay -> [Relay -> Links \cup {NoLink}]]
  BY <1>1 DEF Purge, TypeOK
<1>3. PICK told : view' = [view EXCEPT ![r] =
            [l \in RoomName |-> IF l \in told THEN rooms[r][l] \cup RemoteParticipants(after, l)
                                ELSE @[l]]]
  BY DEF Purge
<1> HIDE DEF after
<1>4. \A l \in RoomName : RemoteParticipants(after, l) \subseteq Client
  BY <1>1, RemoteType
<1>5. [l \in RoomName |-> IF l \in told THEN rooms[r][l] \cup RemoteParticipants(after, l)
                          ELSE view[r][l]] \in [RoomName -> SUBSET Client]
  BY <1>4 DEF TypeOK
<1>6. view' \in [Relay -> [RoomName -> SUBSET Client]]
  BY <1>3, <1>5 DEF TypeOK
<1> QED
  BY <1>2, <1>6 DEF Purge, TypeOK, net

\* Every step keeps the types.
LEMMA TypeStep ==
  ASSUME Inv, TypeOK, [Next]_vars
  PROVE  TypeOK'
<1>1. ConnsType' /\ EndsType'
  BY EndsStep
<1>2. CASE UNCHANGED vars
  BY <1>2 DEF vars, TypeOK
<1>3. ASSUME NEW p \in Client, Join(p) \/ Leave(p)
      PROVE  TypeOK'
  BY <1>3, LocalTypes
<1>4. ASSUME NEW r \in Relay, NEW p \in Relay, Dial(r, p)
      PROVE  TypeOK'
  BY <1>1, <1>4 DEF Dial, TypeOK, locals, ConnsType, EndsType
<1>5. ASSUME NEW r \in Relay, NEW p \in Relay, GoQuiet(r, p)
      PROVE  TypeOK'
  <2>1. [links[r][p] EXCEPT !.quiet = TRUE] \in Links
    <3>1. links[r][p] \in Links
      BY <1>5 DEF GoQuiet, Linked, TypeOK
    <3> QED
      BY <3>1 DEF Links
  <2>2. faults' \in 0..MaxFaults
    BY <1>5, BoundAssumption DEF GoQuiet, TypeOK
  <2> QED
    BY <1>5, <2>1, <2>2 DEF GoQuiet, TypeOK, locals
<1>6. ASSUME NEW r \in Relay, Dispatch(r) \/ Purge(r)
      PROVE  TypeOK'
  BY <1>6, DispatchTypes, PurgeTypes
<1>7. ASSUME NEW r \in Relay, Collect(r)
      PROVE  TypeOK'
  BY <1>7 DEF Collect, StaleRooms, TypeOK, locals, net
<1>8. ASSUME NEW c \in Conn, Fail(c)
      PROVE  TypeOK'
  <2>1. faults' \in 0..MaxFaults
    BY <1>8, BoundAssumption DEF Fail, TypeOK
  <2> QED
    BY <1>1, <1>8, <2>1 DEF Fail, TypeOK, locals, ConnsType
<1>9. ASSUME NEW c \in Conn, NoHello(c)
      PROVE  TypeOK'
  BY <1>1, <1>9 DEF NoHello, TypeOK, locals, EndsType
<1>10. ASSUME NEW c \in Conn, NEW r \in Relay, EndStep(c, r)
       PROVE  TypeOK'
  <2>1. CASE EndLink(c, r)
    <3>1. Other(c, r) \in Relay
      BY <2>1, OtherEnd DEF EndLink, Inv, EndsType
    <3>2. /\ todo' \in [Conn -> [Relay -> Works]] /\ end' \in [Conn -> [Relay -> Phases]]
          /\ wire' \in [Conn -> [Relay -> Seq(Signals)]]
      <4>1. NoWork \in Works /\ <<>> \in Seq(Signals)
        BY DEF NoWork, Works
      <4>2. /\ todo' = [todo EXCEPT ![c][r] = NoWork] /\ end' = [end EXCEPT ![c][r] = "over"]
            /\ wire' = [wire EXCEPT ![c][r] = <<>>]
        BY <2>1 DEF EndLink
      <4> QED
        BY <4>1, <4>2 DEF TypeOK, Phases
    <3>3. links' \in [Relay -> [Relay -> Links \cup {NoLink}]]
      BY <2>1, <3>1 DEF EndLink, TypeOK
    <3> QED
      BY <2>1, <3>2, <3>3 DEF EndLink, TypeOK, locals
  <2> QED
    BY <1>10, <2>1, StartTypes, AnnounceTypes, ActiveTypes, InactiveTypes, PassTypes DEF EndStep
<1> QED
  BY <1>2, <1>3, <1>4, <1>5, <1>6, <1>7, <1>8, <1>9, <1>10 DEF Next

-----------------------------------------------------------------------------
(* Sequences of news                                                         *)

\* Of the elements of s that are in P or in Q the last is in P.
EndsIn(s, P, Q) ==
  \E i \in DOMAIN s : s[i] \in P /\ \A j \in DOMAIN s : j > i => s[j] \notin Q

\* Nothing in s is in Q.
Free(s, Q) == \A i \in DOMAIN s : s[i] \notin Q

\* What is appended decides, unless it is neither.
LEMMA AppendNews ==
  ASSUME NEW S, NEW s \in Seq(S), NEW e \in S, NEW P, NEW Q
  PROVE  /\ e \in P => EndsIn(Append(s, e), P, Q)
         /\ e \notin Q /\ EndsIn(s, P, Q) => EndsIn(Append(s, e), P, Q)
         /\ e \notin Q /\ Free(s, Q) => Free(Append(s, e), Q)
<1> DEFINE t == Append(s, e)
<1>1. /\ t \in Seq(S) /\ Len(t) = Len(s) + 1 /\ t[Len(s) + 1] = e /\ Len(s) \in Nat
      /\ \A i \in 1..Len(s) : t[i] = s[i]
  BY AppendProperties, LenProperties
<1>2. DOMAIN s = 1..Len(s) /\ DOMAIN t = 1..(Len(s) + 1)
  BY <1>1, LenProperties
<1> HIDE DEF t
<1>3. ASSUME e \in P
      PROVE  EndsIn(t, P, Q)
  BY <1>1, <1>2, <1>3 DEF EndsIn
<1>4. ASSUME e \notin Q, EndsIn(s, P, Q)
      PROVE  EndsIn(t, P, Q)
  <2>1. PICK i \in DOMAIN s : s[i] \in P /\ \A j \in DOMAIN s : j > i => s[j] \notin Q
    BY <1>4 DEF EndsIn
  <2>2. i \in DOMAIN t /\ t[i] \in P
    BY <1>1, <1>2, <2>1
  <2>3. ASSUME NEW j \in DOMAIN t, j > i
        PROVE  t[j] \notin Q
    <3>1. CASE j = Len(s) + 1
      BY <1>1, <1>4, <3>1
    <3>2. CASE j # Len(s) + 1
      BY <1>1, <1>2, <2>1, <2>3, <3>2
    <3> QED
      BY <3>1, <3>2
  <2> QED
    BY <2>2, <2>3 DEF EndsIn
<1>5. ASSUME e \notin Q, Free(s, Q)
      PROVE  Free(t, Q)
  <2>1. ASSUME NEW j \in DOMAIN t
        PROVE  t[j] \notin Q
    <3>1. CASE j = Len(s) + 1
      BY <1>1, <1>5, <3>1
    <3>2. CASE j # Len(s) + 1
      BY <1>1, <1>2, <1>5, <3>2 DEF Free
    <3> QED
      BY <3>1, <3>2
  <2> QED
    BY <2>1 DEF Free
<1> QED
  BY <1>3, <1>4, <1>5 DEF t

\* What is read first was the last word only if nothing follows it.
LEMMA TailNews ==
  ASSUME NEW S, NEW s \in Seq(S), s # <<>>, NEW P, NEW Q
  PROVE  /\ Head(s) \in S /\ Tail(s) \in Seq(S)
         /\ EndsIn(s, P, Q) => \/ EndsIn(Tail(s), P, Q)
                               \/ Head(s) \in P /\ Free(Tail(s), Q)
         /\ Free(s, Q) => Head(s) \notin Q /\ Free(Tail(s), Q)
<1> DEFINE t == Tail(s)
<1>1. /\ Head(s) \in S /\ t \in Seq(S) /\ Len(t) = Len(s) - 1
      /\ Head(s) = s[1] /\ \A i \in 1..Len(t) : t[i] = s[i + 1]
  BY HeadTailProperties
<1>2. /\ Len(s) \in Nat /\ Len(s) > 0 /\ DOMAIN s = 1..Len(s) /\ DOMAIN t = 1..(Len(s) - 1)
  BY <1>1, LenProperties, EmptySeq
<1> HIDE DEF t
<1>3. ASSUME EndsIn(s, P, Q)
      PROVE  EndsIn(t, P, Q) \/ (Head(s) \in P /\ Free(t, Q))
  <2>1. PICK i \in DOMAIN s : s[i] \in P /\ \A j \in DOMAIN s : j > i => s[j] \notin Q
    BY <1>3 DEF EndsIn
  <2>2. CASE i = 1
    BY <1>1, <1>2, <2>1, <2>2 DEF Free
  <2>3. CASE i # 1
    <3>1. i - 1 \in DOMAIN t /\ t[i - 1] = s[i]
      BY <1>1, <1>2, <2>1, <2>3
    <3>2. ASSUME NEW j \in DOMAIN t, j > i - 1
          PROVE  t[j] \notin Q
      BY <1>1, <1>2, <2>1, <3>2
    <3> QED
      BY <2>1, <3>1, <3>2 DEF EndsIn
  <2> QED
    BY <2>2, <2>3
<1>4. ASSUME Free(s, Q)
      PROVE  Head(s) \notin Q /\ Free(t, Q)
  BY <1>1, <1>2, <1>4 DEF Free
<1> QED
  BY <1>1, <1>3, <1>4 DEF t

-----------------------------------------------------------------------------
(* Activations are not lost                                                  *)

\* Only configured peers are dialled.
DialedPeers ==
  \A c \in DOMAIN conns : <<conns[c].dialer, conns[c].acceptor>> \in Peers

\* What a new link is told is that rooms are active.
Announcements ==
  \A c \in Conn, r \in Relay : \A m \in todo[c][r].own \cup todo[c][r].heard :
    m.type = "Active"

\* A GlobalRoomInactive is passed on to links with other peers.
OthersApart ==
  \A c \in Conn, r \in Relay : \A d \in todo[c][r].others :
    /\ c \in DOMAIN conns /\ d \in DOMAIN conns
    /\ r \in Ends(d) /\ Other(d, r) # Other(c, r)

JoinOf(n) == {e \in Event : e.type = "LocalJoin" /\ e.room = n}
LeaveOf(n) == {e \in Event : e.type = "LocalLeave" /\ e.room = n}
ActiveOf(n) == {m \in Signals : m.type = "Active" /\ m.room = n}
InactiveOf(n) == {m \in Signals : m.type = "Inactive" /\ m.room = n}

\* The last event of an open room is not that it closed.
EventsTell ==
  \A p \in Relay : \A n \in OpenRooms(p) :
    p \notin missed =>
      EndsIn(events[p], JoinOf(n), LeaveOf(n)) \/ Free(events[p], LeaveOf(n))

\* p sends its news to r on c, and c is where r has or will have them from.
Hears(r, p, c) ==
  /\ Up(c)
  /\ links[p][r] # NoLink /\ links[p][r].conn = c
  /\ p \notin missed
  /\ \/ end[c][r] = "starting"
     \/ links[r][p] # NoLink /\ links[r][p].conn = c

\* The rooms an entry has from its peer, and those it gave up on its own.
Known(link) == link.active \cup link.lost

\* That room n is open at p is known to r or on its way: as an event, as an
\* announcement of p's task, as a signal. Nothing behind it says otherwise.
Told(r, p, c, n) ==
  \/ EndsIn(events[p], JoinOf(n), LeaveOf(n))
  \/ /\ Free(events[p], LeaveOf(n))
     /\ \/ end[c][p] = "announcing" /\ \E m \in todo[c][p].own : m.room = n
        \/ EndsIn(wire[c][r], ActiveOf(n), InactiveOf(n))
        \/ /\ end[c][r] # "starting" /\ n \in Known(links[r][p])
           /\ Free(wire[c][r], InactiveOf(n))

NewsTravels ==
  \A r, p \in Relay, c \in Conn : Hears(r, p, c) =>
    \A n \in OpenRooms(p) : Told(r, p, c, n)

NewsInv == Inv /\ TypeOK /\ DialedPeers /\ Announcements
             /\ OthersApart /\ EventsTell /\ NewsTravels

\* The steps that change connections or what tasks are doing.
LEMMA ConnSteps ==
  ASSUME [Next]_vars
  PROVE  \/ UNCHANGED <<conns, end>>
         \/ \E r, p \in Relay : Dial(r, p)
         \/ \E c \in Conn : Fail(c)
         \/ \E c \in Conn : NoHello(c)
         \/ \E c \in Conn, r \in Relay : EndStep(c, r)
<1>1. CASE UNCHANGED vars
  BY <1>1 DEF vars
<1>2. ASSUME NEW p \in Client, Join(p) \/ Leave(p)
      PROVE  UNCHANGED <<conns, end>>
  BY <1>2 DEF Join, Leave, net
<1>3. ASSUME NEW r \in Relay, NEW p \in Relay, GoQuiet(r, p)
      PROVE  UNCHANGED <<conns, end>>
  BY <1>3 DEF GoQuiet
<1>4. ASSUME NEW r \in Relay, Dispatch(r) \/ Collect(r) \/ Purge(r)
      PROVE  UNCHANGED <<conns, end>>
  BY <1>4 DEF Dispatch, Collect, Purge, net
<1> QED
  BY <1>1, <1>2, <1>3, <1>4 DEF Next

\* A link task changes no connection.
LEMMA EndStepConns ==
  ASSUME NEW c \in Conn, NEW r \in Relay, EndStep(c, r)
  PROVE  conns' = conns
<1>1. CASE StartLink(c, r) \/ Announce(c, r) \/ EndLink(c, r)
  BY <1>1 DEF StartLink, Announce, EndLink
<1>2. CASE HandleActive(c, r)
  BY <1>2, Zenon DEF HandleActive
<1>3. CASE HandleInactive(c, r)
  BY <1>3, Zenon DEF HandleInactive
<1>4. CASE PassInactiveOn(c, r)
  BY <1>4, Zenon DEF PassInactiveOn
<1> QED
  BY <1>1, <1>2, <1>3, <1>4 DEF EndStep

\* The steps that change what link tasks still have to send.
LEMMA TodoSteps ==
  ASSUME [Next]_vars
  PROVE  \/ todo' = todo
         \/ \E c \in Conn, r \in Relay : EndStep(c, r)
<1>1. CASE UNCHANGED vars
  BY <1>1 DEF vars
<1>2. ASSUME NEW p \in Client, Join(p) \/ Leave(p)
      PROVE  todo' = todo
  BY <1>2 DEF Join, Leave, net
<1>3. ASSUME NEW r \in Relay, NEW p \in Relay, Dial(r, p) \/ GoQuiet(r, p)
      PROVE  todo' = todo
  BY <1>3 DEF Dial, GoQuiet
<1>4. ASSUME NEW r \in Relay, Dispatch(r) \/ Collect(r) \/ Purge(r)
      PROVE  todo' = todo
  BY <1>4 DEF Dispatch, Collect, Purge, net
<1>5. ASSUME NEW c \in Conn, Fail(c) \/ NoHello(c)
      PROVE  todo' = todo
  BY <1>5 DEF Fail, NoHello
<1> QED
  BY <1>1, <1>2, <1>3, <1>4, <1>5 DEF Next

\* A link task collects announcements when it starts, and only sends them then.
LEMMA AnnouncementsStep ==
  ASSUME TypeOK, Announcements, [Next]_vars
  PROVE  Announcements'
<1>1. CASE todo' = todo
  BY <1>1 DEF Announcements
<1>2. ASSUME NEW c \in Conn, NEW r \in Relay, EndStep(c, r)
      PROVE  Announcements'
  <2>1. ASSUME NEW u, \A m \in u.own \cup u.heard : m.type = "Active",
               todo' = [todo EXCEPT ![c][r] = u]
        PROVE  Announcements'
    <3>1. ASSUME NEW d \in Conn, NEW q \in Relay
          PROVE  todo'[d][q] = u \/ todo'[d][q] = todo[d][q]
      BY <2>1 DEF TypeOK
    <3> QED
      BY <2>1, <3>1 DEF Announcements
  <2>2. CASE StartLink(c, r)
    <3> DEFINE own == {Active(n, rooms[r][n], 0) : n \in OpenRooms(r)}
               heard == UNION {{Active(n, links[r][q].remote[n], 0) :
                                  n \in DOMAIN links[r][q].remote} :
                               q \in Linked(r) \ {Other(c, r)}}
               u == [NoWork EXCEPT !.own = own, !.heard = heard]
    <3>1. todo' = [todo EXCEPT ![c][r] = u]
      BY <2>2 DEF StartLink, Continue
    <3>2. \A m \in own \cup heard : m.type = "Active"
      BY DEF Active
    <3> HIDE DEF own, heard
    <3>3. u.own = own /\ u.heard = heard
      BY DEF NoWork
    <3> HIDE DEF u
    <3> QED
      BY <2>1, <3>1, <3>2, <3>3
  <2>3. CASE Announce(c, r)
    <3> DEFINE w == todo[c][r]
    <3>1. PICK m, u :
            /\ u \in {[w EXCEPT !.own = @ \ {m}], [w EXCEPT !.heard = @ \ {m}]}
            /\ todo' = [todo EXCEPT ![c][r] = u]
      BY <2>3 DEF Announce, Continue
    <3>2. w \in Works
      BY DEF TypeOK
    <3>3. u.own \subseteq w.own /\ u.heard \subseteq w.heard
      BY <3>1, <3>2 DEF Works
    <3> QED
      BY <2>1, <3>1, <3>3 DEF Announcements
  <2>4. CASE EndLink(c, r) \/ PassInactiveOn(c, r)
    <3>1. todo' = [todo EXCEPT ![c][r] = NoWork] /\ NoWork.own = {} /\ NoWork.heard = {}
      BY <2>4 DEF EndLink, PassInactiveOn, NoWork
    <3> QED
      BY <2>1, <3>1
  <2>5. CASE HandleInactive(c, r)
    <3> DEFINE m == Head(wire[c][r])
               p == Other(c, r)
               rem == RemainingRemote(r, p, m.room)
               os == Transports(r, Linked(r) \ {p})
               h == m.hops + 1
               u == [NoWork EXCEPT !.room = {m.room}, !.remaining = rem, !.others = os, !.hops = h]
    <3>1. todo' = [todo EXCEPT ![c][r] = u]
      BY <2>5 DEF HandleInactive
    <3> HIDE DEF rem, os, h, m, p
    <3>2. u.own = {} /\ u.heard = {}
      BY DEF NoWork
    <3> HIDE DEF u
    <3> QED
      BY <2>1, <3>1, <3>2
  <2>6. CASE HandleActive(c, r)
    BY <1>1, <2>6 DEF HandleActive
  <2> QED
    BY <1>2, <2>2, <2>3, <2>4, <2>5, <2>6 DEF EndStep
<1> QED
  BY <1>1, <1>2, TodoSteps

\* What joins and leaves do to the events of a room.
LEMMA LocalEvents ==
  ASSUME TypeOK, NEW q \in Client, Join(q) \/ Leave(q), NEW p \in Relay, NEW n \in RoomName,
         n \in OpenRooms(p)', p \notin missed'
  PROVE  /\ p \notin missed
         /\ \/ EndsIn(events'[p], JoinOf(n), LeaveOf(n))
            \/ /\ n \in OpenRooms(p)
               /\ \/ events'[p] = events[p]
                  \/ \E e \in Event : e \notin LeaveOf(n) /\ events'[p] = Append(events[p], e)
<1> DEFINE h == Home[q]
           k == NameOf[q]
<1>1. h \in Relay /\ k \in RoomName /\ events[p] \in Seq(Event)
  BY ClientAssumption DEF TypeOK, Event
<1>2. ASSUME Join(q), rooms[h][k] = {}
      PROVE  /\ p \notin missed
             /\ \/ EndsIn(events'[p], JoinOf(n), LeaveOf(n))
                \/ /\ n \in OpenRooms(p)
                   /\ \/ events'[p] = events[p]
                      \/ \E e \in Event : e \notin LeaveOf(n) /\ events'[p] = Append(events[p], e)
  <2> DEFINE e == [type |-> "LocalJoin", room |-> k]
  <2>1. e \in Event /\ e.type = "LocalJoin" /\ e.room = k
    BY <1>1 DEF Event
  <2>2. Publish(h, e) /\ rooms' = [rooms EXCEPT ![h][k] = @ \cup {q}]
    BY <1>2 DEF Join
  <2> HIDE DEF e, h, k
  <2>3. CASE p = h
    <3>1. p \notin missed /\ events'[p] = Append(events[p], e)
      BY <1>1, <2>1, <2>2, <2>3, PublishType
    <3>2. CASE n = k
      <4>1. e \in JoinOf(n)
        BY <2>1, <3>2 DEF JoinOf
      <4> QED
        BY <1>1, <2>1, <3>1, <4>1, AppendNews
    <3>3. CASE n # k
      <4>1. n \in OpenRooms(p)
        BY <1>1, <2>2, <3>3 DEF OpenRooms, TypeOK
      <4>2. e \notin LeaveOf(n)
        BY <2>1 DEF LeaveOf
      <4> QED
        BY <2>1, <3>1, <4>1, <4>2
    <3> QED
      BY <3>2, <3>3
  <2>4. CASE p # h
    <3>1. events'[p] = events[p] /\ p \notin missed
      BY <1>1, <2>2, <2>4 DEF Publish, TypeOK
    <3>2. n \in OpenRooms(p)
      BY <1>1, <2>2, <2>4 DEF OpenRooms, TypeOK
    <3> QED
      BY <3>1, <3>2
  <2> QED
    BY <2>3, <2>4
<1>3. ASSUME Join(q), rooms[h][k] # {}
      PROVE  p \notin missed /\ n \in OpenRooms(p) /\ events'[p] = events[p]
  <2>1. UNCHANGED <<events, missed>> /\ rooms' = [rooms EXCEPT ![h][k] = @ \cup {q}]
    BY <1>3 DEF Join
  <2> QED
    BY <1>1, <1>3, <2>1 DEF OpenRooms, TypeOK
<1>4. ASSUME Leave(q)
      PROVE  /\ p \notin missed /\ n \in OpenRooms(p)
             /\ \/ events'[p] = events[p]
                \/ \E e \in Event : e \notin LeaveOf(n) /\ events'[p] = Append(events[p], e)
  <2> DEFINE e == [type |-> "LocalLeave", room |-> k]
             rest == rooms[h][k] \ {q}
  <2>1. e \in Event /\ e.type = "LocalLeave" /\ e.room = k
    BY <1>1 DEF Event
  <2>2. /\ rooms' = [rooms EXCEPT ![h][k] = rest]
        /\ \/ rest = {} /\ Publish(h, e)
           \/ rest # {} /\ UNCHANGED <<events, missed>>
    BY <1>4 DEF Leave
  <2>3. n \in OpenRooms(p) /\ (p = h /\ n = k => rest # {})
    BY <1>1, <2>2 DEF OpenRooms, TypeOK
  <2> HIDE DEF e, h, k, rest
  <2>4. CASE UNCHANGED <<events, missed>>
    BY <2>3, <2>4
  <2>5. CASE rest = {} /\ Publish(h, e)
    <3>1. CASE p = h
      <4>1. p \notin missed /\ events'[p] = Append(events[p], e)
        BY <1>1, <2>1, <2>5, <3>1, PublishType
      <4>2. e \notin LeaveOf(n)
        BY <2>1, <2>3, <2>5, <3>1 DEF LeaveOf
      <4> QED
        BY <2>1, <2>3, <4>1, <4>2
    <3>2. CASE p # h
      BY <1>1, <2>3, <2>5, <3>2 DEF Publish, TypeOK
    <3> QED
      BY <3>1, <3>2
  <2> QED
    BY <2>2, <2>4, <2>5
<1> QED
  BY <1>2, <1>3, <1>4

\* The steps that change rooms or events.
LEMMA EventSteps ==
  ASSUME [Next]_vars
  PROVE  \/ UNCHANGED <<rooms, events, missed>>
         \/ \E q \in Client : Join(q) \/ Leave(q)
         \/ \E r \in Relay : Dispatch(r)
<1>1. CASE UNCHANGED vars
  BY <1>1 DEF vars
<1>2. ASSUME NEW r \in Relay, NEW p \in Relay, Dial(r, p) \/ GoQuiet(r, p)
      PROVE  UNCHANGED <<rooms, events, missed>>
  BY <1>2 DEF Dial, GoQuiet, locals
<1>3. ASSUME NEW r \in Relay, Collect(r) \/ Purge(r)
      PROVE  UNCHANGED <<rooms, events, missed>>
  BY <1>3 DEF Collect, Purge, locals
<1>4. ASSUME NEW c \in Conn, Fail(c) \/ NoHello(c)
      PROVE  UNCHANGED <<rooms, events, missed>>
  BY <1>4 DEF Fail, NoHello, locals
<1>5. ASSUME NEW c \in Conn, NEW r \in Relay, EndStep(c, r)
      PROVE  UNCHANGED <<rooms, events, missed>>
  <2>1. CASE StartLink(c, r) \/ Announce(c, r) \/ EndLink(c, r)
    BY <2>1 DEF StartLink, Announce, EndLink, locals
  <2>2. CASE HandleActive(c, r)
    BY <2>2, Zenon DEF HandleActive
  <2>3. CASE HandleInactive(c, r)
    BY <2>3, Zenon DEF HandleInactive, locals
  <2>4. CASE PassInactiveOn(c, r)
    BY <2>4, Zenon DEF PassInactiveOn
  <2> QED
    BY <1>5, <2>1, <2>2, <2>3, <2>4 DEF EndStep
<1> QED
  BY <1>1, <1>2, <1>3, <1>4, <1>5 DEF Next

\* A room that opens is an event, and so is one that closes.
LEMMA EventsStep ==
  ASSUME TypeOK, EventsTell, [Next]_vars
  PROVE  EventsTell'
<1>1. CASE UNCHANGED <<rooms, events, missed>>
  BY <1>1 DEF EventsTell, OpenRooms
<1>2. ASSUME NEW q \in Client, Join(q) \/ Leave(q)
      PROVE  EventsTell'
  <2> SUFFICES ASSUME NEW p \in Relay, NEW n \in OpenRooms(p)', p \notin missed'
               PROVE  EndsIn(events'[p], JoinOf(n), LeaveOf(n)) \/ Free(events'[p], LeaveOf(n))
    BY DEF EventsTell
  <2>1. n \in RoomName /\ events[p] \in Seq(Event)
    BY DEF OpenRooms, TypeOK, Event
  <2>2. CASE EndsIn(events'[p], JoinOf(n), LeaveOf(n))
    BY <2>2
  <2>3. CASE /\ n \in OpenRooms(p) /\ p \notin missed
             /\ \/ events'[p] = events[p]
                \/ \E e \in Event : e \notin LeaveOf(n) /\ events'[p] = Append(events[p], e)
    <3>1. EndsIn(events[p], JoinOf(n), LeaveOf(n)) \/ Free(events[p], LeaveOf(n))
      BY <2>3 DEF EventsTell
    <3>2. CASE events'[p] = events[p]
      BY <3>1, <3>2
    <3>3. ASSUME NEW e \in Event, e \notin LeaveOf(n), events'[p] = Append(events[p], e)
          PROVE  EndsIn(events'[p], JoinOf(n), LeaveOf(n)) \/ Free(events'[p], LeaveOf(n))
      BY <2>1, <3>1, <3>3, AppendNews
    <3> QED
      BY <2>3, <3>2, <3>3
  <2> QED
    BY <1>2, <2>1, <2>2, <2>3, LocalEvents
<1>3. ASSUME NEW r \in Relay, Dispatch(r)
      PROVE  EventsTell'
  <2>1. /\ events[r] # <<>> /\ events' = [events EXCEPT ![r] = Tail(@)]
        /\ UNCHANGED <<rooms, missed>>
    BY <1>3 DEF Dispatch
  <2> SUFFICES ASSUME NEW p \in Relay, NEW n \in OpenRooms(p), p \notin missed
               PROVE  EndsIn(events'[p], JoinOf(n), LeaveOf(n)) \/ Free(events'[p], LeaveOf(n))
    BY <2>1 DEF EventsTell, OpenRooms
  <2>2. EndsIn(events[p], JoinOf(n), LeaveOf(n)) \/ Free(events[p], LeaveOf(n))
    BY DEF EventsTell
  <2>3. events[p] \in Seq(Event)
    BY DEF TypeOK, Event
  <2>4. CASE p = r
    <3>1. events'[p] = Tail(events[p]) /\ events[p] # <<>>
      BY <2>1, <2>4 DEF TypeOK
    <3> QED
      BY <2>2, <2>3, <3>1, TailNews
  <2>5. CASE p # r
    BY <2>1, <2>2, <2>5 DEF TypeOK
  <2> QED
    BY <2>4, <2>5
<1> QED
  BY <1>1, <1>2, <1>3, EventSteps

\* Where the news stand in one pair does not change for the worse when only
\* other news are added behind them.
LEMMA ToldKept ==
  ASSUME TypeOK, NEW r \in Relay, NEW p \in Relay, NEW c \in Conn, NEW n \in RoomName,
         Told(r, p, c, n),
         \/ events'[p] = events[p]
         \/ \E e \in Event : e \notin LeaveOf(n) /\ events'[p] = Append(events[p], e),
         \/ wire'[c][r] = wire[c][r]
         \/ \E m \in Signals : m \notin InactiveOf(n) /\ wire'[c][r] = Append(wire[c][r], m),
         end[c][p] = "announcing" /\ (\E m \in todo[c][p].own : m.room = n) =>
           \/ end'[c][p] = "announcing" /\ \E m \in todo'[c][p].own : m.room = n
           \/ EndsIn(wire'[c][r], ActiveOf(n), InactiveOf(n)),
         end[c][r] # "starting" /\ n \in Known(links[r][p]) =>
           end'[c][r] # "starting" /\ n \in Known(links'[r][p])
  PROVE  Told(r, p, c, n)'
<1>1. events[p] \in Seq(Event)
  BY DEF TypeOK, Event
<1>a. wire[c][r] \in Seq(Signals)
  BY DEF TypeOK
<1>2. /\ EndsIn(events[p], JoinOf(n), LeaveOf(n)) => EndsIn(events'[p], JoinOf(n), LeaveOf(n))
      /\ Free(events[p], LeaveOf(n)) => Free(events'[p], LeaveOf(n))
  <2>1. CASE events'[p] = events[p]
    BY <2>1
  <2>2. ASSUME NEW e \in Event, e \notin LeaveOf(n), events'[p] = Append(events[p], e)
        PROVE  <1>2!1 /\ <1>2!2
    BY <1>1, <2>2, AppendNews
  <2> QED
    BY <2>1, <2>2
<1>3. /\ EndsIn(wire[c][r], ActiveOf(n), InactiveOf(n)) =>
           EndsIn(wire'[c][r], ActiveOf(n), InactiveOf(n))
      /\ Free(wire[c][r], InactiveOf(n)) => Free(wire'[c][r], InactiveOf(n))
  <2>1. CASE wire'[c][r] = wire[c][r]
    BY <2>1
  <2>2. ASSUME NEW m \in Signals, m \notin InactiveOf(n), wire'[c][r] = Append(wire[c][r], m)
        PROVE  <1>3!1 /\ <1>3!2
    <3>1. PICK s : s = wire[c][r]
      OBVIOUS
    <3>2. s \in Seq(Signals)
      BY <1>a, <3>1
    <3>3. /\ EndsIn(s, ActiveOf(n), InactiveOf(n)) =>
               EndsIn(Append(s, m), ActiveOf(n), InactiveOf(n))
          /\ Free(s, InactiveOf(n)) => Free(Append(s, m), InactiveOf(n))
      BY <2>2, <3>2, AppendNews
    <3> QED
      BY <2>2, <3>1, <3>3
  <2> QED
    BY <2>1, <2>2
<1> QED
  BY <1>2, <1>3 DEF Told

\* The two ends of a connection on which p's news go to r.
LEMMA HearsEnds ==
  ASSUME Inv, TypeOK, DialedPeers,
         NEW r \in Relay, NEW p \in Relay, NEW c \in Conn, Hears(r, p, c)
  PROVE  /\ c \in DOMAIN conns /\ Ends(c) = {r, p} /\ r # p
         /\ Other(c, p) = r /\ Other(c, r) = p /\ Up(c) /\ p \notin missed
         /\ links[p][r] \in Links /\ links[p][r].conn = c /\ end[c][p] \in Serving
         /\ end[c][r] # "starting" =>
              /\ links[r][p] # NoLink /\ links[r][p] \in Links /\ links[r][p].conn = c
<1>1. ServedBy(p, r, c)
  BY EntryServed DEF Hears, Inv
<1>2. c \in DOMAIN conns /\ Ends(c) = {p, r} /\ end[c][p] \in Serving
  BY <1>1 DEF ServedBy
<1>3. conns[c] \in [dialer : Relay, acceptor : Relay, up : BOOLEAN]
  BY <1>2, LenProperties, ElementOfSeq DEF Inv, ConnsType
<1>4. conns[c].dialer # conns[c].acceptor
  BY <1>2, <1>3, PeersAssumption DEF DialedPeers
<1>5. r # p /\ Other(c, p) = r /\ Other(c, r) = p
  BY <1>2, <1>4 DEF Ends, Other
<1>6. links[p][r] \in Links \cup {NoLink} /\ links[r][p] \in Links \cup {NoLink}
  BY DEF TypeOK
<1> QED
  BY <1>2, <1>5, <1>6 DEF Hears

\* The ends of a connection somebody serves.
LEMMA TaskEnds ==
  ASSUME Inv, DialedPeers, NEW c \in Conn, NEW r \in Relay, end[c][r] # "none"
  PROVE  /\ c \in DOMAIN conns /\ Other(c, r) \in Relay /\ Other(c, r) # r
         /\ Ends(c) = {r, Other(c, r)}
<1>1. c \in DOMAIN conns /\ r \in Ends(c)
  BY DEF Inv, EndsType
<1>2. conns[c] \in [dialer : Relay, acceptor : Relay, up : BOOLEAN]
  BY <1>1, LenProperties, ElementOfSeq DEF Inv, ConnsType
<1>3. conns[c].dialer # conns[c].acceptor
  BY <1>1, <1>2, PeersAssumption DEF DialedPeers
<1> QED
  BY <1>1, <1>2, <1>3 DEF Ends, Other

\* Only p's own sends come to r on a connection of the two.
LEMMA SentToUs ==
  ASSUME TypeOK, NEW r \in Relay, NEW p \in Relay, r # p, NEW c \in Conn, Ends(c) = {r, p},
         NEW q \in Relay, NEW cs, c \in cs => q \in Ends(c), NEW m
  PROVE  \/ Sent(q, cs, m)[c][r] = wire[c][r]
         \/ q = p /\ c \in cs /\ Sent(q, cs, m)[c][r] = Append(wire[c][r], m)
<1>1. CASE c \in cs /\ Up(c) /\ r = Other(c, q)
  <2>1. q # r
    BY <1>1 DEF Ends, Other
  <2>2. q = p
    BY <1>1, <2>1
  <2> QED
    BY <1>1, <2>2, SentAt
<1>2. CASE ~(c \in cs /\ Up(c) /\ r = Other(c, q))
  BY <1>2, SentAt
<1> QED
  BY <1>1, <1>2

\* The connections of entries have the relay at one end.
LEMMA TransportEnds ==
  ASSUME Inv, NEW r \in Relay, NEW ps \in SUBSET Linked(r), NEW c \in Transports(r, ps)
  PROVE  c \in Conn /\ c \in DOMAIN conns /\ r \in Ends(c)
<1>1. PICK p \in ps : c = links[r][p].conn
  BY DEF Transports
<1>2. p \in Relay /\ links[r][p] # NoLink
  BY DEF Linked
<1> QED
  BY <1>1, <1>2, EntryServed DEF Inv, ServedBy

\* A step that changes nothing that NewsTravels is about.
LEMMA QuietNews ==
  ASSUME NewsTravels, UNCHANGED <<rooms, events, missed, conns, wire, end, todo, links>>
  PROVE  NewsTravels'
<1> SUFFICES ASSUME NEW r \in Relay, NEW p \in Relay, NEW c \in Conn, Hears(r, p, c)',
                    NEW n \in OpenRooms(p)'
             PROVE  Told(r, p, c, n)'
  BY DEF NewsTravels
<1>1. Hears(r, p, c)
  BY DEF Hears, Up, Ends
<1>2. n \in OpenRooms(p)
  BY DEF OpenRooms
<1>3. Told(r, p, c, n)
  BY <1>1, <1>2 DEF NewsTravels
<1> QED
  BY <1>3 DEF Told, Known

\* A client that comes or goes is news of its room, if it is the first or last.
LEMMA LocalNews ==
  ASSUME NewsInv, NEW q \in Client, Join(q) \/ Leave(q)
  PROVE  NewsTravels'
<1>1. UNCHANGED <<conns, wire, end, todo, links>>
  BY DEF Join, Leave, net
<1> SUFFICES ASSUME NEW r \in Relay, NEW p \in Relay, NEW c \in Conn, Hears(r, p, c)',
                    NEW n \in RoomName, n \in OpenRooms(p)'
             PROVE  Told(r, p, c, n)'
  BY DEF NewsTravels, OpenRooms
<1>2. p \notin missed'
  BY DEF Hears
<1>3. /\ p \notin missed
      /\ \/ EndsIn(events'[p], JoinOf(n), LeaveOf(n))
         \/ /\ n \in OpenRooms(p)
            /\ \/ events'[p] = events[p]
               \/ \E e \in Event : e \notin LeaveOf(n) /\ events'[p] = Append(events[p], e)
  BY <1>2, LocalEvents DEF NewsInv
<1>4. CASE EndsIn(events'[p], JoinOf(n), LeaveOf(n))
  BY <1>4 DEF Told
<1>5. CASE /\ n \in OpenRooms(p)
           /\ \/ events'[p] = events[p]
              \/ \E e \in Event : e \notin LeaveOf(n) /\ events'[p] = Append(events[p], e)
  <2>1. Hears(r, p, c)
    BY <1>1, <1>3 DEF Hears, Up, Ends
  <2>2. Told(r, p, c, n)
    BY <1>5, <2>1 DEF NewsTravels, NewsInv
  <2>3. TypeOK
    BY DEF NewsInv
  <2> QED
    BY <1>1, <1>5, <2>2, <2>3, ToldKept DEF Known
<1> QED
  BY <1>3, <1>4, <1>5

\* The dispatcher sends what it reads to every linked peer.
LEMMA DispatchNews ==
  ASSUME NewsInv, NEW q \in Relay, Dispatch(q)
  PROVE  NewsTravels'
<1> DEFINE e == Head(events[q])
           m == EventSignal(q, e)
           cs == Transports(q, Linked(q))
<1>1. /\ events[q] # <<>> /\ wire' = Sent(q, cs, m)
      /\ events' = [events EXCEPT ![q] = Tail(@)]
      /\ UNCHANGED <<rooms, conns, end, todo, links, missed>>
  BY DEF Dispatch
<1>2. TypeOK /\ Inv /\ DialedPeers
  BY DEF NewsInv
<1>3. events[q] \in Seq(Event)
  BY <1>2 DEF TypeOK, Event
<1>4. e \in Event
  BY <1>1, <1>3, HeadTailProperties
<1>5. /\ m \in Signals
      /\ \A n \in RoomName : e \in JoinOf(n) => m \in ActiveOf(n)
      /\ \A n \in RoomName : e \notin LeaveOf(n) => m \notin InactiveOf(n)
  <2>1. rooms[q][e.room] \in SUBSET Client /\ e.room \in RoomName
    BY <1>2, <1>4 DEF TypeOK, Event
  <2>2. CASE e.type = "LocalJoin"
    <3>1. m = [type |-> "Active", room |-> e.room, who |-> rooms[q][e.room], hops |-> 0]
      BY <2>2 DEF EventSignal, Active
    <3> HIDE DEF e, m
    <3> QED
      BY <2>1, <2>2, <3>1 DEF Signals, JoinOf, ActiveOf, InactiveOf
  <2>3. CASE e.type # "LocalJoin"
    <3>1. m = [type |-> "Inactive", room |-> e.room, who |-> {}, hops |-> 0]
      BY <2>3 DEF EventSignal, Inactive
    <3>2. e.type = "LocalLeave"
      BY <1>4, <2>3 DEF Event
    <3> HIDE DEF e, m
    <3> QED
      BY <1>4, <2>1, <2>3, <3>1, <3>2 DEF Signals, JoinOf, LeaveOf, InactiveOf
  <2> QED
    BY <2>2, <2>3
<1> SUFFICES ASSUME NEW r \in Relay, NEW p \in Relay, NEW c \in Conn, Hears(r, p, c)',
                    NEW n \in RoomName, n \in OpenRooms(p)'
             PROVE  Told(r, p, c, n)'
  BY DEF NewsTravels, OpenRooms
<1>6. Hears(r, p, c) /\ n \in OpenRooms(p)
  BY <1>1 DEF Hears, Up, Ends, OpenRooms
<1>7. Told(r, p, c, n)
  BY <1>6 DEF NewsTravels, NewsInv
<1>8. /\ c \in DOMAIN conns /\ Ends(c) = {r, p} /\ r # p /\ Other(c, p) = r /\ Up(c)
      /\ links[p][r] # NoLink /\ links[p][r].conn = c
  BY <1>2, <1>6, HearsEnds DEF Hears
<1>9. wire[c][r] \in Seq(Signals)
  BY <1>2 DEF TypeOK
<1>10. CASE q = p
  <2>1. c \in cs
    BY <1>8, <1>10 DEF Transports, Linked
  <2> HIDE DEF cs, m, e
  <2>2. wire'[c][r] = Append(wire[c][r], m)
    BY <1>1, <1>2, <1>8, <1>10, <2>1, SentAt
  <2>3. events'[p] = Tail(events[p])
    BY <1>1, <1>2, <1>10 DEF TypeOK
  <2>4. /\ EndsIn(events[p], JoinOf(n), LeaveOf(n)) =>
             \/ EndsIn(events'[p], JoinOf(n), LeaveOf(n))
             \/ e \in JoinOf(n) /\ Free(events'[p], LeaveOf(n))
        /\ Free(events[p], LeaveOf(n)) => e \notin LeaveOf(n) /\ Free(events'[p], LeaveOf(n))
    <3>1. PICK s : s = events[p]
      OBVIOUS
    <3>2. s \in Seq(Event) /\ s # <<>> /\ e = Head(s)
      BY <1>1, <1>3, <1>10, <3>1 DEF e
    <3>3. /\ EndsIn(s, JoinOf(n), LeaveOf(n)) =>
               \/ EndsIn(Tail(s), JoinOf(n), LeaveOf(n))
               \/ Head(s) \in JoinOf(n) /\ Free(Tail(s), LeaveOf(n))
          /\ Free(s, LeaveOf(n)) => Head(s) \notin LeaveOf(n) /\ Free(Tail(s), LeaveOf(n))
      BY <3>2, TailNews
    <3> QED
      BY <2>3, <3>1, <3>2, <3>3
  <2>5. CASE EndsIn(events'[p], JoinOf(n), LeaveOf(n))
    BY <2>5 DEF Told
  <2>6. CASE e \in JoinOf(n) /\ Free(events'[p], LeaveOf(n))
    <3>1. m \in ActiveOf(n)
      BY <1>5, <2>6
    <3>2. EndsIn(wire'[c][r], ActiveOf(n), InactiveOf(n))
      BY <1>5, <1>9, <2>2, <3>1, AppendNews
    <3> QED
      BY <2>6, <3>2 DEF Told
  <2>7. CASE ~EndsIn(events[p], JoinOf(n), LeaveOf(n))
    <3>1. Free(events[p], LeaveOf(n))
      BY <1>7, <2>7 DEF Told
    <3>2. Free(events'[p], LeaveOf(n)) /\ m \notin InactiveOf(n)
      BY <1>5, <2>4, <3>1
    <3>3. /\ EndsIn(wire[c][r], ActiveOf(n), InactiveOf(n)) =>
               EndsIn(wire'[c][r], ActiveOf(n), InactiveOf(n))
          /\ Free(wire[c][r], InactiveOf(n)) => Free(wire'[c][r], InactiveOf(n))
      <4>1. PICK s : s = wire[c][r]
        OBVIOUS
      <4>2. s \in Seq(Signals)
        BY <1>9, <4>1
      <4>3. /\ EndsIn(s, ActiveOf(n), InactiveOf(n)) =>
                 EndsIn(Append(s, m), ActiveOf(n), InactiveOf(n))
            /\ Free(s, InactiveOf(n)) => Free(Append(s, m), InactiveOf(n))
        BY <1>5, <3>2, <4>2, AppendNews
      <4> QED
        BY <2>2, <4>1, <4>3
    <3> QED
      BY <1>1, <1>7, <2>7, <3>2, <3>3 DEF Told, Known
  <2> QED
    BY <2>4, <2>5, <2>6, <2>7
<1>11. CASE q # p
  <2>1. c \in cs => q \in Ends(c)
    BY <1>2, TransportEnds
  <2>2. wire'[c][r] = wire[c][r]
    BY <1>1, <1>2, <1>8, <1>11, <2>1, SentToUs
  <2>3. events'[p] = events[p]
    BY <1>1, <1>2, <1>11 DEF TypeOK
  <2> QED
    BY <1>1, <1>2, <1>7, <2>2, <2>3, ToldKept DEF Known
<1> QED
  BY <1>10, <1>11

\* A connection that is dialled has no entry yet; one that fails carries no
\* news any more, nor does one whose hello never came.
LEMMA DialNews ==
  ASSUME NewsInv, NEW s \in Relay, NEW q \in Relay, Dial(s, q)
  PROVE  NewsTravels'
<1> DEFINE a == Len(conns) + 1
           new == [dialer |-> s, acceptor |-> q, up |-> TRUE]
<1>1. /\ conns' = Append(conns, new) /\ a \in Conn
      /\ end' = [end EXCEPT ![a][s] = "starting", ![a][q] = "starting"]
      /\ UNCHANGED <<rooms, events, missed, wire, todo, links>>
  BY DEF Dial, locals
<1>2. TypeOK /\ Inv /\ DialedPeers
  BY DEF NewsInv
<1>3. \A d \in DOMAIN conns : d # a /\ conns'[d] = conns[d] /\ d \in DOMAIN conns'
  <2>1. conns \in Seq([dialer : Relay, acceptor : Relay, up : BOOLEAN]) /\ new \in [dialer : Relay, acceptor : Relay, up : BOOLEAN]
    BY <1>2 DEF TypeOK
  <2> QED
    BY <1>1, <2>1, AppendProperties, LenProperties
<1>4. \A d \in Conn : d # a => end'[d] = end[d]
  BY <1>1, <1>2 DEF TypeOK
<1> HIDE DEF a, new
<1> SUFFICES ASSUME NEW r \in Relay, NEW p \in Relay, NEW c \in Conn, Hears(r, p, c)',
                    NEW n \in RoomName, n \in OpenRooms(p)'
             PROVE  Told(r, p, c, n)'
  BY DEF NewsTravels, OpenRooms
<1>5. c \in DOMAIN conns
  <2>1. links[p][r] # NoLink /\ links[p][r].conn = c
    BY <1>1 DEF Hears
  <2> QED
    BY <1>2, <2>1, EntryServed DEF Inv, ServedBy
<1>7. Hears(r, p, c)
  BY <1>1, <1>3, <1>4, <1>5 DEF Hears, Up
<1>8. Told(r, p, c, n)
  BY <1>1, <1>7 DEF NewsTravels, NewsInv, OpenRooms
<1>9. end'[c] = end[c]
  BY <1>3, <1>4, <1>5
<1> QED
  BY <1>1, <1>2, <1>8, <1>9, ToldKept DEF Known

\* A connection that fails is no longer one on which a relay hears another.
LEMMA FailNews ==
  ASSUME NewsInv, NEW d \in Conn, Fail(d)
  PROVE  NewsTravels'
<1>1. /\ conns' = [conns EXCEPT ![d].up = FALSE] /\ d \in DOMAIN conns
      /\ UNCHANGED <<rooms, events, missed, wire, end, todo, links>>
  BY DEF Fail, Up, locals
<1>2. conns[d] \in [dialer : Relay, acceptor : Relay, up : BOOLEAN]
  BY <1>1, LenProperties, ElementOfSeq DEF Inv, ConnsType, NewsInv
<1>3. DOMAIN conns' = DOMAIN conns
  BY <1>1
<1>4. \A b \in DOMAIN conns : /\ conns'[b].dialer = conns[b].dialer
                              /\ conns'[b].acceptor = conns[b].acceptor
                              /\ conns'[b].up => conns[b].up
  BY <1>1, <1>2
<1> SUFFICES ASSUME NEW r \in Relay, NEW p \in Relay, NEW c \in Conn, Hears(r, p, c)',
                    NEW n \in RoomName, n \in OpenRooms(p)'
             PROVE  Told(r, p, c, n)'
  BY DEF NewsTravels, OpenRooms
<1>5. Hears(r, p, c)
  <2>1. Up(c)' => Up(c)
    BY <1>3, <1>4 DEF Up
  <2> QED
    BY <1>1, <2>1 DEF Hears
<1>6. Told(r, p, c, n)
  BY <1>1, <1>5 DEF NewsTravels, NewsInv, OpenRooms
<1> QED
  BY <1>1, <1>6, ToldKept DEF NewsInv, Known

\* An acceptor that gives up before the hello served no link.
LEMMA NoHelloNews ==
  ASSUME NewsInv, NEW d \in Conn, NoHello(d)
  PROVE  NewsTravels'
<1> DEFINE s == conns[d].acceptor
<1>1. /\ ~Up(d) /\ end[d][s] = "starting" /\ end' = [end EXCEPT ![d][s] = "over"]
      /\ UNCHANGED <<rooms, events, missed, conns, wire, todo, links>>
  BY DEF NoHello, locals
<1>2. /\ end \in [Conn -> [Relay -> Phases]]
      /\ \A b \in Conn : b # d => end'[b] = end[b]
      /\ \A q \in Relay : end'[d][q] = end[d][q] \/ end[d][q] = "starting"
  BY <1>1 DEF NewsInv, TypeOK
<1> HIDE DEF s
<1> SUFFICES ASSUME NEW r \in Relay, NEW p \in Relay, NEW c \in Conn, Hears(r, p, c)',
                    NEW n \in RoomName, n \in OpenRooms(p)'
             PROVE  Told(r, p, c, n)'
  BY DEF NewsTravels, OpenRooms
<1>3. c # d
  BY <1>1 DEF Hears, Up
<1>5. Hears(r, p, c)
  BY <1>1, <1>2, <1>3 DEF Hears, Up
<1>6. Told(r, p, c, n)
  BY <1>1, <1>5 DEF NewsTravels, NewsInv, OpenRooms
<1> QED
  BY <1>1, <1>2, <1>3, <1>6, ToldKept DEF NewsInv, Known

\* Entries that lose nothing but what they then say they gave up.
LEMMA EntriesNews ==
  ASSUME NewsInv, UNCHANGED <<rooms, events, missed, conns, wire, end, todo>>,
         \A r, p \in Relay : links'[r][p] # NoLink =>
           /\ links[r][p] # NoLink /\ links'[r][p].conn = links[r][p].conn
           /\ Known(links[r][p]) \subseteq Known(links'[r][p])
  PROVE  NewsTravels'
<1> SUFFICES ASSUME NEW r \in Relay, NEW p \in Relay, NEW c \in Conn, Hears(r, p, c)',
                    NEW n \in RoomName, n \in OpenRooms(p)'
             PROVE  Told(r, p, c, n)'
  BY DEF NewsTravels, OpenRooms
<1>2. Hears(r, p, c)
  BY DEF Hears, Up
<1>3. Told(r, p, c, n)
  BY <1>2 DEF NewsTravels, NewsInv, OpenRooms
<1>4. end[c][r] # "starting" => Known(links[r][p]) \subseteq Known(links'[r][p])
  BY DEF Hears
<1> QED
  BY <1>3, <1>4, ToldKept DEF NewsInv, Known

\* A peer goes quiet, and its rooms are purged.
LEMMA QuietEntryNews ==
  ASSUME NewsInv, NEW s \in Relay, NEW q \in Relay, GoQuiet(s, q)
  PROVE  NewsTravels'
<1>1. /\ q \in Linked(s) /\ links' = [links EXCEPT ![s][q].quiet = TRUE]
      /\ UNCHANGED <<rooms, events, missed, conns, wire, end, todo>>
  BY DEF GoQuiet, locals
<1>2. links[s][q] \in Links /\ links \in [Relay -> [Relay -> Links \cup {NoLink}]]
  BY <1>1 DEF NewsInv, TypeOK, Linked
<1>3. ASSUME NEW r \in Relay, NEW p \in Relay
      PROVE  \/ links'[r][p] = links[r][p]
             \/ r = s /\ p = q /\ links'[r][p] = [links[s][q] EXCEPT !.quiet = TRUE]
  BY <1>1, <1>2
<1>4. ASSUME NEW new, new = [links[s][q] EXCEPT !.quiet = TRUE]
      PROVE  /\ new.conn = links[s][q].conn /\ new.lost = links[s][q].lost
             /\ new.active = links[s][q].active
  BY <1>2, <1>4 DEF Links
<1> QED
  BY <1>1, <1>2, <1>3, <1>4, EntriesNews DEF Linked, Known

\* The sweeper forgets participants and leaves the active rooms alone.
LEMMA PurgeNews ==
  ASSUME NewsInv, NEW s \in Relay, Purge(s)
  PROVE  NewsTravels'
<1>1. /\ links' = [links EXCEPT ![s] = [p \in Relay |-> Purged(s, p)]]
      /\ UNCHANGED <<rooms, events, missed, conns, wire, end, todo>>
  BY DEF Purge, net
<1>2. links \in [Relay -> [Relay -> Links \cup {NoLink}]]
  BY DEF NewsInv, TypeOK
<1>3. ASSUME NEW p \in Relay, Purged(s, p) # NoLink
      PROVE  /\ links[s][p] # NoLink /\ Purged(s, p).conn = links[s][p].conn
             /\ Known(links[s][p]) \subseteq Purged(s, p).active \cup Purged(s, p).lost
  <2> DEFINE ns == {x[2] : x \in {y \in sweep[s] : y[1] = p}}
             link == links[s][p]
  <2>1. link # NoLink /\ link \in Links
    BY <1>2, <1>3 DEF Purged
  <2>2. CASE link.quiet
    <3>1. Purged(s, p) = [link EXCEPT !.active = @ \ ns, !.remote = Without(@, ns),
                                      !.lost = @ \cup (ns \cap link.active)]
      BY <2>1, <2>2 DEF Purged
    <3> HIDE DEF ns, link
    <3>2. PICK act, rem, sw : /\ act = link.active \ ns /\ rem = Without(link.remote, ns)
                              /\ sw = link.lost \cup (ns \cap link.active)
      OBVIOUS
    <3>3. Purged(s, p) = [link EXCEPT !.active = act, !.remote = rem, !.lost = sw]
      BY <3>1, <3>2
    <3>4. /\ Purged(s, p).conn = link.conn /\ Purged(s, p).active = act
          /\ Purged(s, p).lost = sw
      BY <2>1, <3>3 DEF Links
    <3> QED
      BY <2>1, <3>2, <3>4 DEF link, Known
  <2>3. CASE ~link.quiet
    BY <2>1, <2>3 DEF Purged, Known
  <2> QED
    BY <2>2, <2>3
<1>4. ASSUME NEW r \in Relay, NEW p \in Relay
      PROVE  \/ links'[r][p] = links[r][p]
             \/ r = s /\ links'[r][p] = Purged(s, p)
  BY <1>1, <1>2
<1> QED
  BY <1>1, <1>3, <1>4, EntriesNews DEF Known

\* A task that starts has all open rooms to announce, and replaces an entry
\* only where nothing of the connection was heard yet.
LEMMA StartNews ==
  ASSUME NewsInv, NEW d \in Conn, NEW s \in Relay, StartLink(d, s)
  PROVE  NewsTravels'
<1> DEFINE q == Other(d, s)
           own == {Active(n, rooms[s][n], 0) : n \in OpenRooms(s)}
           heard == UNION {{Active(n, links[s][x].remote[n], 0) :
                              n \in DOMAIN links[s][x].remote} : x \in Linked(s) \ {q}}
           w == [NoWork EXCEPT !.own = own, !.heard = heard]
           new == [conn |-> d, active |-> {}, remote |-> <<>>, quiet |-> FALSE, lost |-> {}]
           ph == IF w = NoWork THEN "receiving" ELSE "announcing"
<1>1. /\ end[d][s] = "starting" /\ links' = [links EXCEPT ![s][q] = new]
      /\ todo' = [todo EXCEPT ![d][s] = w] /\ end' = [end EXCEPT ![d][s] = ph]
      /\ UNCHANGED <<rooms, events, missed, conns, wire>>
  BY DEF StartLink, Continue, locals
<1>2. TypeOK /\ Inv /\ DialedPeers /\ EventsTell
  BY DEF NewsInv
<1>3. d \in DOMAIN conns /\ q \in Relay /\ q # s /\ Ends(d) = {s, q}
  BY <1>1, <1>2, TaskEnds
<1>4. new.conn = d
  OBVIOUS
<1>5. w.own = own
  BY DEF NoWork
<1>6. own # {} => ph = "announcing"
  BY <1>5 DEF NoWork
<1>7. ASSUME NEW n \in OpenRooms(s)
      PROVE  \E m \in own : m.room = n
  <2>1. Active(n, rooms[s][n], 0) \in own /\ Active(n, rooms[s][n], 0).room = n
    BY DEF Active
  <2> QED
    BY <2>1
<1>8. ph \in {"receiving", "announcing"}
  OBVIOUS
<1> HIDE DEF q, own, w, new, ph
<1>9. /\ \A r, p \in Relay : links'[r][p] = IF r = s /\ p = q THEN new ELSE links[r][p]
      /\ \A c \in Conn, r \in Relay : end'[c][r] = IF c = d /\ r = s THEN ph ELSE end[c][r]
      /\ \A c \in Conn, r \in Relay : todo'[c][r] = IF c = d /\ r = s THEN w ELSE todo[c][r]
  BY <1>1, <1>2, <1>3 DEF TypeOK
<1> SUFFICES ASSUME NEW r \in Relay, NEW p \in Relay, NEW c \in Conn, Hears(r, p, c)',
                    NEW n \in RoomName, n \in OpenRooms(p)'
             PROVE  Told(r, p, c, n)'
  BY DEF NewsTravels, OpenRooms
<1>10. n \in OpenRooms(p) /\ p \notin missed
  BY <1>1 DEF OpenRooms, Hears
<1>11. CASE p = s /\ r = q
  <2>1. c = d
    BY <1>4, <1>9, <1>11 DEF Hears
  <2>2. end'[c][p] = "announcing" /\ \E m \in todo'[c][p].own : m.room = n
    BY <1>5, <1>6, <1>7, <1>9, <1>10, <1>11, <2>1
  <2>3. EndsIn(events[p], JoinOf(n), LeaveOf(n)) \/ Free(events[p], LeaveOf(n))
    BY <1>2, <1>10 DEF EventsTell
  <2> QED
    BY <1>1, <2>2, <2>3 DEF Told
<1>12. CASE ~(p = s /\ r = q)
  <2>1. links'[p][r] = links[p][r]
    BY <1>9, <1>12
  <2>2. links[p][r] # NoLink /\ links[p][r].conn = c /\ Up(c)
    BY <1>1, <2>1 DEF Hears, Up
  <2>3. Ends(c) = {r, p}
    <3>1. ServedBy(p, r, links[p][r].conn)
      BY <1>2, <2>2, EntryServed DEF Inv
    <3> QED
      BY <2>2, <3>1 DEF ServedBy
  <2>4. ~(c = d /\ p = s)
    BY <1>3, <1>12, <2>3
  <2>5. CASE r = s /\ p = q
    <3>1. CASE c = d
      <4>1. end[c][r] = "starting"
        BY <1>1, <2>5, <3>1
      <4>2. Hears(r, p, c)
        BY <1>10, <2>2, <4>1 DEF Hears
      <4>3. Told(r, p, c, n)
        BY <1>10, <4>2 DEF NewsTravels, NewsInv
      <4> QED
        BY <1>1, <1>2, <1>9, <2>4, <4>1, <4>3, ToldKept DEF Known
    <3>2. CASE c # d
      <4>1. end'[c][r] = "starting"
        BY <1>4, <1>9, <2>5, <3>2 DEF Hears
      <4>2. end[c][r] = "starting"
        BY <1>9, <3>2, <4>1
      <4>3. Hears(r, p, c)
        BY <1>10, <2>2, <4>2 DEF Hears
      <4>4. Told(r, p, c, n)
        BY <1>10, <4>3 DEF NewsTravels, NewsInv
      <4> QED
        BY <1>1, <1>2, <1>9, <2>4, <4>2, <4>4, ToldKept DEF Known
    <3> QED
      BY <3>1, <3>2
  <2>6. CASE ~(r = s /\ p = q)
    <3>1. ~(c = d /\ r = s)
      BY <1>3, <2>3, <2>6
    <3>2. end'[c][r] = end[c][r] /\ links'[r][p] = links[r][p]
      BY <1>9, <2>6, <3>1
    <3>4. Hears(r, p, c)
      BY <1>10, <2>2, <3>2 DEF Hears
    <3>5. Told(r, p, c, n)
      BY <1>10, <3>4 DEF NewsTravels, NewsInv
    <3> QED
      BY <1>1, <1>2, <1>9, <2>4, <3>2, <3>5, ToldKept DEF Known
  <2> QED
    BY <2>5, <2>6
<1> QED
  BY <1>11, <1>12

\* An announcement that is sent is a signal then.
LEMMA AnnounceNews ==
  ASSUME NewsInv, NEW d \in Conn, NEW s \in Relay, Announce(d, s)
  PROVE  NewsTravels'
<1> DEFINE w == todo[d][s]
<1>1. /\ end[d][s] = "announcing"
      /\ UNCHANGED <<rooms, events, missed, conns, links>>
  BY DEF Announce, locals
<1>2. TypeOK /\ Inv /\ DialedPeers /\ Announcements
  BY DEF NewsInv
<1>3. w \in Works
  BY <1>2 DEF TypeOK
<1>a. \E m, u :
        /\ m \in w.own \cup w.heard /\ wire' = Sent(s, {d}, m)
        /\ todo' = [todo EXCEPT ![d][s] = u]
        /\ end' = [end EXCEPT ![d][s] = IF u = NoWork THEN "receiving" ELSE "announcing"]
        /\ w.own \ {m} \subseteq u.own
  <2>1. ASSUME NEW m \in w.own, wire' = Sent(s, {d}, m),
               Continue(d, s, [w EXCEPT !.own = @ \ {m}])
        PROVE  <1>a
    <3> DEFINE u == [w EXCEPT !.own = @ \ {m}]
    <3>1. u.own = w.own \ {m}
      BY <1>3 DEF Works
    <3> HIDE DEF u, w
    <3> QED
      BY <2>1, <3>1 DEF Continue, u
  <2>2. ASSUME NEW m \in w.heard, wire' = Sent(s, {d}, m),
               Continue(d, s, [w EXCEPT !.heard = @ \ {m}])
        PROVE  <1>a
    <3> DEFINE u == [w EXCEPT !.heard = @ \ {m}]
    <3>1. u.own = w.own
      BY <1>3 DEF Works
    <3> HIDE DEF u, w
    <3> QED
      BY <2>2, <3>1 DEF Continue, u
  <2> QED
    BY <2>1, <2>2 DEF Announce
<1>4. PICK m, u :
        /\ m \in w.own \cup w.heard /\ wire' = Sent(s, {d}, m)
        /\ todo' = [todo EXCEPT ![d][s] = u]
        /\ end' = [end EXCEPT ![d][s] = IF u = NoWork THEN "receiving" ELSE "announcing"]
        /\ w.own \ {m} \subseteq u.own
  BY <1>a
<1>5. m \in Signals /\ m.type = "Active"
  BY <1>2, <1>3, <1>4 DEF Works, Announcements
<1> HIDE DEF w
<1>6. /\ \A c \in Conn, r \in Relay : ~(c = d /\ r = s) =>
           end'[c][r] = end[c][r] /\ todo'[c][r] = todo[c][r]
      /\ todo'[d][s] = u
      /\ end'[d][s] = IF u = NoWork THEN "receiving" ELSE "announcing"
  BY <1>2, <1>4 DEF TypeOK
<1>7. d \in DOMAIN conns /\ s \in Ends(d)
  BY <1>1, <1>2 DEF Inv, EndsType
<1> SUFFICES ASSUME NEW r \in Relay, NEW p \in Relay, NEW c \in Conn, Hears(r, p, c)',
                    NEW n \in RoomName, n \in OpenRooms(p)'
             PROVE  Told(r, p, c, n)'
  BY DEF NewsTravels, OpenRooms
<1>8. end'[c][r] = "starting" <=> end[c][r] = "starting"
  BY <1>1, <1>6
<1>10. Hears(r, p, c)
  BY <1>1, <1>8 DEF Hears, Up
<1>11. Told(r, p, c, n)
  BY <1>1, <1>10 DEF NewsTravels, NewsInv, OpenRooms
<1>12. /\ c \in DOMAIN conns /\ Ends(c) = {r, p} /\ r # p /\ Other(c, p) = r /\ Up(c)
  BY <1>2, <1>10, HearsEnds
<1>13. m \notin InactiveOf(n)
  BY <1>5 DEF InactiveOf
<1>14. wire[c][r] \in Seq(Signals)
  BY <1>2 DEF TypeOK
<1>15. \/ wire'[c][r] = wire[c][r]
       \/ wire'[c][r] = Append(wire[c][r], m)
  <2>1. PICK cs : cs = {d}
    OBVIOUS
  <2>2. c \in cs => s \in Ends(c)
    BY <1>7, <2>1
  <2>3. r # p /\ Ends(c) = {r, p}
    BY <1>12
  <2>4. \/ Sent(s, cs, m)[c][r] = wire[c][r]
        \/ Sent(s, cs, m)[c][r] = Append(wire[c][r], m)
    BY <1>2, <2>2, <2>3, SentToUs
  <2> QED
    BY <1>4, <2>1, <2>4
<1>16. ASSUME end[c][p] = "announcing", NEW x \in todo[c][p].own, x.room = n
       PROVE  \/ end'[c][p] = "announcing" /\ \E y \in todo'[c][p].own : y.room = n
              \/ EndsIn(wire'[c][r], ActiveOf(n), InactiveOf(n))
  <2>1. CASE ~(c = d /\ p = s)
    BY <1>6, <1>16, <2>1
  <2>2. CASE c = d /\ p = s /\ x # m
    <3>1. x \in u.own
      BY <1>4, <1>16, <2>2 DEF w
    <3>2. u # NoWork
      BY <3>1 DEF NoWork
    <3> QED
      BY <1>6, <1>16, <2>2, <3>1, <3>2
  <2>3. CASE c = d /\ p = s /\ x = m
    <3>1. wire'[c][r] = Append(wire[c][r], m)
      BY <1>2, <1>4, <1>12, <2>3, SentAt
    <3>2. m \in ActiveOf(n)
      BY <1>5, <1>16, <2>3 DEF ActiveOf
    <3> QED
      BY <1>5, <1>14, <3>1, <3>2, AppendNews
  <2> QED
    BY <2>1, <2>2, <2>3
<1> QED
  BY <1>1, <1>2, <1>5, <1>8, <1>11, <1>13, <1>15, <1>16, ToldKept DEF Known

\* A task that ends had the last connection to its peer, or the entry is not
\* of the connection the news come by.
LEMMA EndNews ==
  ASSUME NewsInv, NEW d \in Conn, NEW s \in Relay, EndLink(d, s)
  PROVE  NewsTravels'
<1> DEFINE q == Other(d, s)
<1>1. /\ ~Up(d) /\ end[d][s] # "none"
      /\ end' = [end EXCEPT ![d][s] = "over"] /\ todo' = [todo EXCEPT ![d][s] = NoWork]
      /\ links' = [links EXCEPT ![s][q] = NoLink] /\ wire' = [wire EXCEPT ![d][s] = <<>>]
      /\ UNCHANGED <<rooms, events, missed, conns>>
  BY DEF EndLink, locals
<1>2. TypeOK /\ Inv /\ DialedPeers
  BY DEF NewsInv
<1>3. d \in DOMAIN conns /\ q \in Relay /\ q # s /\ Ends(d) = {s, q}
  BY <1>1, <1>2, TaskEnds
<1> HIDE DEF q
<1>4. /\ \A r, p \in Relay : links'[r][p] = IF r = s /\ p = q THEN NoLink ELSE links[r][p]
      /\ \A c \in Conn, r \in Relay : ~(c = d /\ r = s) => end'[c][r] = end[c][r]
      /\ \A c \in Conn : c # d => wire'[c] = wire[c] /\ todo'[c] = todo[c]
  BY <1>1, <1>2, <1>3 DEF TypeOK
<1> SUFFICES ASSUME NEW r \in Relay, NEW p \in Relay, NEW c \in Conn, Hears(r, p, c)',
                    NEW n \in RoomName, n \in OpenRooms(p)'
             PROVE  Told(r, p, c, n)'
  BY DEF NewsTravels, OpenRooms
<1>5. c # d
  BY <1>1 DEF Hears, Up
<1>6. links'[r][p] # NoLink => links'[r][p] = links[r][p]
  BY <1>4
<1>7. links'[p][r] = links[p][r] /\ end'[c][r] = end[c][r]
  BY <1>4, <1>5 DEF Hears
<1>8. Hears(r, p, c)
  BY <1>1, <1>6, <1>7 DEF Hears, Up
<1>9. Told(r, p, c, n)
  BY <1>1, <1>8 DEF NewsTravels, NewsInv, OpenRooms
<1>10. end[c][r] # "starting" => links'[r][p] = links[r][p]
  BY <1>6, <1>7 DEF Hears
<1>11. end'[c][p] = end[c][p]
  BY <1>4, <1>5
<1> QED
  BY <1>1, <1>2, <1>4, <1>5, <1>7, <1>9, <1>10, <1>11, ToldKept DEF Known

\* What a signal does to the entries: to the rooms its sender has active.
LEMMA NoteNews ==
  ASSUME TypeOK, NEW d \in Conn, NEW s \in Relay, NEW q \in Relay, NEW m \in Signals,
         Note(d, s, q, m)
  PROVE  /\ \A r, p \in Relay : ~(r = s /\ p = q) => links'[r][p] = links[r][p]
         /\ links[s][q] = NoLink => links'[s][q] = NoLink
         /\ links[s][q] # NoLink =>
              /\ links'[s][q].conn = links[s][q].conn
              /\ Known(links[s][q]) \ {m.room} \subseteq Known(links'[s][q])
              /\ m.type = "Active" => m.room \in Known(links'[s][q])
              /\ d # links[s][q].conn => Known(links[s][q]) \subseteq Known(links'[s][q])
<1>1. links \in [Relay -> [Relay -> Links \cup {NoLink}]]
  BY DEF TypeOK
<1>2. CASE links[s][q] = NoLink
  BY <1>1, <1>2 DEF Note, Linked
<1>3. CASE links[s][q] # NoLink
  <2> DEFINE link == links[s][q]
             new == Noted(link, d, m)
  <2>1. links' = [links EXCEPT ![s][q] = new]
    BY <1>3 DEF Note, Linked
  <2>2. link \in Links
    BY <1>1, <1>3
  <2> HIDE DEF link
  <2>3. ASSUME NEW a, NEW f, NEW g
        PROVE  /\ [link EXCEPT !.active = a, !.remote = f, !.quiet = FALSE, !.lost = g].conn = link.conn
               /\ [link EXCEPT !.active = a, !.remote = f, !.quiet = FALSE, !.lost = g].active = a
               /\ [link EXCEPT !.active = a, !.remote = f, !.quiet = FALSE, !.lost = g].lost = g
    BY <2>2 DEF Links
  <2>4. m.type = "Active" => new = [link EXCEPT !.active = link.active \cup {m.room},
                                      !.remote = With(link.remote, m.room, m.who), !.quiet = FALSE,
                                      !.lost = link.lost \ {m.room}]
    BY Zenon DEF Noted
  <2>5. m.type # "Active" => new = [link EXCEPT !.active = link.active \ {m.room},
                                      !.remote = Without(link.remote, {m.room, Canonical[m.room]}),
                                      !.quiet = FALSE,
                                      !.lost = IF d = link.conn THEN link.lost \ {m.room}
                                               ELSE link.lost \cup ({m.room} \cap link.active)]
    BY Zenon DEF Noted
  <2> HIDE DEF new
  <2>6. /\ new.conn = link.conn
        /\ (link.active \cup link.lost) \ {m.room} \subseteq new.active \cup new.lost
        /\ m.type = "Active" => m.room \in new.active
        /\ d # link.conn => link.active \cup link.lost \subseteq new.active \cup new.lost
    <3>1. CASE m.type = "Active"
      <4>1. PICK a, f, g : /\ a = link.active \cup {m.room} /\ f = With(link.remote, m.room, m.who)
                           /\ g = link.lost \ {m.room}
        OBVIOUS
      <4>2. new = [link EXCEPT !.active = a, !.remote = f, !.quiet = FALSE, !.lost = g]
        BY <2>4, <3>1, <4>1, Zenon
      <4>3. new.conn = link.conn /\ new.active = a /\ new.lost = g
        BY <2>3, <4>2
      <4> QED
        BY <3>1, <4>1, <4>3
    <3>2. CASE m.type # "Active"
      <4>1. PICK a, f, g : /\ a = link.active \ {m.room}
                           /\ f = Without(link.remote, {m.room, Canonical[m.room]})
                           /\ g = IF d = link.conn THEN link.lost \ {m.room}
                                  ELSE link.lost \cup ({m.room} \cap link.active)
        OBVIOUS
      <4>2. new = [link EXCEPT !.active = a, !.remote = f, !.quiet = FALSE, !.lost = g]
        BY <2>5, <3>2, <4>1, Zenon
      <4>3. new.conn = link.conn /\ new.active = a /\ new.lost = g
        BY <2>3, <4>2
      <4> QED
        BY <3>2, <4>1, <4>3
    <3> QED
      BY <3>1, <3>2
  <2>7. links'[s][q] = new /\ \A r, p \in Relay : ~(r = s /\ p = q) => links'[r][p] = links[r][p]
    BY <1>1, <2>1
  <2> QED
    BY <1>3, <2>6, <2>7 DEF link, Known
<1> QED
  BY <1>2, <1>3

\* What is read from a wire is noted in the entry of the connection it came by.
LEMMA ReadNews ==
  ASSUME NewsInv, NEW d \in Conn, NEW s \in Relay, NEW m \in Signals,
         end[d][s] = "receiving", wire[d][s] # <<>>, m = Head(wire[d][s]),
         Note(d, s, Other(d, s), m), UNCHANGED <<rooms, events, missed, conns>>,
         \A c \in Conn, r \in Relay : ~(c = d /\ r = s) =>
           end'[c][r] = end[c][r] /\ todo'[c][r] = todo[c][r],
         end'[d][s] \in Serving, wire'[d][s] = Tail(wire[d][s]),
         \A c \in Conn, r \in Relay : ~(c = d /\ r = s) =>
           \/ wire'[c][r] = wire[c][r]
           \/ \E x \in Signals : x.type = "Active" /\ wire'[c][r] = Append(wire[c][r], x)
  PROVE  NewsTravels'
<1> DEFINE q == Other(d, s)
<1>1. TypeOK /\ Inv /\ DialedPeers
  BY DEF NewsInv
<1>2. d \in DOMAIN conns /\ q \in Relay /\ q # s /\ Ends(d) = {s, q}
  BY <1>1, TaskEnds
<1> HIDE DEF q
<1>3. /\ \A r, p \in Relay : ~(r = s /\ p = q) => links'[r][p] = links[r][p]
      /\ links[s][q] = NoLink => links'[s][q] = NoLink
      /\ links[s][q] # NoLink =>
           /\ links'[s][q].conn = links[s][q].conn
           /\ Known(links[s][q]) \ {m.room} \subseteq Known(links'[s][q])
           /\ m.type = "Active" => m.room \in Known(links'[s][q])
           /\ d # links[s][q].conn => Known(links[s][q]) \subseteq Known(links'[s][q])
  BY <1>1, <1>2, NoteNews DEF q, Known
<1> SUFFICES ASSUME NEW r \in Relay, NEW p \in Relay, NEW c \in Conn, Hears(r, p, c)',
                    NEW n \in RoomName, n \in OpenRooms(p)'
             PROVE  Told(r, p, c, n)'
  BY DEF NewsTravels, OpenRooms
<1>5. end'[c][r] = "starting" <=> end[c][r] = "starting"
  BY DEF Serving
<1>6. /\ links'[p][r] # NoLink /\ links'[p][r].conn = c =>
           links[p][r] # NoLink /\ links[p][r].conn = c
      /\ links'[r][p] # NoLink /\ links'[r][p].conn = c =>
           links[r][p] # NoLink /\ links[r][p].conn = c
  BY <1>3
<1>7. Hears(r, p, c)
  BY <1>5, <1>6 DEF Hears, Up
<1>8. Told(r, p, c, n)
  BY <1>7 DEF NewsTravels, NewsInv, OpenRooms
<1>9. /\ c \in DOMAIN conns /\ Ends(c) = {r, p} /\ r # p /\ Other(c, r) = p
      /\ end[c][r] # "starting" =>
           links[r][p] # NoLink /\ links[r][p] \in Links /\ links[r][p].conn = c
  BY <1>1, <1>7, HearsEnds
<1>10. end[c][p] = "announcing" =>
         end'[c][p] = "announcing" /\ todo'[c][p] = todo[c][p]
  <2>1. end[c][p] = "announcing" => ~(c = d /\ p = s)
    OBVIOUS
  <2> QED
    BY <2>1
<1>11. CASE ~(c = d /\ r = s)
  <2>1. \/ wire'[c][r] = wire[c][r]
        \/ \E x \in Signals : x \notin InactiveOf(n) /\ wire'[c][r] = Append(wire[c][r], x)
    BY <1>11 DEF InactiveOf
  <2>2. end[c][r] # "starting" => Known(links[r][p]) \subseteq Known(links'[r][p])
    <3>1. CASE r = s /\ p = q
      BY <1>3, <1>9, <1>11, <3>1 DEF Known
    <3>2. CASE ~(r = s /\ p = q)
      BY <1>3, <3>2 DEF Known
    <3> QED
      BY <3>1, <3>2
  <2>3. end'[c][r] = end[c][r] /\ events'[p] = events[p]
    BY <1>11
  <2> QED
    BY <1>1, <1>8, <1>10, <2>1, <2>2, <2>3, ToldKept DEF Known
<1>12. CASE c = d /\ r = s
  <2>1. p = q /\ links[r][p] # NoLink /\ links[r][p] \in Links
    BY <1>9, <1>12 DEF q
  <2>2. /\ EndsIn(wire[c][r], ActiveOf(n), InactiveOf(n)) =>
             \/ EndsIn(wire'[c][r], ActiveOf(n), InactiveOf(n))
             \/ m \in ActiveOf(n) /\ Free(wire'[c][r], InactiveOf(n))
        /\ Free(wire[c][r], InactiveOf(n)) =>
             m \notin InactiveOf(n) /\ Free(wire'[c][r], InactiveOf(n))
    <3>1. PICK w : w = wire[d][s]
      OBVIOUS
    <3>2. w \in Seq(Signals) /\ w # <<>>
      BY <1>1, <3>1 DEF TypeOK
    <3>3. /\ EndsIn(w, ActiveOf(n), InactiveOf(n)) =>
               \/ EndsIn(Tail(w), ActiveOf(n), InactiveOf(n))
               \/ Head(w) \in ActiveOf(n) /\ Free(Tail(w), InactiveOf(n))
          /\ Free(w, InactiveOf(n)) =>
               Head(w) \notin InactiveOf(n) /\ Free(Tail(w), InactiveOf(n))
      BY <3>2, TailNews
    <3> QED
      BY <1>12, <3>1, <3>3
  <2>3. m \in ActiveOf(n) => n \in Known(links'[r][p])
    BY <1>3, <1>12, <2>1 DEF ActiveOf, Known
  <2>4. n \in Known(links[r][p]) /\ m \notin InactiveOf(n) => n \in Known(links'[r][p])
    BY <1>3, <1>12, <2>1 DEF InactiveOf, Signals, Known
  <2>5. end[c][r] # "starting" /\ end'[c][r] # "starting"
    BY <1>5, <1>12
  <2> QED
    BY <1>8, <1>10, <2>2, <2>3, <2>4, <2>5 DEF Told
<1> QED
  BY <1>11, <1>12

\* A GlobalRoomActive is noted, and passed on as one.
LEMMA ActiveNews ==
  ASSUME NewsInv, NEW d \in Conn, NEW s \in Relay, HandleActive(d, s)
  PROVE  NewsTravels'
<1> DEFINE m == Head(wire[d][s])
           x == [m EXCEPT !.hops = @ + 1]
<1>1. /\ end[d][s] = "receiving" /\ wire[d][s] # <<>> /\ m.type = "Active"
      /\ Note(d, s, Other(d, s), m)
      /\ \E cs : wire' = [Sent(s, cs, x) EXCEPT ![d][s] = Tail(@)]
      /\ UNCHANGED <<rooms, events, missed, conns, end, todo>>
  BY Zenon DEF HandleActive
<1>2. TypeOK /\ Inv /\ DialedPeers
  BY DEF NewsInv
<1>3. wire[d][s] \in Seq(Signals)
  BY <1>2 DEF TypeOK
<1>4. m \in Signals
  BY <1>1, <1>3, HeadTailProperties
<1>5. m = Head(wire[d][s])
  OBVIOUS
<1> HIDE DEF m
<1>6. x \in Signals /\ x.type = "Active"
  BY <1>1, <1>4, HopType
<1> HIDE DEF x
<1>7. PICK cs : wire' = [Sent(s, cs, x) EXCEPT ![d][s] = Tail(@)]
  BY <1>1
<1>8. Other(d, s) # s
  BY <1>1, <1>2, TaskEnds
<1>9. Sent(s, cs, x) \in [Conn -> [Relay -> Seq(Signals)]]
  BY <1>2, <1>6, SentType
<1>10. Sent(s, cs, x)[d][s] = wire[d][s]
  BY <1>2, <1>8, SentAt
<1>11. wire'[d][s] = Tail(wire[d][s])
  BY <1>7, <1>9, <1>10
<1>12. ASSUME NEW c \in Conn, NEW r \in Relay, ~(c = d /\ r = s)
       PROVE  \/ wire'[c][r] = wire[c][r]
              \/ \E y \in Signals : y.type = "Active" /\ wire'[c][r] = Append(wire[c][r], y)
  <2>1. wire'[c][r] = Sent(s, cs, x)[c][r]
    BY <1>7, <1>9, <1>12
  <2>2. Sent(s, cs, x)[c][r] = wire[c][r] \/ Sent(s, cs, x)[c][r] = Append(wire[c][r], x)
    <3>1. CASE c \in cs /\ Up(c) /\ r = Other(c, s)
      BY <1>2, <3>1, SentAt
    <3>2. CASE ~(c \in cs /\ Up(c) /\ r = Other(c, s))
      BY <1>2, <3>2, SentAt
    <3> QED
      BY <3>1, <3>2
  <2> QED
    BY <1>6, <2>1, <2>2
<1>13. "receiving" \in Serving
  BY DEF Serving, Phases
<1> QED
  BY <1>1, <1>4, <1>5, <1>11, <1>12, <1>13, ReadNews

\* A GlobalRoomInactive is noted.
LEMMA InactiveNews ==
  ASSUME NewsInv, NEW d \in Conn, NEW s \in Relay, HandleInactive(d, s)
  PROVE  NewsTravels'
<1> DEFINE m == Head(wire[d][s])
<1>1. /\ end[d][s] = "receiving" /\ wire[d][s] # <<>>
      /\ Note(d, s, Other(d, s), m)
      /\ wire' = [wire EXCEPT ![d][s] = Tail(@)]
      /\ end' = [end EXCEPT ![d][s] = "relaying"]
      /\ \E u : todo' = [todo EXCEPT ![d][s] = u]
      /\ UNCHANGED <<rooms, events, missed, conns>>
  BY DEF HandleInactive, locals
<1>2. TypeOK /\ Inv /\ DialedPeers
  BY DEF NewsInv
<1>3. wire[d][s] \in Seq(Signals)
  BY <1>2 DEF TypeOK
<1>4. m \in Signals
  BY <1>1, <1>3, HeadTailProperties
<1>5. m = Head(wire[d][s])
  OBVIOUS
<1> HIDE DEF m
<1>6. wire'[d][s] = Tail(wire[d][s]) /\ end'[d][s] = "relaying"
  BY <1>1, <1>2 DEF TypeOK
<1>7. ASSUME NEW c \in Conn, NEW r \in Relay, ~(c = d /\ r = s)
      PROVE  wire'[c][r] = wire[c][r] /\ end'[c][r] = end[c][r] /\ todo'[c][r] = todo[c][r]
  BY <1>1, <1>2, <1>7 DEF TypeOK
<1>8. "relaying" \in Serving
  BY DEF Serving, Phases
<1> QED
  BY <1>1, <1>4, <1>5, <1>6, <1>7, <1>8, ReadNews

\* Connections are never forgotten, nor do their ends change.
LEMMA ConnsGrow ==
  ASSUME TypeOK, [Next]_vars, NEW d \in DOMAIN conns
  PROVE  /\ d \in DOMAIN conns' /\ conns'[d].dialer = conns[d].dialer
         /\ conns'[d].acceptor = conns[d].acceptor
<1>1. conns \in Seq([dialer : Relay, acceptor : Relay, up : BOOLEAN])
  BY DEF TypeOK
<1>2. conns[d] \in [dialer : Relay, acceptor : Relay, up : BOOLEAN]
  BY <1>1, LenProperties, ElementOfSeq
<1>3. CASE conns' = conns
  BY <1>3
<1>4. ASSUME NEW c \in Conn, Fail(c)
      PROVE  /\ d \in DOMAIN conns' /\ conns'[d].dialer = conns[d].dialer
             /\ conns'[d].acceptor = conns[d].acceptor
  <2>1. conns' = [conns EXCEPT ![c].up = FALSE]
    BY <1>4 DEF Fail
  <2>2. conns'[d] = conns[d] \/ conns'[d] = [conns[d] EXCEPT !.up = FALSE]
    BY <2>1
  <2> QED
    BY <1>2, <2>1, <2>2
<1>5. ASSUME NEW s \in Relay, NEW q \in Relay, Dial(s, q)
      PROVE  d \in DOMAIN conns' /\ conns'[d] = conns[d]
  <2> DEFINE new == [dialer |-> s, acceptor |-> q, up |-> TRUE]
  <2>1. conns' = Append(conns, new) /\ new \in [dialer : Relay, acceptor : Relay, up : BOOLEAN]
    BY <1>5 DEF Dial
  <2> HIDE DEF new
  <2> QED
    BY <1>1, <2>1, AppendProperties, LenProperties
<1> QED
  BY <1>3, <1>4, <1>5, ConnSteps, EndStepConns DEF NoHello

\* Only configured peers are ever dialled.
LEMMA DialedStep ==
  ASSUME TypeOK, DialedPeers, [Next]_vars
  PROVE  DialedPeers'
<1>1. conns \in Seq([dialer : Relay, acceptor : Relay, up : BOOLEAN])
  BY DEF TypeOK
<1>2. ASSUME DOMAIN conns' = DOMAIN conns
      PROVE  DialedPeers'
  BY <1>2, ConnsGrow DEF DialedPeers
<1>3. ASSUME NEW r \in Relay, NEW p \in Relay, Dial(r, p)
      PROVE  DialedPeers'
  <2> DEFINE new == [dialer |-> r, acceptor |-> p, up |-> TRUE]
  <2>1. conns' = Append(conns, new) /\ new \in [dialer : Relay, acceptor : Relay, up : BOOLEAN]
    BY <1>3 DEF Dial
  <2>2. <<r, p>> \in Peers /\ new.dialer = r /\ new.acceptor = p
    BY <1>3 DEF Dial
  <2> HIDE DEF new
  <2>3. /\ DOMAIN conns' = DOMAIN conns \cup {Len(conns) + 1}
        /\ conns'[Len(conns) + 1] = new
    BY <1>1, <2>1, AppendProperties, LenProperties
  <2> QED
    BY <2>2, <2>3, ConnsGrow DEF DialedPeers
<1> QED
  BY <1>2, <1>3, ConnSteps, EndStepConns DEF Fail, NoHello

\* The connections a GlobalRoomInactive is passed on to stay what they were
\* when they were noted: links of this relay to other peers.
LEMMA OthersStep ==
  ASSUME Inv, TypeOK, OthersApart, [Next]_vars
  PROVE  OthersApart'
<1>1. ASSUME NEW c \in DOMAIN conns, NEW d \in DOMAIN conns, NEW r,
             r \in Ends(d), Other(d, r) # Other(c, r)
      PROVE  /\ c \in DOMAIN conns' /\ d \in DOMAIN conns'
             /\ r \in Ends(d)' /\ (Other(d, r) # Other(c, r))'
  <2>1. /\ c \in DOMAIN conns' /\ d \in DOMAIN conns'
        /\ conns'[c].dialer = conns[c].dialer /\ conns'[c].acceptor = conns[c].acceptor
        /\ conns'[d].dialer = conns[d].dialer /\ conns'[d].acceptor = conns[d].acceptor
    BY ConnsGrow
  <2> QED
    BY <1>1, <2>1 DEF Ends, Other
<1>2. CASE todo' = todo
  <2> SUFFICES ASSUME NEW c \in Conn, NEW r \in Relay, NEW d \in todo[c][r].others
               PROVE  /\ c \in DOMAIN conns' /\ d \in DOMAIN conns'
                      /\ r \in Ends(d)' /\ (Other(d, r) # Other(c, r))'
    BY <1>2 DEF OthersApart
  <2>1. c \in DOMAIN conns /\ d \in DOMAIN conns /\ r \in Ends(d) /\ Other(d, r) # Other(c, r)
    BY DEF OthersApart
  <2> QED
    BY <1>1, <2>1
<1>3. ASSUME NEW a \in Conn, NEW s \in Relay, EndStep(a, s)
      PROVE  OthersApart'
  <2>1. conns' = conns
    BY <1>3, EndStepConns
  <2>2. ASSUME NEW u, todo' = [todo EXCEPT ![a][s] = u],
               \A d \in u.others : /\ a \in DOMAIN conns /\ d \in DOMAIN conns
                                   /\ s \in Ends(d) /\ Other(d, s) # Other(a, s)
        PROVE  OthersApart'
    <3> SUFFICES ASSUME NEW c \in Conn, NEW r \in Relay, NEW d \in todo'[c][r].others
                 PROVE  /\ c \in DOMAIN conns /\ d \in DOMAIN conns
                        /\ r \in Ends(d) /\ Other(d, r) # Other(c, r)
      BY <2>1 DEF OthersApart, Ends, Other
    <3>1. CASE c = a /\ r = s
      <4>1. todo'[c][r] = u
        BY <2>2, <3>1 DEF TypeOK
      <4> QED
        BY <2>2, <3>1, <4>1
    <3>2. CASE ~(c = a /\ r = s)
      <4>1. todo'[c][r] = todo[c][r]
        BY <2>2, <3>2 DEF TypeOK
      <4> QED
        BY <4>1 DEF OthersApart
    <3> QED
      BY <3>1, <3>2
  <2>3. CASE StartLink(a, s)
    <3> DEFINE own == {Active(n, rooms[s][n], 0) : n \in OpenRooms(s)}
               heard == UNION {{Active(n, links[s][q].remote[n], 0) :
                                  n \in DOMAIN links[s][q].remote} :
                               q \in Linked(s) \ {Other(a, s)}}
               u == [NoWork EXCEPT !.own = own, !.heard = heard]
    <3>1. todo' = [todo EXCEPT ![a][s] = u]
      BY <2>3 DEF StartLink, Continue
    <3> HIDE DEF own, heard
    <3>2. u.others = {}
      BY DEF NoWork
    <3> HIDE DEF u
    <3> QED
      BY <2>2, <3>1, <3>2
  <2>4. CASE Announce(a, s)
    <3> DEFINE w == todo[a][s]
    <3>1. PICK m, u :
            /\ u \in {[w EXCEPT !.own = @ \ {m}], [w EXCEPT !.heard = @ \ {m}]}
            /\ todo' = [todo EXCEPT ![a][s] = u]
      BY <2>4 DEF Announce, Continue
    <3>2. w \in Works
      BY DEF TypeOK
    <3>3. u.others = w.others
      BY <3>1, <3>2 DEF Works
    <3> QED
      BY <2>2, <3>1, <3>3 DEF OthersApart
  <2>5. CASE EndLink(a, s) \/ PassInactiveOn(a, s)
    <3>1. todo' = [todo EXCEPT ![a][s] = NoWork] /\ NoWork.others = {}
      BY <2>5 DEF EndLink, PassInactiveOn, NoWork
    <3> QED
      BY <2>2, <3>1
  <2>6. CASE HandleInactive(a, s)
    <3> DEFINE m == Head(wire[a][s])
               p == Other(a, s)
               rem == RemainingRemote(s, p, m.room)
               os == Transports(s, Linked(s) \ {p})
               h == m.hops + 1
               u == [NoWork EXCEPT !.room = {m.room}, !.remaining = rem, !.others = os, !.hops = h]
    <3>1. todo' = [todo EXCEPT ![a][s] = u] /\ end[a][s] = "receiving"
      BY <2>6 DEF HandleInactive
    <3>2. a \in DOMAIN conns
      BY <3>1 DEF Inv, EndsType
    <3>3. ASSUME NEW d \in os
          PROVE  d \in DOMAIN conns /\ s \in Ends(d) /\ Other(d, s) # p
      <4>1. PICK q \in Linked(s) \ {p} : d = links[s][q].conn
        BY DEF Transports
      <4>2. ServedBy(s, q, d)
        BY <4>1, EntryServed DEF Inv, Linked
      <4>3. d \in DOMAIN conns /\ Ends(d) = {s, q}
        BY <4>2 DEF ServedBy
      <4>4. Other(d, s) = q
        BY <4>3 DEF Ends, Other
      <4> QED
        BY <4>1, <4>3, <4>4
    <3> HIDE DEF rem, os, h, m
    <3>4. u.others = os
      BY DEF NoWork
    <3> HIDE DEF u
    <3> QED
      BY <2>2, <3>1, <3>2, <3>3, <3>4
  <2>7. CASE HandleActive(a, s)
    BY <1>2, <2>7, Zenon DEF HandleActive
  <2> QED
    BY <1>3, <2>3, <2>4, <2>5, <2>6, <2>7 DEF EndStep
<1> QED
  BY <1>2, <1>3, TodoSteps

\* What a GlobalRoomInactive is turned into takes no open room away.
LEMMA PassNews ==
  ASSUME NewsInv, NEW d \in Conn, NEW s \in Relay, PassInactiveOn(d, s)
  PROVE  NewsTravels'
<1> DEFINE w == todo[d][s]
<1>1. /\ end[d][s] = "relaying" /\ end' = [end EXCEPT ![d][s] = "receiving"]
      /\ todo' = [todo EXCEPT ![d][s] = NoWork]
      /\ UNCHANGED <<rooms, events, missed, conns, links>>
  BY Zenon DEF PassInactiveOn
<1>2. TypeOK /\ Inv /\ DialedPeers /\ OthersApart
  BY DEF NewsInv
<1>3. w \in Works
  BY <1>2 DEF TypeOK
<1>4. PICK n0, cs, x :
        /\ n0 \in w.room /\ cs \in Reached(d, w.others) /\ wire' = Sent(s, cs, x)
        /\ \/ SameRoom(s, n0) = {} /\ x = Inactive(n0, w.hops)
           \/ \E who : x = Active(n0, who, w.hops)
  <2>1. PICK n0, cs :
          /\ n0 \in w.room /\ cs \in Reached(d, w.others)
          /\ \/ /\ SameRoom(s, n0) = {}
                /\ wire' = Sent(s, cs, IF w.remaining = {} THEN Inactive(n0, w.hops)
                                       ELSE Active(n0, w.remaining, w.hops))
             \/ \E l \in SameRoom(s, n0) :
                  wire' = Sent(s, cs, Active(n0, w.remaining \cup rooms[s][l], w.hops))
    BY Zenon DEF PassInactiveOn
  <2>2. CASE SameRoom(s, n0) = {} /\ wire' = Sent(s, cs, IF w.remaining = {} THEN Inactive(n0, w.hops)
                                       ELSE Active(n0, w.remaining, w.hops))
    <3>1. CASE w.remaining = {}
      BY <2>1, <2>2, <3>1
    <3>2. CASE w.remaining # {}
      BY <2>1, <2>2, <3>2
    <3> QED
      BY <3>1, <3>2
  <2>3. CASE \E l \in SameRoom(s, n0) :
                  wire' = Sent(s, cs, Active(n0, w.remaining \cup rooms[s][l], w.hops))
    BY <2>1, <2>3
  <2> QED
    BY <2>1, <2>2, <2>3
<1>5. cs \subseteq w.others
  BY <1>4 DEF Reached
<1>6. n0 \in RoomName /\ w.hops \in Nat
  BY <1>3, <1>4 DEF Works
<1>7. \A c \in cs : s \in Ends(c)
  BY <1>2, <1>5 DEF OthersApart
<1> HIDE DEF w
<1>8. /\ \A c \in Conn, r \in Relay : end'[c][r] = IF c = d /\ r = s THEN "receiving" ELSE end[c][r]
      /\ \A c \in Conn, r \in Relay : ~(c = d /\ r = s) => todo'[c][r] = todo[c][r]
  BY <1>1, <1>2 DEF TypeOK
<1> SUFFICES ASSUME NEW r \in Relay, NEW p \in Relay, NEW c \in Conn, Hears(r, p, c)',
                    NEW n \in RoomName, n \in OpenRooms(p)'
             PROVE  Told(r, p, c, n)'
  BY DEF NewsTravels, OpenRooms
<1>9. end'[c][r] = "starting" <=> end[c][r] = "starting"
  BY <1>1, <1>8
<1>11. Hears(r, p, c) /\ n \in OpenRooms(p)
  BY <1>1, <1>9 DEF Hears, Up, OpenRooms
<1>12. Told(r, p, c, n)
  BY <1>11 DEF NewsTravels, NewsInv
<1>13. c \in DOMAIN conns /\ Ends(c) = {r, p} /\ r # p
  BY <1>2, <1>11, HearsEnds
<1>14. end[c][p] = "announcing" => end'[c][p] = "announcing" /\ todo'[c][p] = todo[c][p]
  <2>1. end[c][p] = "announcing" => ~(c = d /\ p = s)
    BY <1>1
  <2> QED
    BY <1>8, <2>1
<1>15. \/ wire'[c][r] = wire[c][r]
       \/ \E m \in Signals : m \notin InactiveOf(n) /\ wire'[c][r] = Append(wire[c][r], m)
  <2>1. \/ Sent(s, cs, x)[c][r] = wire[c][r]
        \/ s = p /\ c \in cs /\ Sent(s, cs, x)[c][r] = Append(wire[c][r], x)
    <3>1. c \in cs => s \in Ends(c)
      BY <1>7
    <3>2. r # p /\ Ends(c) = {r, p}
      BY <1>13
    <3> QED
      BY <1>2, <3>1, <3>2, SentToUs
  <2>2. CASE s = p /\ c \in cs /\ Sent(s, cs, x)[c][r] = Append(wire[c][r], x)
    <3>1. x \notin InactiveOf(n)
      <4>1. CASE SameRoom(s, n0) = {} /\ x = Inactive(n0, w.hops)
        <5>1. n \notin SameRoom(p, n0)
          BY <2>2, <4>1
        <5>2. n # n0
          BY <1>11, <5>1 DEF SameRoom
        <5> QED
          BY <4>1, <5>2 DEF Inactive, InactiveOf
      <4>2. CASE \E who : x = Active(n0, who, w.hops)
        BY <4>2 DEF Active, InactiveOf
      <4> QED
        BY <1>4, <4>1, <4>2
    <3>2. wire'[c][r] = Append(wire[c][r], x)
      BY <1>4, <2>2
    <3>3. wire' \in [Conn -> [Relay -> Seq(Signals)]]
      BY PassTypes, <1>2 DEF TypeOK
    <3>4. wire[c][r] \in Seq(Signals) /\ wire'[c][r] \in Seq(Signals)
      BY <1>2, <3>3 DEF TypeOK
    <3>5. x \in Signals
      <4>1. CASE SameRoom(s, n0) = {} /\ x = Inactive(n0, w.hops)
        BY <1>6, <4>1 DEF Inactive, Signals
      <4>2. ASSUME NEW who, x = Active(n0, who, w.hops)
            PROVE  x \in Signals
        <5>1. PICK k, y : k = wire[c][r] /\ y = wire'[c][r]
          OBVIOUS
        <5>2. k \in Seq(Signals) /\ y \in Seq(Signals) /\ y = Append(k, x)
          BY <3>2, <3>4, <5>1
        <5> QED
          BY <5>2
      <4> QED
        BY <1>4, <4>1, <4>2
    <3> QED
      BY <3>1, <3>2, <3>5
  <2> QED
    BY <1>4, <2>1, <2>2
<1> QED
  BY <1>1, <1>2, <1>9, <1>12, <1>14, <1>15, ToldKept DEF Known

\* However the relays' tasks interleave, an activation travels.
LEMMA NewsStep ==
  ASSUME NewsInv, [Next]_vars
  PROVE  NewsTravels'
<1>1. NewsTravels
  BY DEF NewsInv
<1>2. CASE UNCHANGED vars
  BY <1>1, <1>2, QuietNews DEF vars
<1>3. ASSUME NEW q \in Client, Join(q) \/ Leave(q)
      PROVE  NewsTravels'
  BY <1>3, LocalNews
<1>4. ASSUME NEW r \in Relay, NEW p \in Relay, Dial(r, p) \/ GoQuiet(r, p)
      PROVE  NewsTravels'
  BY <1>4, DialNews, QuietEntryNews
<1>5. ASSUME NEW c \in Conn, Fail(c) \/ NoHello(c)
      PROVE  NewsTravels'
  BY <1>5, FailNews, NoHelloNews
<1>6. ASSUME NEW c \in Conn, NEW r \in Relay, EndStep(c, r)
      PROVE  NewsTravels'
  BY <1>6, StartNews, AnnounceNews, EndNews, ActiveNews, InactiveNews, PassNews DEF EndStep
<1>7. ASSUME NEW r \in Relay, Dispatch(r)
      PROVE  NewsTravels'
  BY <1>7, DispatchNews
<1>8. ASSUME NEW r \in Relay, Collect(r)
      PROVE  NewsTravels'
  BY <1>1, <1>8, QuietNews DEF Collect, locals, net
<1>9. ASSUME NEW r \in Relay, Purge(r)
      PROVE  NewsTravels'
  BY <1>9, PurgeNews
<1> QED
  BY <1>2, <1>3, <1>4, <1>5, <1>6, <1>7, <1>8, <1>9 DEF Next

-----------------------------------------------------------------------------
(* The theorems                                                              *)

\* Before anything is dialled.
LEMMA InvInit == Init => Inv
<1> SUFFICES ASSUME Init PROVE Inv
  OBVIOUS
<1>1. ConnsType
  BY BoundAssumption, EmptySeq DEF Init, ConnsType
<1>2. EndsType
  BY DEF Init, EndsType, Phases
<1>3. EntriesType
  BY DEF Init, EntriesType
<1>4. LinksServed
  BY DEF Init, LinksServed, Linked
<1> QED
  BY <1>1, <1>2, <1>3, <1>4 DEF Inv

\* The state has its type before anything is dialled.
LEMMA TypeInit == Init => TypeOK
<1> SUFFICES ASSUME Init PROVE TypeOK
  OBVIOUS
<1>1. NoWork \in Works
  BY DEF NoWork, Works
<1>2. \A S : <<>> \in Seq(S)
  BY EmptySeq
<1>3. Len(<<>>) = 0
  BY EmptySeq
<1>4. /\ rooms \in [Relay -> [RoomName -> SUBSET Client]]
      /\ view \in [Relay -> [RoomName -> SUBSET Client]]
  BY DEF Init
<1>5. /\ events \in [Relay -> Seq([type : {"LocalJoin", "LocalLeave"}, room : RoomName])]
      /\ \A r \in Relay : Len(events[r]) <= EventCap
  BY <1>2, <1>3, BoundAssumption DEF Init
<1>6. conns \in Seq([dialer : Relay, acceptor : Relay, up : BOOLEAN]) /\ Len(conns) <= MaxConns
  BY <1>2, <1>3, BoundAssumption DEF Init
<1>7. /\ wire \in [Conn -> [Relay -> Seq(Signals)]]
      /\ end \in [Conn -> [Relay -> Phases]] /\ todo \in [Conn -> [Relay -> Works]]
  BY <1>1, <1>2 DEF Init, Phases
<1>8. /\ links \in [Relay -> [Relay -> Links \cup {NoLink}]]
      /\ sweep \in [Relay -> SUBSET (Relay \X RoomName)]
  BY DEF Init
<1>9. missed \subseteq Relay /\ joins \in 0..MaxJoins /\ faults \in 0..MaxFaults
  BY BoundAssumption DEF Init
<1> QED
  BY <1>4, <1>5, <1>6, <1>7, <1>8, <1>9 DEF TypeOK

\* Inv and TypeOK together are inductive: the fields of an entry are known
\* only where entries are served.
LEMMA TypedStep == Inv /\ TypeOK /\ [Next]_vars => Inv' /\ TypeOK'
  BY EndsStep, LinksStep, TypeStep DEF Inv

\* In every reachable state the links are served and the data keep their types.
LEMMA Typed == Spec => [](Inv /\ TypeOK)
  BY InvInit, TypeInit, TypedStep, PTL DEF Spec

\* However connections to the same peer overlap, an entry of peer_links holds
\* a connection between the two relays that a task of this relay serves
\* (run_federation_link registers it and unregisters it).
THEOREM LinksAreServed == Spec => []LinksServed
<1>1. Inv => LinksServed
  BY DEF Inv
<1> QED
  BY <1>1, Typed, PTL

\* What the handlers of federation.rs leave in peer_links, on the wires and
\* in the tasks is always what its types say.
THEOREM SpecTypeOK == Spec => []TypeOK
  BY Typed, PTL

\* Nothing is news before anybody has joined.
LEMMA NewsInit == Init => NewsInv
<1> SUFFICES ASSUME Init PROVE NewsInv
  OBVIOUS
<1>1. Inv /\ TypeOK
  BY InvInit, TypeInit
<1>2. DialedPeers
  BY DEF Init, DialedPeers
<1>3. Announcements /\ OthersApart
  BY DEF Init, NoWork, Announcements, OthersApart
<1>4. EventsTell /\ NewsTravels
  BY DEF Init, EventsTell, NewsTravels, OpenRooms
<1> QED
  BY <1>1, <1>2, <1>3, <1>4 DEF NewsInv

\* When nothing is under way, what r knows is all there is to know.
LEMMA SettledKnows ==
  ASSUME NewsInv
  PROVE  ActiveRoomsKnown
<1>1. Inv /\ TypeOK /\ NewsTravels
  BY DEF NewsInv
<1> SUFFICES ASSUME Settled, NEW r \in Relay, NEW p \in Relay,
                    links[r][p] # NoLink, links[p][r] # NoLink,
                    links[r][p].conn = links[p][r].conn,
                    p \notin missed, NEW n \in OpenRooms(p)
             PROVE  n \in Known(links[r][p])
  BY DEF ActiveRoomsKnown, Joined, Linked, Known
<1> DEFINE c == links[r][p].conn
<1>2. ServedBy(r, p, c) /\ ServedBy(p, r, c)
  BY <1>1, EntryServed DEF Inv
<1>3. c \in Conn /\ c \in DOMAIN conns /\ Ends(c) = {r, p}
  BY <1>2 DEF ServedBy
<1>4. ASSUME NEW d \in Conn, d \in DOMAIN conns, NEW q \in Ends(d), end[d][q] \in Serving
      PROVE  Up(d) /\ end[d][q] = "receiving"
  <2>1. end[d][q] = IF Up(d) THEN "receiving" ELSE "over"
    BY <1>4 DEF Settled, Ends
  <2> QED
    BY <1>4, <2>1 DEF Serving
<1>5. Up(c) /\ end[c][r] = "receiving" /\ end[c][p] = "receiving"
  BY <1>2, <1>3, <1>4 DEF ServedBy
<1>7. Hears(r, p, c)
  BY <1>5 DEF Hears
<1>8. Told(r, p, c, n)
  BY <1>1, <1>3, <1>7 DEF NewsTravels
<1>9. events[p] = <<>> /\ wire[c][r] = <<>>
  BY <1>3 DEF Settled, Ends
<1>10. \A P, Q : ~EndsIn(<<>>, P, Q)
  BY EmptySeq DEF EndsIn
<1> QED
  BY <1>5, <1>8, <1>9, <1>10 DEF Told

\* Whoever dials whom, and however connections of one pair overlap, r knows
\* of every room p has open as soon as nothing is under way, except what its
\* entry gave up on its own: run_federation_link announces what is open when
\* it registers the link, room_event_dispatcher what opens later, and no
\* interleaving of the two loses an activation.
THEOREM ActivationsArrive == Spec => []ActiveRoomsKnown
<1>1. NewsInv /\ [Next]_vars => NewsInv'
  <2> SUFFICES ASSUME NewsInv, [Next]_vars PROVE NewsInv'
    OBVIOUS
  <2>1. /\ Inv /\ TypeOK /\ DialedPeers /\ Announcements
        /\ OthersApart /\ EventsTell
    BY DEF NewsInv
  <2>2. Inv' /\ TypeOK'
    BY <2>1, TypedStep
  <2>3. DialedPeers'
    BY <2>1, DialedStep
  <2>4. Announcements' /\ OthersApart'
    BY <2>1, AnnouncementsStep, OthersStep
  <2>5. EventsTell' /\ NewsTravels'
    BY <2>1, EventsStep, NewsStep
  <2> QED
    BY <2>2, <2>3, <2>4, <2>5 DEF NewsInv
<1>2. NewsInv => ActiveRoomsKnown
  BY SettledKnows
<1> QED
  BY <1>1, <1>2, NewsInit, PTL DEF Spec

\* The steps that empty a sweep: purge_stale_presence when it comes to its second lock.
LEMMA SweepSteps ==
  ASSUME TypeOK, [Next]_vars, NEW r \in Relay, sweep[r] # {}, sweep'[r] = {}
  PROVE  Purge(r)
<1>1. CASE sweep' = sweep
  BY <1>1
<1>2. ASSUME NEW s \in Relay, Collect(s)
      PROVE  FALSE
  <2>1. sweep[s] = {} /\ sweep' = [sweep EXCEPT ![s] = StaleRooms(s)]
    BY <1>2 DEF Collect
  <2> QED
    BY <2>1 DEF TypeOK
<1>3. ASSUME NEW s \in Relay, Purge(s)
      PROVE  Purge(r)
  <2>1. sweep' = [sweep EXCEPT ![s] = {}]
    BY <1>3 DEF Purge
  <2>2. s = r
    BY <2>1 DEF TypeOK
  <2> QED
    BY <1>3, <2>2
<1>4. CASE UNCHANGED vars
  BY <1>1, <1>4 DEF vars
<1>5. ASSUME NEW p \in Client, Join(p) \/ Leave(p)
      PROVE  sweep' = sweep
  BY <1>5 DEF Join, Leave
<1>6. ASSUME NEW s \in Relay, NEW p \in Relay, Dial(s, p) \/ GoQuiet(s, p)
      PROVE  sweep' = sweep
  BY <1>6 DEF Dial, GoQuiet
<1>7. ASSUME NEW c \in Conn, Fail(c) \/ NoHello(c)
      PROVE  sweep' = sweep
  BY <1>7 DEF Fail, NoHello
<1>8. ASSUME NEW c \in Conn, NEW s \in Relay, EndStep(c, s)
      PROVE  sweep' = sweep
  <2>1. CASE StartLink(c, s) \/ Announce(c, s) \/ EndLink(c, s)
    BY <2>1 DEF StartLink, Announce, EndLink
  <2>2. CASE HandleActive(c, s)
    BY <2>2, Zenon DEF HandleActive
  <2>3. CASE HandleInactive(c, s)
    BY <2>3, Zenon DEF HandleInactive
  <2>4. CASE PassInactiveOn(c, s)
    BY <2>4, Zenon DEF PassInactiveOn
  <2> QED
    BY <1>8, <2>1, <2>2, <2>3, <2>4 DEF EndStep
<1>9. ASSUME NEW s \in Relay, Dispatch(s)
      PROVE  sweep' = sweep
  BY <1>9 DEF Dispatch
<1> QED
  BY <1>1, <1>2, <1>3, <1>4, <1>5, <1>6, <1>7, <1>8, <1>9 DEF Next

\* The stale presence sweeper spares a peer heard of between its two locks.
THEOREM TheHeardAreSpared == Spec => SweepSparesTheHeard
<1> DEFINE Spared == \A r, p \in Relay :
             sweep[r] # {} /\ sweep'[r] = {} /\ p \in Linked(r) /\ ~links[r][p].quiet
               => links'[r][p] = links[r][p]
<1>1. Inv /\ TypeOK /\ [Next]_vars => Spared
  <2> SUFFICES ASSUME Inv, TypeOK, [Next]_vars, NEW r \in Relay, NEW p \in Relay,
                      sweep[r] # {}, sweep'[r] = {}, ~links[r][p].quiet
               PROVE  links'[r][p] = links[r][p]
    OBVIOUS
  <2>1. Purge(r)
    BY SweepSteps
  <2>2. links' = [links EXCEPT ![r] = [q \in Relay |-> Purged(r, q)]]
    BY <2>1 DEF Purge
  <2>3. links'[r][p] = Purged(r, p)
    BY <2>2 DEF TypeOK
  <2> QED
    BY <2>3 DEF Purged
<1>2. Inv /\ TypeOK /\ [Next]_vars => [Spared]_vars
  BY <1>1
<1> HIDE DEF Spared
<1>3. Spec => [][Spared]_vars
  BY <1>2, Typed, PTL DEF Spec
<1> QED
  BY <1>3 DEF Spared, SweepSparesTheHeard
=============================================================================
