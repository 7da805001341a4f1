------------------------ MODULE PathSelectionProofs ------------------------
(* Proofs about PathSelection, for any timeouts and delays that satisfy     *)
(* TimesAssumption and WaitAssumption.                                      *)
EXTENDS PathSelection, TLAPS

\* How far a connect is.
Before(c) == phase[c] \in {"idle", "racing", "grace"}
Ready(c) == leg[c].direct = "ok"

\* The direct connection has two ends: the acceptor's completes after the
\* dialer's, soon unless something was late, and only for connects that are
\* under way.
LegsPaired ==
  /\ \A c \in Client : phase[c] = "idle" => leg[c].direct = "running"
  /\ \A c \in Client : Ready(c) => okAt[c] <= now /\ phase[Peer(c)] # "idle"
  /\ Ready("acceptor") =>
       /\ Ready("dialer")
       /\ okAt["dialer"] <= okAt["acceptor"]
       /\ ~late => okAt["acceptor"] <= okAt["dialer"] + QuicDelay

\* A race never goes on for longer than a grace period after its direct leg.
Timely(c) ==
  /\ started[c] <= now /\ since[c] <= now
  /\ phase[c] = "racing" =>
       /\ now <= started[c] + DirectTimeout
       /\ Ready(c) => now <= okAt[c]
  /\ phase[c] = "grace" =>
       /\ since[c] <= started[c] + DirectTimeout
       /\ now <= since[c] + Grace
       /\ Ready(c) => since[c] <= okAt[c]
  /\ phase[c] = "waiting" =>
       /\ since[c] <= started[c] + DirectTimeout + Grace
       /\ now <= since[c] + Wait
RaceTimely == \A c \in Client : Timely(c)

\* What a race returned stays true.
ResultsKept ==
  \A c \in Client :
    /\ Before(c) => ~result[c].direct
    /\ result[c].direct => Ready(c)
    /\ phase[c] = "waiting" /\ result[c].direct => okAt[c] <= since[c]
    /\ phase[c] # "over" => path[c] = "none"

\* There is at most one report for a client, its peer sent it after the race,
\* it is true, and while nothing is late it is not old.
Truthful(c) ==
  /\ Before(Peer(c)) => wire[c] = {} /\ heard[c] = "nothing"
  /\ wire[c] # {} => heard[c] = "nothing"
  /\ \A m, n \in wire[c] : m = n
  /\ \A m \in wire[c] :
       /\ m.direct = (IF result[Peer(c)].direct THEN "ok" ELSE "failed")
       /\ m.sent \in Nat /\ (~late => now <= m.sent + MaxDelay)
       /\ result[Peer(c)].direct => m.sent <= okAt[Peer(c)] + Grace
  /\ heard[c] # "nothing" =>
       heard[c] = (IF result[Peer(c)].direct THEN "ok" ELSE "failed")
ReportsTrue == \A c \in Client : Truthful(c)

\* A client that waits for a report will take it.
Listening ==
  \A c \in Client :
    phase[c] \in {"racing", "grace", "waiting"} /\ heard[c] = "nothing"
      => pending[c]

\* As long as nothing is lost or late, a report that the direct leg worked is on its
\* way or has come to a client that is not past waiting; and a client with a
\* direct leg that is past waiting without going direct had reason to.
Fine(c) ==
  /\ result[Peer(c)].direct /\ phase[c] # "over" =>
       wire[c] # {} \/ heard[c] = "ok"
  /\ phase[c] = "over" /\ result[c].direct /\ path[c] # "direct" =>
       \/ heard[c] = "failed"
       \/ heard[c] = "nothing" /\ now >= okAt[c] + Wait
          /\ ~result[Peer(c)].direct
NothingMissed ==
  lost = 0 /\ ~late => \A c \in Client : Fine(c)

\* Going direct takes the peer's word.
DirectHeard ==
  \A c \in Client : path[c] = "direct" => result[c].direct /\ heard[c] = "ok"

Inv == TypeOK /\ LegsPaired /\ RaceTimely /\ ResultsKept /\ ReportsTrue
       /\ Listening /\ NothingMissed /\ DirectHeard

-----------------------------------------------------------------------------
\* The two clients are each other's peers.
LEMMA Peers ==
  ASSUME NEW c \in Client
  PROVE  /\ Peer(c) \in Client /\ Peer(c) # c /\ Peer(Peer(c)) = c
         /\ \A d \in Client : d = c \/ d = Peer(c)
  BY DEF Client, Peer

\* The end of a direct leg, which leaves the other legs alone.
LEMMA DirectLegEnds ==
  ASSUME TypeOK, NEW c \in Client, NEW how \in LegStates,
         Ended(c, "direct", how)
  PROVE  /\ leg' \in [Client -> [direct : LegStates, relay : LegStates]]
         /\ leg'[c].direct = how
         /\ \A d \in Client : d # c => leg'[d] = leg[d]
  BY DEF Ended, TypeOK

\* The end of a relay leg, which leaves the direct legs alone.
LEMMA RelayLegEnds ==
  ASSUME TypeOK, NEW c \in Client, NEW how \in LegStates,
         Ended(c, "relay", how)
  PROVE  /\ leg' \in [Client -> [direct : LegStates, relay : LegStates]]
         /\ \A d \in Client : leg'[d].direct = leg[d].direct
  BY DEF Ended, TypeOK

\* Giving up a relay leg leaves the direct legs alone.
LEMMA DetachLegs ==
  ASSUME TypeOK, NEW c \in Client, Detach(c)
  PROVE  /\ leg' \in [Client -> [direct : LegStates, relay : LegStates]]
         /\ \A d \in Client : leg'[d].direct = leg[d].direct
  BY DEF Detach, TypeOK, LegStates

\* A decision is one of the four.
LEMMA Choices ==
  ASSUME TypeOK, NEW c \in Client, NEW peer, Choose(c, peer)
  PROVE  \E p \in {"direct", "relay", "classic", "refused"} :
           /\ phase' = [phase EXCEPT ![c] = "over"]
           /\ since' = [since EXCEPT ![c] = now]
           /\ path' = [path EXCEPT ![c] = p]
           /\ (p = "direct") <=> (result[c].direct /\ peer = "ok")
  BY DEF Choose, UseDirect, Decided, Goto

\* The dialer's end completes.
LEMMA DialOkStep ==
  ASSUME Inv, DialOk
  PROVE  Inv'
<1> USE TimesAssumption, WaitAssumption, Peers DEF Inv
<1>b. /\ leg' \in [Client -> [direct : LegStates, relay : LegStates]]
      /\ leg'["dialer"].direct = "ok"
      /\ \A d \in Client : d # "dialer" => leg'[d] = leg[d]
  BY DirectLegEnds DEF DialOk, LegStates, Client
<1>1. TypeOK'
  BY <1>b DEF DialOk, LegsUnchanged, TypeOK
<1>2. LegsPaired'
  BY <1>b DEF DialOk, LegsUnchanged, Running, LegsPaired, TypeOK, Ready,
     Client
<1>3. RaceTimely'
  BY <1>b DEF DialOk, LegsUnchanged, RaceTimely, Timely, TypeOK, Ready
<1>4. ResultsKept'
  BY <1>b DEF DialOk, LegsUnchanged, Running, ResultsKept, Ready, Before
<1>5. ReportsTrue'
  BY DEF DialOk, LegsUnchanged, ReportsTrue, Truthful, TypeOK, ResultsKept,
     LegsPaired, Before
<1>6. Listening'
  BY DEF DialOk, LegsUnchanged, Listening
<1>7. NothingMissed'
  BY DEF DialOk, LegsUnchanged, Running, NothingMissed, Fine, ResultsKept,
     Ready
<1>8. DirectHeard'
  BY DEF DialOk, LegsUnchanged, DirectHeard
<1> QED
  BY <1>1, <1>2, <1>3, <1>4, <1>5, <1>6, <1>7, <1>8

\* The acceptor's end completes, maybe late.
LEMMA AcceptOkStep ==
  ASSUME Inv, AcceptOk
  PROVE  Inv'
<1> USE TimesAssumption, WaitAssumption, Peers DEF Inv
<1>b. /\ leg' \in [Client -> [direct : LegStates, relay : LegStates]]
      /\ leg'["acceptor"].direct = "ok"
      /\ \A d \in Client : d # "acceptor" => leg'[d] = leg[d]
  BY DirectLegEnds DEF AcceptOk, LegStates, Client
<1>a. /\ late' \in BOOLEAN /\ (late => late')
      /\ ~late' => now <= okAt["dialer"] + QuicDelay
  <2>1. PICK long : long = (now > okAt["dialer"] + QuicDelay)
    OBVIOUS
  <2>2. long \in BOOLEAN
    <3> (now > okAt["dialer"] + QuicDelay) \in BOOLEAN
      OBVIOUS
    <3> QED
      BY <2>1
  <2>4. ASSUME ~long PROVE now <= okAt["dialer"] + QuicDelay
    <3>1. okAt["dialer"] \in Nat /\ now \in Nat /\ QuicDelay \in Nat
      BY DEF TypeOK, Client
    <3>2. ~(now > okAt["dialer"] + QuicDelay)
      BY <2>1, <2>4
    <3> QED
      BY <3>1, <3>2
  <2>3. late' = (late \/ long)
    BY <2>1 DEF AcceptOk
  <2> QED
    BY <2>2, <2>3, <2>4, Zenon DEF TypeOK
<1>1. TypeOK'
  BY <1>a, <1>b DEF AcceptOk, LegsUnchanged, TypeOK
<1>2. LegsPaired'
  BY <1>a, <1>b DEF AcceptOk, LegsUnchanged, LegsPaired, TypeOK, Ready, Client
<1>3. RaceTimely'
  BY <1>b DEF AcceptOk, LegsUnchanged, RaceTimely, Timely, TypeOK, Ready
<1>4. ResultsKept'
  BY <1>b DEF AcceptOk, LegsUnchanged, Running, ResultsKept, Ready, Before
<1>5. ReportsTrue'
  BY <1>a DEF AcceptOk, LegsUnchanged, ReportsTrue, Truthful, TypeOK,
     ResultsKept, LegsPaired, Before
<1>6. Listening'
  BY DEF AcceptOk, LegsUnchanged, Listening
<1>7. NothingMissed'
  BY <1>a DEF AcceptOk, LegsUnchanged, Running, NothingMissed, Fine,
     ResultsKept, Ready
<1>8. DirectHeard'
  BY DEF AcceptOk, LegsUnchanged, DirectHeard
<1> QED
  BY <1>1, <1>2, <1>3, <1>4, <1>5, <1>6, <1>7, <1>8

\* A direct leg fails.
LEMMA DirectFailsStep ==
  ASSUME Inv, NEW c \in Client, DirectFails(c)
  PROVE  Inv'
<1> USE TimesAssumption, WaitAssumption, Peers DEF Inv
<1>b. /\ leg' \in [Client -> [direct : LegStates, relay : LegStates]]
      /\ leg'[c].direct = "failed"
      /\ \A d \in Client : d # c => leg'[d] = leg[d]
  BY DirectLegEnds DEF DirectFails, LegStates, Client
<1>1. TypeOK'
  BY <1>b DEF DirectFails, LegsUnchanged, TypeOK
<1>2. LegsPaired'
  BY <1>b DEF DirectFails, LegsUnchanged, Running, LegsPaired, Ready,
     Client
<1>3. RaceTimely'
  BY <1>b DEF DirectFails, LegsUnchanged, RaceTimely, Timely, Ready
<1>4. ResultsKept'
  BY <1>b DEF DirectFails, LegsUnchanged, Running, ResultsKept, Ready,
     Before
<1>5. ReportsTrue'
  BY DEF DirectFails, LegsUnchanged, ReportsTrue, Truthful, Before
<1>6. Listening'
  BY DEF DirectFails, LegsUnchanged, Listening
<1>7. NothingMissed'
  BY DEF DirectFails, LegsUnchanged, NothingMissed, Fine
<1>8. DirectHeard'
  BY DEF DirectFails, LegsUnchanged, DirectHeard
<1> QED
  BY <1>1, <1>2, <1>3, <1>4, <1>5, <1>6, <1>7, <1>8

\* A relay leg ends.
LEMMA RelayEndsStep ==
  ASSUME Inv, NEW c \in Client, NEW how \in {"ok", "failed"}, RelayEnds(c, how)
  PROVE  Inv'
<1> USE TimesAssumption, WaitAssumption, Peers DEF Inv
<1>b. /\ leg' \in [Client -> [direct : LegStates, relay : LegStates]]
      /\ \A d \in Client : leg'[d].direct = leg[d].direct
  BY RelayLegEnds DEF RelayEnds, LegStates
<1>1. TypeOK'
  BY <1>b DEF RelayEnds, LegsUnchanged, TypeOK
<1>2. LegsPaired'
  BY <1>b DEF RelayEnds, LegsUnchanged, LegsPaired, Ready, Client
<1>3. RaceTimely'
  BY <1>b DEF RelayEnds, LegsUnchanged, RaceTimely, Timely, Ready
<1>4. ResultsKept'
  BY <1>b DEF RelayEnds, LegsUnchanged, ResultsKept, Ready, Before
<1>5. ReportsTrue'
  BY DEF RelayEnds, LegsUnchanged, ReportsTrue, Truthful, Before
<1>6. Listening'
  BY DEF RelayEnds, LegsUnchanged, Listening
<1>7. NothingMissed'
  BY DEF RelayEnds, LegsUnchanged, NothingMissed, Fine
<1>8. DirectHeard'
  BY DEF RelayEnds, LegsUnchanged, DirectHeard
<1> QED
  BY <1>1, <1>2, <1>3, <1>4, <1>5, <1>6, <1>7, <1>8

\* A connect starts its race, ready to hear from the peer.
LEMMA StartStep ==
  ASSUME Inv, NEW c \in Client, Start(c)
  PROVE  Inv'
<1> USE TimesAssumption, WaitAssumption, Peers DEF Inv
<1>1. TypeOK'
  BY DEF Start, Goto, TypeOK
<1>2. LegsPaired'
  BY DEF Start, Goto, LegsPaired, Ready
<1>3. RaceTimely'
  BY DEF Start, Goto, RaceTimely, Timely, TypeOK, LegsPaired, Ready
<1>4. ResultsKept'
  BY DEF Start, Goto, ResultsKept, Ready, Before
<1>5. ReportsTrue'
  BY DEF Start, Goto, ReportsTrue, Truthful, Before
<1>6. Listening'
  BY DEF Start, Goto, Listening, TypeOK
<1>7. NothingMissed'
  BY DEF Start, Goto, NothingMissed, Fine
<1>8. DirectHeard'
  BY DEF Start, DirectHeard
<1> QED
  BY <1>1, <1>2, <1>3, <1>4, <1>5, <1>6, <1>7, <1>8

\* A connect has no role to play.
LEMMA StartWithoutRoleStep ==
  ASSUME Inv, NEW c \in Client, StartWithoutRole(c)
  PROVE  Inv'
<1> USE TimesAssumption, WaitAssumption, Peers DEF Inv
<1>a. [direct |-> "absent", relay |-> "absent"]
        \in [direct : LegStates, relay : LegStates]
  BY DEF LegStates
<1>1. TypeOK'
  BY <1>a DEF StartWithoutRole, Decided, Goto, TypeOK
<1>2. LegsPaired'
  BY DEF StartWithoutRole, Decided, Goto, LegsPaired, TypeOK, Ready
<1>3. RaceTimely'
  BY DEF StartWithoutRole, Decided, Goto, RaceTimely, Timely, TypeOK, Ready
<1>4. ResultsKept'
  BY DEF StartWithoutRole, Decided, Goto, ResultsKept, TypeOK, Ready,
     Before
<1>5. ReportsTrue'
  BY DEF StartWithoutRole, Decided, Goto, ReportsTrue, Truthful, Before
<1>6. Listening'
  BY DEF StartWithoutRole, Decided, Goto, Listening
<1>7. NothingMissed'
  BY DEF StartWithoutRole, NothingMissed, Fine, LegsPaired, ResultsKept,
     Ready
<1>8. DirectHeard'
  BY DEF StartWithoutRole, Decided, DirectHeard
<1> QED
  BY <1>1, <1>2, <1>3, <1>4, <1>5, <1>6, <1>7, <1>8

\* The first leg is done, and the grace period begins.
LEMMA RaceFirstStep ==
  ASSUME Inv, NEW c \in Client, RaceFirst(c)
  PROVE  Inv'
<1> USE TimesAssumption, WaitAssumption, Peers DEF Inv
<1>1. TypeOK'
  BY DEF RaceFirst, Goto, TypeOK
<1>2. LegsPaired'
  BY DEF RaceFirst, Goto, LegsPaired, Ready
<1>3. RaceTimely'
  BY DEF RaceFirst, FirstDone, Goto, RaceTimely, Timely, TypeOK, Ready
<1>4. ResultsKept'
  BY DEF RaceFirst, FirstDone, Goto, ResultsKept, Ready, Before
<1>5. ReportsTrue'
  BY DEF RaceFirst, FirstDone, Goto, ReportsTrue, Truthful, Before
<1>6. Listening'
  BY DEF RaceFirst, FirstDone, Goto, Listening
<1>7. NothingMissed'
  BY DEF RaceFirst, FirstDone, Goto, NothingMissed, Fine
<1>8. DirectHeard'
  BY DEF RaceFirst, DirectHeard
<1> QED
  BY <1>1, <1>2, <1>3, <1>4, <1>5, <1>6, <1>7, <1>8

\* A race without a result.
LEMMA RaceFailsStep ==
  ASSUME Inv, NEW c \in Client, RaceFails(c)
  PROVE  Inv'
<1> USE TimesAssumption, WaitAssumption, Peers DEF Inv
<1>b. /\ leg' \in [Client -> [direct : LegStates, relay : LegStates]]
      /\ \A d \in Client : leg'[d].direct = leg[d].direct
  BY DetachLegs DEF RaceFails
<1>1. TypeOK'
  BY <1>b DEF RaceFails, Decided, Goto, TypeOK
<1>2. LegsPaired'
  BY <1>b DEF RaceFails, Decided, Goto, LegsPaired, Ready, Client
<1>3. RaceTimely'
  BY <1>b DEF RaceFails, Decided, Goto, RaceTimely, Timely, TypeOK, Ready
<1>4. ResultsKept'
  BY <1>b DEF RaceFails, Decided, Goto, ResultsKept, TypeOK, Ready, Before
<1>5. ReportsTrue'
  BY DEF RaceFails, Decided, Goto, ReportsTrue, Truthful, Before
<1>6. Listening'
  BY DEF RaceFails, Decided, Goto, Listening
<1>7. NothingMissed'
  BY DEF RaceFails, Decided, Goto, NothingMissed, Fine, ResultsKept, Ready
<1>8. DirectHeard'
  BY DEF RaceFails, Decided, DirectHeard
<1> QED
  BY <1>1, <1>2, <1>3, <1>4, <1>5, <1>6, <1>7, <1>8

\* A race ends and tells the peer: no later than a grace period after its
\* direct leg, so a peer with a direct leg still waits.
LEMMA RaceEndsStep ==
  ASSUME Inv, NEW c \in Client, RaceEnds(c)
  PROVE  Inv'
<1> USE TimesAssumption, WaitAssumption, Peers DEF Inv
<1>b. /\ leg' \in [Client -> [direct : LegStates, relay : LegStates]]
      /\ \A d \in Client : leg'[d].direct = leg[d].direct
  BY DetachLegs DEF RaceEnds
<1>c. /\ result' \in [Client -> [direct : BOOLEAN, relay : BOOLEAN]]
      /\ result'[c].direct <=> leg[c].direct = "ok"
      /\ \A d \in Client : d # c => result'[d] = result[d]
  <2> DEFINE r == [direct |-> leg[c].direct = "ok",
                   relay |-> leg[c].relay = "ok"]
  <2>1. /\ r \in [direct : BOOLEAN, relay : BOOLEAN]
        /\ r.direct <=> leg[c].direct = "ok"
    OBVIOUS
  <2>2. result' = [result EXCEPT ![c] = r]
    BY DEF RaceEnds
  <2> HIDE DEF r
  <2> QED
    BY <2>1, <2>2 DEF TypeOK
<1>d. [direct |-> Told(c), sent |-> now] \in Reports
  BY DEF Told, Reports, TypeOK
<1>e. /\ wire' \in [Client -> SUBSET Reports]
      /\ wire'[Peer(c)] =
           wire[Peer(c)] \cup {[direct |-> Told(c), sent |-> now]}
      /\ \A d \in Client : d # Peer(c) => wire'[d] = wire[d]
  BY <1>d DEF RaceEnds, TypeOK
<1>f. /\ phase[c] = "grace" /\ phase' = [phase EXCEPT ![c] = "waiting"]
      /\ since' = [since EXCEPT ![c] = now]
      /\ UNCHANGED <<now, started, okAt, pending, heard, lost, late, path>>
  BY DEF RaceEnds, RaceDue, Goto
<1>1. TypeOK'
  BY <1>b, <1>c, <1>e, <1>f DEF TypeOK
<1>2. LegsPaired'
  BY <1>b DEF RaceEnds, Goto, LegsPaired, Ready, Client
<1>3. RaceTimely'
  BY <1>b DEF RaceEnds, RaceDue, Goto, RaceTimely, Timely, TypeOK, Ready
<1>4. ResultsKept'
  BY <1>b, <1>c, <1>f DEF ResultsKept, LegsPaired, TypeOK, Ready, Before
<1>5. ReportsTrue'
  <2>1. wire[Peer(c)] = {} /\ heard[Peer(c)] = "nothing"
    BY <1>f DEF ReportsTrue, Truthful, Before
  <2>2. wire'[Peer(c)] = {[direct |-> Told(c), sent |-> now]}
    BY <1>e, <2>1
  <2>3. Told(c) = (IF result'[c].direct THEN "ok" ELSE "failed")
    BY <1>c DEF Told
  <2>4. result'[c].direct => now <= okAt[c] + Grace
    BY <1>c, <1>f DEF RaceTimely, Timely, Ready, TypeOK
  <2>5. \A m \in wire'[Peer(c)] : m.direct = Told(c) /\ m.sent = now
    BY <2>2
  <2>6. Truthful(Peer(c))'
    BY <1>f, <2>1, <2>2, <2>3, <2>4 DEF Before, TypeOK, Truthful
  <2>7. Truthful(c)'
    BY <1>c, <1>e, <1>f DEF ReportsTrue, Truthful, Before
  <2> QED
    BY <2>6, <2>7 DEF ReportsTrue
<1>6. Listening'
  BY DEF RaceEnds, RaceDue, Goto, Listening
<1>7. NothingMissed'
  <2> SUFFICES ASSUME lost = 0, ~late PROVE NothingMissed'
    BY <1>f DEF NothingMissed
  <2>1. wire'[Peer(c)] # {}
    BY <1>e
  <2>2. Ready(c) /\ result[Peer(c)].direct => now < okAt[Peer(c)] + Wait
    BY <1>f DEF RaceTimely, Timely, ResultsKept, LegsPaired, TypeOK, Client
  <2>3. Fine(c)'
    BY <1>c, <1>e, <1>f DEF NothingMissed, Fine
  <2>4. Fine(Peer(c))'
    BY <1>c, <1>f, <2>1, <2>2 DEF NothingMissed, Fine, TypeOK, Ready
  <2> QED
    BY <2>3, <2>4 DEF NothingMissed
<1>8. DirectHeard'
  BY DEF RaceEnds, RaceDue, DirectHeard, ResultsKept, Ready
<1> QED
  BY <1>1, <1>2, <1>3, <1>4, <1>5, <1>6, <1>7, <1>8

\* A report arrives at a client that listens.
LEMMA DeliverStep ==
  ASSUME Inv, NEW c \in Client, Deliver(c)
  PROVE  Inv'
<1> USE TimesAssumption, WaitAssumption, Peers DEF Inv
<1>1. TypeOK'
  BY DEF Deliver, TypeOK, Reports
<1>2. LegsPaired'
  BY DEF Deliver, LegsPaired, Ready
<1>3. RaceTimely'
  BY DEF Deliver, RaceTimely, Timely, Ready
<1>4. ResultsKept'
  BY DEF Deliver, ResultsKept, Ready, Before
<1>5. ReportsTrue'
  BY DEF Deliver, ReportsTrue, Truthful, TypeOK, Before
<1>6. Listening'
  <2> PICK m \in wire[c] :
        /\ heard' = [heard EXCEPT ![c] = IF Taken(c) THEN m.direct ELSE @]
        /\ pending' = [pending EXCEPT ![c] = @ /\ ~Taken(c)]
        /\ UNCHANGED phase
    BY DEF Deliver
  <2>1. m.direct # "nothing"
    BY DEF TypeOK, Reports
  <2>2. CASE pending[c]
    BY <2>1 DEF Listening, TypeOK
  <2>3. CASE ~pending[c]
    BY <2>3 DEF Listening, Taken
  <2> QED
    BY <2>2, <2>3
<1>7. NothingMissed'
  BY DEF Deliver, Taken, NothingMissed, Fine, TypeOK, LegsPaired,
     ResultsKept, ReportsTrue, Truthful, Listening
<1>8. DirectHeard'
  BY DEF Deliver, DirectHeard, ReportsTrue, Truthful
<1> QED
  BY <1>1, <1>2, <1>3, <1>4, <1>5, <1>6, <1>7, <1>8

\* A report is lost, and nothing is promised any more.
LEMMA LoseStep ==
  ASSUME Inv, NEW c \in Client, Lose(c)
  PROVE  Inv'
<1> USE TimesAssumption, WaitAssumption, Peers DEF Inv
<1>1. TypeOK'
  BY DEF Lose, TypeOK
<1>2. LegsPaired'
  BY DEF Lose, LegsPaired, Ready
<1>3. RaceTimely'
  BY DEF Lose, RaceTimely, Timely, Ready
<1>4. ResultsKept'
  BY DEF Lose, ResultsKept, Ready, Before
<1>5. ReportsTrue'
  BY DEF Lose, ReportsTrue, Truthful, Before
<1>6. Listening'
  BY DEF Lose, Listening
<1>7. NothingMissed'
  BY DEF Lose, NothingMissed, TypeOK
<1>8. DirectHeard'
  BY DEF Lose, DirectHeard
<1> QED
  BY <1>1, <1>2, <1>3, <1>4, <1>5, <1>6, <1>7, <1>8

\* The decision with the peer's report.
LEMMA AgreeStep ==
  ASSUME Inv, NEW c \in Client, Agree(c)
  PROVE  Inv'
<1> USE TimesAssumption, WaitAssumption, Peers DEF Inv
<1>b. Choose(c, heard[c])
  BY DEF Agree
<1> PICK p \in {"direct", "relay", "classic", "refused"} :
           /\ phase' = [phase EXCEPT ![c] = "over"]
           /\ since' = [since EXCEPT ![c] = now]
           /\ path' = [path EXCEPT ![c] = p]
           /\ (p = "direct") <=> (result[c].direct /\ heard[c] = "ok")
  BY <1>b, Choices
<1>1. TypeOK'
  BY DEF Agree, TypeOK
<1>2. LegsPaired'
  BY DEF Agree, LegsPaired, Ready
<1>3. RaceTimely'
  BY DEF Agree, RaceTimely, Timely, TypeOK, Ready
<1>4. ResultsKept'
  BY DEF Agree, ResultsKept, TypeOK, Ready, Before
<1>5. ReportsTrue'
  BY DEF Agree, ReportsTrue, Truthful, Before
<1>6. Listening'
  BY DEF Agree, Listening
<1>7. NothingMissed'
  BY DEF Agree, NothingMissed, Fine, TypeOK
<1>8. DirectHeard'
  BY DEF Agree, DirectHeard
<1> QED
  BY <1>1, <1>2, <1>3, <1>4, <1>5, <1>6, <1>7, <1>8

\* The decision without a report: if nothing was lost or late, by WaitAssumption
\* the peer has no direct leg.
LEMMA GiveUpWaitingStep ==
  ASSUME Inv, NEW c \in Client, GiveUpWaiting(c)
  PROVE  Inv'
<1> USE TimesAssumption, WaitAssumption, Peers DEF Inv
<1>b. Choose(c, "failed")
  BY DEF GiveUpWaiting
<1> PICK p \in {"direct", "relay", "classic", "refused"} :
           /\ phase' = [phase EXCEPT ![c] = "over"]
           /\ since' = [since EXCEPT ![c] = now]
           /\ path' = [path EXCEPT ![c] = p]
           /\ (p = "direct") <=> (result[c].direct /\ "failed" = "ok")
  BY <1>b, Choices
<1>1. TypeOK'
  BY DEF GiveUpWaiting, TypeOK
<1>2. LegsPaired'
  BY DEF GiveUpWaiting, LegsPaired, Ready
<1>3. RaceTimely'
  BY DEF GiveUpWaiting, RaceTimely, Timely, TypeOK, Ready
<1>4. ResultsKept'
  BY DEF GiveUpWaiting, ResultsKept, TypeOK, Ready, Before
<1>5. ReportsTrue'
  BY DEF GiveUpWaiting, ReportsTrue, Truthful, Before
<1>6. Listening'
  BY DEF GiveUpWaiting, Listening, TypeOK
<1>c. /\ phase[c] = "waiting" /\ heard[c] = "nothing" /\ now >= since[c] + Wait
      /\ UNCHANGED <<now, started, leg, okAt, result, heard, wire, lost, late>>
  BY DEF GiveUpWaiting, WaitDue
<1>7. NothingMissed'
  <2> SUFFICES ASSUME lost = 0, ~late PROVE NothingMissed'
    BY <1>c DEF NothingMissed
  <2>1. result[c].direct => now >= okAt[c] + Wait /\ ~result[Peer(c)].direct
    <3> SUFFICES ASSUME result[c].direct
                 PROVE  now >= okAt[c] + Wait /\ ~result[Peer(c)].direct
      OBVIOUS
    <3>1. okAt[c] <= since[c]
      BY <1>c DEF ResultsKept
    <3>2. now >= okAt[c] + Wait
      BY <1>c, <3>1 DEF TypeOK
    <3>3. ASSUME result[Peer(c)].direct PROVE FALSE
      <4>1. PICK m \in wire[c] : TRUE
        BY <1>c, <3>3 DEF NothingMissed, Fine
      <4>2. /\ m.sent \in Nat /\ now <= m.sent + MaxDelay
            /\ m.sent <= okAt[Peer(c)] + Grace
        BY <3>3 DEF ReportsTrue, Truthful
      <4>3. okAt[Peer(c)] <= okAt[c] + QuicDelay
        BY <3>3 DEF ResultsKept, LegsPaired, TypeOK, Client
      <4> QED
        BY <3>2, <4>2, <4>3 DEF TypeOK
    <3> QED
      BY <3>2, <3>3
  <2>2. Fine(c)'
    BY <1>c, <2>1 DEF NothingMissed, Fine
  <2>3. Fine(Peer(c))'
    BY <1>c DEF NothingMissed, Fine
  <2> QED
    BY <2>2, <2>3 DEF NothingMissed
<1>8. DirectHeard'
  BY DEF GiveUpWaiting, DirectHeard
<1> QED
  BY <1>1, <1>2, <1>3, <1>4, <1>5, <1>6, <1>7, <1>8

\* Time goes on when nothing is due.
LEMMA TickStep ==
  ASSUME Inv, Tick
  PROVE  Inv'
<1> USE TimesAssumption, WaitAssumption, Peers DEF Inv
<1>a. /\ late' \in BOOLEAN /\ (late => late')
      /\ ~late' => \A c \in Client : \A m \in wire[c] : ~(now >= m.sent + MaxDelay)
  BY DEF Tick, TypeOK
<1>1. TypeOK'
  BY <1>a DEF Tick, TypeOK
<1>2. LegsPaired'
  BY <1>a DEF Tick, LegsPaired, TypeOK, Ready
<1>3. RaceTimely'
  <2> SUFFICES ASSUME NEW c \in Client PROVE Timely(c)'
    BY DEF RaceTimely
  <2>1. /\ Timely(c) /\ ~Urgent(c) /\ now' = now + 1
        /\ UNCHANGED <<phase, since, started, leg, okAt>>
    BY DEF Tick, RaceTimely
  <2>2. CASE phase[c] = "racing"
    <3>1. leg[c].direct = "running"
      BY <2>1, <2>2 DEF Urgent, FirstDone
    <3>2. ~(now >= started[c] + DirectTimeout)
      BY <2>1, <2>2, <3>1 DEF Urgent, DirectDue, Running
    <3> QED
      BY <2>1, <2>2, <3>1, <3>2 DEF Timely, Ready, TypeOK
  <2>3. CASE phase[c] = "grace"
    <3>1. ~(now >= since[c] + Grace)
      BY <2>1, <2>3 DEF Urgent, RaceDue
    <3> QED
      BY <2>1, <2>3, <3>1 DEF Timely, Ready, TypeOK
  <2>4. CASE phase[c] = "waiting"
    <3>1. ~(now >= since[c] + Wait)
      BY <2>1, <2>4 DEF Urgent, WaitDue
    <3> QED
      BY <2>1, <2>4, <3>1 DEF Timely, TypeOK
  <2>5. CASE phase[c] \in {"idle", "over"}
    BY <2>1, <2>5 DEF Timely, TypeOK
  <2> QED
    BY <2>2, <2>3, <2>4, <2>5 DEF TypeOK
<1>4. ResultsKept'
  BY DEF Tick, ResultsKept, Ready, Before
<1>5. ReportsTrue'
  <2> SUFFICES ASSUME NEW c \in Client PROVE Truthful(c)'
    BY DEF ReportsTrue
  <2>1. /\ Truthful(c) /\ now' = now + 1
        /\ UNCHANGED <<phase, result, heard, wire, okAt>>
    BY DEF Tick, ReportsTrue
  <2>2. ASSUME NEW m \in wire[c], ~late' PROVE now' <= m.sent + MaxDelay
    <3>1. ~(now >= m.sent + MaxDelay)
      BY <1>a, <2>2
    <3>2. m.sent \in Nat
      BY <2>1 DEF Truthful
    <3> QED
      BY <2>1, <3>1, <3>2 DEF TypeOK
  <2> QED
    BY <2>1, <2>2 DEF Truthful, Before
<1>6. Listening'
  BY DEF Tick, Listening
<1>7. NothingMissed'
  BY <1>a DEF Tick, NothingMissed, Fine, TypeOK
<1>8. DirectHeard'
  BY DEF Tick, DirectHeard
<1> QED
  BY <1>1, <1>2, <1>3, <1>4, <1>5, <1>6, <1>7, <1>8

-----------------------------------------------------------------------------
\* Before any connect starts.
LEMMA InvInit == Init => Inv
<1> SUFFICES ASSUME Init PROVE Inv
  OBVIOUS
<1> USE TimesAssumption DEF Init
<1>1. TypeOK
  <2>1. /\ leg \in [Client -> [direct : LegStates, relay : LegStates]]
        /\ result \in [Client -> [direct : BOOLEAN, relay : BOOLEAN]]
        /\ wire \in [Client -> SUBSET Reports]
    BY DEF LegStates
  <2>2. late \in BOOLEAN
    BY Zenon
  <2>3. lost \in 0..MaxLost
    <3> lost = 0
      OBVIOUS
    <3> QED
      OBVIOUS
  <2> QED
    BY <2>1, <2>2, <2>3 DEF TypeOK
<1>2. LegsPaired /\ RaceTimely /\ ResultsKept
  BY DEF LegsPaired, RaceTimely, Timely, ResultsKept, Ready, Client
<1>3. ReportsTrue /\ Listening /\ NothingMissed /\ DirectHeard
  BY Peers DEF ReportsTrue, Truthful, Listening, NothingMissed, Fine,
     DirectHeard
<1> QED
  BY <1>1, <1>2, <1>3 DEF Inv

\* Every step keeps the invariant.
LEMMA InvStep ==
  ASSUME Inv, [Next]_vars
  PROVE  Inv'
<1>1. ASSUME NEW c \in Client, Step(c) PROVE Inv'
  BY <1>1, DirectFailsStep, RelayEndsStep, StartStep, StartWithoutRoleStep,
     RaceFirstStep, RaceFailsStep, RaceEndsStep, DeliverStep, LoseStep,
     AgreeStep, GiveUpWaitingStep DEF Step
<1>2. CASE UNCHANGED vars
  <2>1. TypeOK' /\ LegsPaired' /\ RaceTimely' /\ ResultsKept'
    BY <1>2 DEF vars, Inv, TypeOK, LegsPaired, RaceTimely, Timely, ResultsKept,
       Ready, Before
  <2>2. ReportsTrue' /\ Listening' /\ NothingMissed' /\ DirectHeard'
    BY <1>2 DEF vars, Inv, ReportsTrue, Truthful, Listening, NothingMissed,
       Fine, DirectHeard, Before
  <2> QED
    BY <2>1, <2>2 DEF Inv
<1> QED
  BY <1>1, <1>2, DialOkStep, AcceptOkStep, TickStep DEF Next

\* The invariant holds throughout.
THEOREM Inductive == Spec => []Inv
  BY InvInit, InvStep, PTL DEF Spec

\* While no report is lost and nothing is later than the wait makes up for, the
\* two clients agree on the direct path, for all timeouts and for all delays
\* that satisfy WaitAssumption.
THEOREM ClientsAgree == Spec => []PathsAgree
<1>1. ASSUME Inv, NEW c \in Client, lost = 0, ~late, path[Peer(c)] # "none",
             path[c] = "direct"
      PROVE  path[Peer(c)] = "direct"
  <2>1. result[c].direct /\ heard[c] = "ok"
    BY <1>1 DEF Inv, DirectHeard
  <2>2. result[Peer(c)].direct
    BY <1>1, <2>1 DEF Inv, ReportsTrue, Truthful
  <2>3. phase[Peer(c)] = "over"
    BY <1>1, Peers DEF Inv, ResultsKept
  <2>4. heard[Peer(c)] # "failed"
    BY <1>1, <2>1, Peers DEF Inv, ReportsTrue, Truthful
  <2> QED
    BY <1>1, <2>1, <2>2, <2>3, <2>4, Peers DEF Inv, NothingMissed, Fine
<1>2. Inv => PathsAgree
  BY <1>1 DEF PathsAgree, BothDecided, SamePath, Client, Peer
<1> QED
  BY <1>2, Inductive, PTL

\* Whatever is lost or late, a client goes direct only when its peer's race returned
\* the direct leg too.
THEOREM DirectIsShared == Spec => []DirectHasPeer
<1>1. Inv => DirectHasPeer
  BY DEF Inv, DirectHasPeer, DirectHeard, ReportsTrue, Truthful
<1> QED
  BY <1>1, Inductive, PTL

\* No connect takes longer than its three timers.
THEOREM ConnectsEndInTime == Spec => []ConnectsInTime
<1>1. Inv => ConnectsInTime
  BY TimesAssumption DEF Inv, ConnectsInTime, RaceTimely, Timely, TypeOK
<1> QED
  BY <1>1, Inductive, PTL
=============================================================================
