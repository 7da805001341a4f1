--------------------------- MODULE PathSelection ---------------------------
(***************************************************************************)
(* How the two clients of a direct call choose the media path (connect in  *)
(* desktop/src-tauri/src/lib.rs, race in wzp-client/src/dual_path.rs).     *)
(* Each client races a direct leg against a relay leg, reports to the peer *)
(* whether its direct leg worked, waits for the peer's report and goes     *)
(* direct only when both legs worked.                                      *)
(*                                                                         *)
(* There is one direct connection: of all the candidates the dialer tries, *)
(* only the one the acceptor takes completes, the dialer's end first.      *)
(* Time is counted in ticks, and a timer that is due or a result that is   *)
(* there is acted on before the next tick.  The network has no such limit: *)
(* a report and the acceptor's end of the connection may take any time.    *)
(* A connect runs to its end before the same client starts another (it     *)
(* holds the engine lock), so one call is modelled.                        *)
(***************************************************************************)
EXTENDS Naturals

CONSTANTS
  DirectTimeout,  \* the direct leg may take this long (4 s)
  HeadStart,      \* the relay leg sleeps this long, twice (500 ms)
  Grace,          \* the slower leg gets this long after the faster (1 s)
  Wait,           \* the peer's report is awaited this long (3 s)
  MaxDelay,       \* a report that takes longer is late
  QuicDelay,      \* an acceptor's end that completes this much after the
                  \* dialer's is in time, a later one is late
  DirectOnly,     \* the clients started with direct_only
  MaxSkew,        \* bound: when the last connect starts
  MaxLost         \* bound: reports lost

Client == {"acceptor", "dialer"}
Peer(c) == IF c = "acceptor" THEN "dialer" ELSE "acceptor"

ASSUME TimesAssumption ==
  /\ DirectTimeout \in Nat /\ HeadStart \in Nat
  /\ Grace \in Nat /\ Wait \in Nat /\ MaxDelay \in Nat /\ QuicDelay \in Nat
  /\ MaxSkew \in Nat /\ MaxLost \in Nat
ASSUME DirectOnlyAssumption == DirectOnly \subseteq Client
\* What is in time is what the wait makes up for: two ends that complete
\* QuicDelay apart, a grace period and a report that takes MaxDelay.
ASSUME WaitAssumption == QuicDelay + Grace + MaxDelay < Wait

VARIABLES
  now,      \* the time
  phase,    \* where each connect is
  since,    \* when it got there
  started,  \* when it began
  leg,      \* leg[c].direct, leg[c].relay: how the task of each leg stands
  okAt,     \* when the direct leg completed
  result,   \* the legs the race returned
  pending,  \* pending_path_report is set
  heard,    \* the report that came through it
  wire,     \* the reports under way to each client
  lost,     \* reports lost so far
  late,     \* history: a report, or the acceptor's end, was late
  path      \* what connect decided

vars == <<now, phase, since, started, leg, okAt, result, pending, heard, wire,
          lost, late, path>>

Init ==
  /\ now = 0
  /\ phase = [c \in Client |-> "idle"]
  /\ since = [c \in Client |-> 0]
  /\ started = [c \in Client |-> 0]
  /\ leg = [c \in Client |-> [direct |-> "running", relay |-> "running"]]
  /\ okAt = [c \in Client |-> 0]
  /\ result = [c \in Client |-> [direct |-> FALSE, relay |-> FALSE]]
  /\ pending = [c \in Client |-> FALSE]
  /\ heard = [c \in Client |-> "nothing"]
  /\ wire = [c \in Client |-> {}]
  /\ lost = 0
  /\ late = FALSE
  /\ path = [c \in Client |-> "none"]

Goto(c, where) ==
  /\ phase' = [phase EXCEPT ![c] = where]
  /\ since' = [since EXCEPT ![c] = now]
Decided(c, p) ==
  /\ Goto(c, "over")
  /\ path' = [path EXCEPT ![c] = p]

-----------------------------------------------------------------------------
(* The start of connect *)

\* The channel for the peer's report is there before the race starts.
Start(c) ==
  /\ phase[c] = "idle" /\ now <= MaxSkew
  /\ Goto(c, "racing")
  /\ started' = [started EXCEPT ![c] = now]
  /\ pending' = [pending EXCEPT ![c] = TRUE]
  /\ UNCHANGED <<now, leg, okAt, result, heard, wire, lost, late, path>>

\* An address is missing or both are the same: no race and no report.
StartWithoutRole(c) ==
  /\ phase[c] = "idle" /\ now <= MaxSkew
  /\ started' = [started EXCEPT ![c] = now]
  /\ leg' = [leg EXCEPT ![c] = [direct |-> "absent", relay |-> "absent"]]
  /\ Decided(c, "classic")
  /\ UNCHANGED <<now, okAt, result, pending, heard, wire, lost, late>>

-----------------------------------------------------------------------------
(* The two legs: tasks that go on when the race no longer waits for them *)

Running(c, l) == phase[c] # "idle" /\ leg[c][l] = "running"
Ended(c, l, how) == leg' = [leg EXCEPT ![c][l] = how]
LegsUnchanged ==
  UNCHANGED <<now, phase, since, started, result, pending, heard, wire, lost,
              path>>

\* The dialer's end of the connection completes: the acceptor is accepting.
DialOk ==
  /\ Running("dialer", "direct") /\ Running("acceptor", "direct")
  /\ Ended("dialer", "direct", "ok")
  /\ okAt' = [okAt EXCEPT !["dialer"] = now]
  /\ UNCHANGED late
  /\ LegsUnchanged

\* The acceptor's end completes after it.
AcceptOk ==
  /\ Running("acceptor", "direct") /\ leg["dialer"].direct = "ok"
  /\ Ended("acceptor", "direct", "ok")
  /\ okAt' = [okAt EXCEPT !["acceptor"] = now]
  /\ late' = (late \/ now > okAt["dialer"] + QuicDelay)
  /\ LegsUnchanged

\* Every candidate failed, the acceptor met too many stale connections, or
\* the leg took too long.
DirectFails(c) ==
  /\ Running(c, "direct")
  /\ Ended(c, "direct", "failed")
  /\ UNCHANGED <<okAt, late>>
  /\ LegsUnchanged

\* The relay leg sleeps twice before it dials.
RelayEnds(c, how) ==
  /\ Running(c, "relay")
  /\ now >= started[c] + 2 * HeadStart
  /\ Ended(c, "relay", how)
  /\ UNCHANGED <<okAt, late>>
  /\ LegsUnchanged

\* The relay leg's own timeout (5 s after the first sleep) comes when the
\* race no longer waits for that leg.
DirectDue(c) ==
  Running(c, "direct") /\ now >= started[c] + DirectTimeout

-----------------------------------------------------------------------------
(* The race *)

FirstDone(c) ==
  phase[c] = "racing" /\ \E l \in {"direct", "relay"} : leg[c][l] # "running"

\* Mutant: only the direct leg ends the first wait.
RaceFirstOnDirect(c) ==
  /\ phase[c] = "racing" /\ leg[c].direct = "ok"
  /\ Goto(c, "grace")
  /\ UNCHANGED <<now, started, leg, okAt, result, pending, heard, wire, lost,
                 late, path>>

\* The first leg is done, well or badly: the other one gets the grace period.
RaceFirst(c) ==
  /\ FirstDone(c)
  /\ Goto(c, "grace")
  /\ UNCHANGED <<now, started, leg, okAt, result, pending, heard, wire, lost,
                 late, path>>

RaceDue(c) ==
  /\ phase[c] = "grace"
  /\ \/ \A l \in {"direct", "relay"} : leg[c][l] # "running"
     \/ now >= since[c] + Grace

\* The race is over: what a relay leg that is still running does makes no
\* difference any more, while an accept goes on.
Detach(c) ==
  leg' = [leg EXCEPT ![c].relay = IF @ = "running" THEN "absent" ELSE @]

\* Nothing worked: connect goes on without a transport, and without telling
\* the peer.
RaceFails(c) ==
  /\ RaceDue(c)
  /\ leg[c].direct # "ok" /\ leg[c].relay # "ok"
  /\ Detach(c)
  /\ Decided(c, "classic")
  /\ UNCHANGED <<now, started, okAt, result, pending, heard, wire, lost, late>>

\* What the peer is told of the direct leg.
Told(c) == IF leg[c].direct = "ok" THEN "ok" ELSE "failed"

\* Keep what worked, report whether the direct leg did, and wait.
RaceEnds(c) ==
  /\ RaceDue(c)
  /\ leg[c].direct = "ok" \/ leg[c].relay = "ok"
  /\ result' = [result EXCEPT ![c] =
       [direct |-> leg[c].direct = "ok", relay |-> leg[c].relay = "ok"]]
  /\ Detach(c)
  /\ Goto(c, "waiting")
  /\ wire' = [wire EXCEPT ![Peer(c)] = @ \cup {[direct |-> Told(c), sent |-> now]}]
  /\ UNCHANGED <<now, started, okAt, pending, heard, lost, late, path>>

-----------------------------------------------------------------------------
(* The reports *)

\* Whoever the channel belongs to gets the report; without one it is dropped.
\* Mutant: a report that comes during the race is dropped.
TakenIfWaiting(c) == pending[c] /\ phase[c] = "waiting"
Taken(c) == pending[c]

Deliver(c) ==
  \E m \in wire[c] :
    /\ wire' = [wire EXCEPT ![c] = @ \ {m}]
    /\ heard' = [heard EXCEPT ![c] = IF Taken(c) THEN m.direct ELSE @]
    /\ pending' = [pending EXCEPT ![c] = @ /\ ~Taken(c)]
    /\ UNCHANGED <<now, phase, since, started, leg, okAt, result, lost, late, path>>

\* No signal connection on one of the two sides, or the relay lost the call.
Lose(c) ==
  \E m \in wire[c] :
    /\ lost < MaxLost
    /\ lost' = lost + 1
    /\ wire' = [wire EXCEPT ![c] = @ \ {m}]
    /\ UNCHANGED <<now, phase, since, started, leg, okAt, result, pending, heard,
                   late, path>>

-----------------------------------------------------------------------------
(* The decision *)

\* Mutant: the peer's report does not matter.
UseDirectIfLocal(c, peer) == result[c].direct
UseDirect(c, peer) == result[c].direct /\ peer = "ok"

Choose(c, peer) ==
  \/ UseDirect(c, peer) /\ Decided(c, "direct")
  \/ ~UseDirect(c, peer) /\ c \in DirectOnly /\ Decided(c, "refused")
  \/ ~UseDirect(c, peer) /\ c \notin DirectOnly
     /\ Decided(c, IF result[c].relay THEN "relay" ELSE "classic")

Agree(c) ==
  /\ phase[c] = "waiting" /\ heard[c] # "nothing"
  /\ Choose(c, heard[c])
  /\ UNCHANGED <<now, started, leg, okAt, result, pending, heard, wire, lost, late>>

\* Mutant: the wait is one tick longer.
WaitDueLate(c) ==
  phase[c] = "waiting" /\ heard[c] = "nothing" /\ now > since[c] + Wait
WaitDue(c) == phase[c] = "waiting" /\ heard[c] = "nothing" /\ now >= since[c] + Wait

\* No report: the peer may be an old build.
GiveUpWaiting(c) ==
  /\ WaitDue(c)
  /\ pending' = [pending EXCEPT ![c] = FALSE]
  /\ Choose(c, "failed")
  /\ UNCHANGED <<now, started, leg, okAt, result, heard, wire, lost, late>>

-----------------------------------------------------------------------------
\* What must happen before time goes on.
Urgent(c) ==
  \/ DirectDue(c) \/ FirstDone(c) \/ RaceDue(c) \/ WaitDue(c)
  \/ phase[c] = "waiting" /\ heard[c] # "nothing"
  \/ phase[c] = "idle" /\ now >= MaxSkew

Tick ==
  /\ \A c \in Client : ~Urgent(c)
  /\ \E c \in Client : phase[c] # "over"
  /\ now' = now + 1
  /\ late' = (late \/ \E c \in Client : \E m \in wire[c] : now >= m.sent + MaxDelay)
  /\ UNCHANGED <<phase, since, started, leg, okAt, result, pending, heard, wire,
                 lost, path>>

Step(c) ==
  \/ Start(c) \/ StartWithoutRole(c)
  \/ DirectFails(c) \/ (\E how \in {"ok", "failed"} : RelayEnds(c, how))
  \/ RaceFirst(c) \/ RaceFails(c) \/ RaceEnds(c)
  \/ Deliver(c) \/ Lose(c) \/ Agree(c) \/ GiveUpWaiting(c)

Next == DialOk \/ AcceptOk \/ Tick \/ \E c \in Client : Step(c)

Spec == Init /\ [][Next]_vars

\* Time goes on, and what is due is done.
FairSpec == Spec /\ WF_vars(Next)

-----------------------------------------------------------------------------
(* Properties *)

LegStates == {"running", "ok", "failed", "absent"}
Reports == [direct : {"ok", "failed"}, sent : Nat]

\* The state has its type.
TypeOK ==
  /\ now \in Nat
  /\ phase \in [Client -> {"idle", "racing", "grace", "waiting", "over"}]
  /\ since \in [Client -> Nat]
  /\ started \in [Client -> Nat]
  /\ leg \in [Client -> [direct : LegStates, relay : LegStates]]
  /\ okAt \in [Client -> Nat]
  /\ result \in [Client -> [direct : BOOLEAN, relay : BOOLEAN]]
  /\ pending \in [Client -> BOOLEAN]
  /\ heard \in [Client -> {"nothing", "ok", "failed"}]
  /\ wire \in [Client -> SUBSET Reports]
  /\ lost \in 0..MaxLost
  /\ late \in BOOLEAN
  /\ path \in [Client -> {"none", "direct", "relay", "classic", "refused"}]

BothDecided == \A c \in Client : path[c] # "none"
SamePath == path["acceptor"] = "direct" <=> path["dialer"] = "direct"

\* "Both sides must agree on the same path": one client goes direct exactly
\* when the other does, whenever the two started and whichever leg was first,
\* as long as no report is lost and nothing is later than the wait makes up
\* for.
PathsAgree == lost = 0 /\ ~late /\ BothDecided => SamePath

\* Even when reports are lost or late a client only goes direct over a connection
\* whose other end the peer has in hand.
DirectHasPeer ==
  \A c \in Client : path[c] = "direct" => result[Peer(c)].direct

\* A connect settles within the direct leg's time, the grace period and the
\* wait for the report, whatever fails.
ConnectsInTime ==
  \A c \in Client :
    phase[c] \notin {"idle", "over"}
      => now <= started[c] + DirectTimeout + Grace + Wait

\* Every connect comes to a decision.
ConnectDecides == \A c \in Client : phase[c] = "racing" ~> path[c] # "none"

\* "when true, skip relay fallback entirely - the call fails if direct P2P
\* doesn't connect": a client started with direct_only is never on the relay.
DirectOnlyNeverRelays ==
  \A c \in DirectOnly : path[c] \notin {"relay", "classic"}

\* "Both sides must agree on the same path", without a condition.
PathsAlwaysAgree == BothDecided => SamePath
=============================================================================
