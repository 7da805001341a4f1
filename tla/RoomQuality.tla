---------------------------- MODULE RoomQuality ----------------------------
(***************************************************************************)
(* The tier of a room (observe_quality in wzp-relay/src/room.rs) and what  *)
(* the clients hear of it.  The relay keeps a controller per participant; *)
(* when a report moves one of them the room's tier becomes the weakest     *)
(* participant's, and a directive goes to everybody.  The directive is     *)
(* computed under the room's lock and sent by the media task afterwards,   *)
(* one participant after the other, so the sends of two tasks interleave.  *)
(*                                                                         *)
(* Of a controller only its tier is kept: it moves as MovesFrom allows,    *)
(* which QualityController shows (TierSteps).                              *)
(***************************************************************************)
EXTENDS Tiers, Sequences, FiniteSets, FiniteSetsExt

CONSTANTS
  Participant,
  MaxMoves,    \* bound: moves of controllers, together
  MaxJoins     \* bound: joins ever made

VARIABLES
  present,    \* participants of the room
  tier,       \* the relay's controller of each
  roomTier,   \* current_tier of the room
  sending,    \* the directive a media task is sending, and to whom still
  inbox,      \* directives on their way to each client
  told,       \* history: the directive a client received last, if any
  overlapped, \* history: two directives were being sent at once
  newcomers,  \* history: who joined a room above Good and has not moved since
  moves, joins

vars == <<present, tier, roomTier, sending, inbox, told, overlapped, newcomers,
          moves, joins>>

NoDirective == [tier |-> Good, to |-> {}]

Init ==
  /\ present = {}
  /\ tier = [p \in Participant |-> Good]
  /\ roomTier = Good
  /\ sending = [p \in Participant |-> NoDirective]
  /\ inbox = [p \in Participant |-> <<>>]
  /\ told = [p \in Participant |-> {}]
  /\ overlapped = FALSE
  /\ newcomers = {}
  /\ moves = 0
  /\ joins = 0

-----------------------------------------------------------------------------
(* The room *)

\* A participant enters with a fresh controller; the tier of a room that
\* exists is not looked at.
Join(p) ==
  /\ p \notin present
  /\ joins < MaxJoins
  /\ joins' = joins + 1
  /\ present' = present \cup {p}
  /\ tier' = [tier EXCEPT ![p] = Good]
  /\ roomTier' = IF present = {} THEN Good ELSE roomTier
  /\ overlapped' = (overlapped /\ present # {})
  /\ newcomers' = IF roomTier' > Good THEN newcomers \cup {p} ELSE newcomers \ {p}
  /\ inbox' = [inbox EXCEPT ![p] = <<>>]
  /\ told' = [told EXCEPT ![p] = {}]
  /\ UNCHANGED <<sending, moves>>

\* A media task leaves when it has sent what it had to send. The room's tier
\* stays, and a directive that is still being sent no longer reaches it.
Leave(p) ==
  /\ p \in present
  /\ sending[p].to = {}
  /\ present' = present \ {p}
  /\ newcomers' = newcomers \ {p}
  /\ sending' = [q \in Participant |-> [sending[q] EXCEPT !.to = @ \ {p}]]
  /\ UNCHANGED <<tier, roomTier, inbox, told, overlapped, moves, joins>>

\* weakest_tier, with p at t.
Weakest(p, t) == Min({tier[q] : q \in present \ {p}} \cup {t})

\* all_senders: the reporter is told too.
AllSenders(p) == present

\* A report of p moves its controller to t. If that changes the weakest tier
\* a directive to all who are present is due.
ObserveQuality(p, t) ==
  LET weakest == Weakest(p, t) IN
  /\ p \in present
  /\ sending[p].to = {}
  /\ moves < MaxMoves
  /\ moves' = moves + 1
  /\ tier' = [tier EXCEPT ![p] = t]
  /\ newcomers' = {}
  /\ roomTier' = weakest
  /\ \/ /\ weakest = roomTier
        /\ UNCHANGED <<sending, overlapped>>
     \/ /\ weakest # roomTier
        /\ sending' = [sending EXCEPT ![p] = [tier |-> weakest, to |-> AllSenders(p)]]
        /\ overlapped' = (overlapped \/ \E q \in Participant : sending[q].to # {})
  /\ UNCHANGED <<present, inbox, told, joins>>

\* broadcast_signal, one participant at a time.
Broadcast(p, q) ==
  /\ q \in sending[p].to
  /\ sending' = [sending EXCEPT ![p].to = @ \ {q}]
  /\ inbox' = [inbox EXCEPT ![q] = Append(@, sending[p].tier)]
  /\ UNCHANGED <<present, tier, roomTier, told, overlapped, newcomers, moves,
                 joins>>

-----------------------------------------------------------------------------
(* A client *)

\* The signal task leaves the directive's profile to the send task.
ReceiveDirective(p) ==
  /\ p \in present /\ inbox[p] # <<>>
  /\ told' = [told EXCEPT ![p] = {Head(inbox[p])}]
  /\ inbox' = [inbox EXCEPT ![p] = Tail(@)]
  /\ UNCHANGED <<present, tier, roomTier, sending, overlapped, newcomers, moves,
                 joins>>

-----------------------------------------------------------------------------
Next ==
  \E p \in Participant :
    \/ Join(p) \/ Leave(p)
    \/ \E t \in MovesFrom(tier[p]) : ObserveQuality(p, t)
    \/ \E q \in Participant : Broadcast(p, q)
    \/ ReceiveDirective(p)

Spec == Init /\ [][Next]_vars

-----------------------------------------------------------------------------
(* Properties *)

\* The state has its type.
TypeOK ==
  /\ present \subseteq Participant
  /\ tier \in [Participant -> Tier]
  /\ roomTier \in Tier
  /\ sending \in [Participant -> [tier : Tier, to : SUBSET Participant]]
  /\ inbox \in [Participant -> Seq(Tier)]
  /\ told \in [Participant -> SUBSET Tier]
  /\ overlapped \in BOOLEAN
  /\ newcomers \subseteq Participant
  /\ moves \in 0..MaxMoves
  /\ joins \in 0..MaxJoins

\* The room never runs above a participant's tier, however participants
\* come, go and move, except for one who entered a room above Good at Good
\* while nobody has moved since.
RoomNotAboveWeakest ==
  \A p \in present : roomTier <= tier[p] \/ p \in newcomers

\* Nothing is under way at the relay.
Settled ==
  \A p \in Participant : sending[p].to = {} /\ (p \in present => inbox[p] = <<>>)

\* When directives have been sent one after the other, everybody who heard
\* one heard the room's tier last.
DirectivesInOrder ==
  Settled /\ ~overlapped =>
    \A p \in present : told[p] # {} => told[p] = {roomTier}

\* "Triggered on tier change": once things settle everybody who heard a
\* directive heard the room's tier last.
DirectivesAgree ==
  Settled => \A p \in present : told[p] # {} => told[p] = {roomTier}
=============================================================================
