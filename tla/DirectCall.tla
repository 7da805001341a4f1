------------------------------ MODULE DirectCall ------------------------------
(***************************************************************************)
(* Direct calls over the relays' `_signal` connections: the SignalHub, the *)
(* CallRegistry, the signal task main.rs runs for every client connection  *)
(* and the dispatcher task that handles what federation peers forward.     *)
(*                                                                         *)
(* A handler takes the hub's and the registry's locks one after the other  *)
(* and awaits network sends in between, so it is one action per lock: its  *)
(* place in the handler is pc, the call it works on is job.  A client has  *)
(* one home relay, so one hub function serves for the hubs of all relays.  *)
(* A client mints a call id once (a timestamp), so a call is offered once. *)
(***************************************************************************)
EXTENDS Naturals, FiniteSets

CONSTANTS
  Relay,     \* federated relays
  NoRelay,   \* peer_relay_fp: None
  Fp,        \* client fingerprints
  Home,      \* the relay each client registers with
  Conn,      \* signal connections
  NoConn,    \* not in the hub
  ConnFp,    \* client_fp of each connection
  Call,      \* call ids
  NoCall,
  Caller,    \* who offers each call
  Callee,    \* its target_fingerprint
  LossyLinks, \* a send over a federation link may fail
  OldClients  \* clients that send a Hangup without a call_id

ASSUME RelayAssumption == NoRelay \notin Relay /\ Home \in [Fp -> Relay]
ASSUME ConnectionAssumption == NoConn \notin Conn /\ ConnFp \in [Conn -> Fp]
ASSUME CallAssumption ==
  /\ NoCall \notin Call
  /\ Caller \in [Call -> Fp]
  /\ Callee \in [Call -> Fp]
ASSUME FlagAssumption == LossyLinks \in BOOLEAN /\ OldClients \subseteq Fp

VARIABLES
  pc,        \* where each signal task is
  job,       \* the call its handler works on
  todo,      \* the calls its hangup or cleanup loop has left
  route,     \* peer_relay_fp as the answer handler read it
  hub,       \* SignalHub.clients
  presence,  \* PresenceRegistry.local
  reg,       \* CallRegistry.calls of each relay: the state of each call
  via,       \* DirectCall.peer_relay_fp in each relay's registry
  wire,      \* forwarded signals on their way to a dispatcher
  dpc,       \* where each dispatcher task is
  dmsg,      \* the signal it handles
  choice,    \* what the two clients did with each call id
  view       \* what each connection's client last heard of each call

vars == <<pc, job, todo, route, hub, presence, reg, via, wire, dpc, dmsg,
          choice, view>>
locals == <<job, todo, route>>
dispatcher == <<dpc, dmsg>>

PC == {"new", "presence", "listening", "creating", "offering", "routing",
       "stashing", "ringback", "rejecting", "rejected", "accepting",
       "answering", "setup", "hangSend", "hangEnd", "closeSend", "closeEnd",
       "unregister", "unpresence", "done"}
CallState == {"none", "Pending", "Active"}
Message == [to : Relay, from : Relay, kind : {"offer", "answer", "hangup"},
            call : Call]
View == {"none", "offer", "ringing", "answer", "setup", "over"}

Goto(c, l) == pc' = [pc EXCEPT ![c] = l]
RelayOf(c) == Home[ConnFp[c]]
Local(k) == Home[Caller[k]] = Home[Callee[k]]
Peer(k, f) == IF Caller[k] = f THEN Callee[k] ELSE Caller[k]

\* SignalHub::is_online at relay r
Online(r, f) == Home[f] = r /\ hub[f] # NoConn

\* CallRegistry::calls_for_fingerprint
CallsOf(r, f) ==
  {k \in Call : reg[r][k] # "none" /\ f \in {Caller[k], Callee[k]}}

\* SignalHub::send_to at relay r: the clients of to that are in the hub hear m
\* about call k, the others nothing.
SendTo(r, k, to, m) ==
  view' = [c \in Conn |-> [view[c] EXCEPT ![k] =
            IF \E f \in to : Online(r, f) /\ hub[f] = c THEN m ELSE @]]

\* send_signal on the task's own transport
Reply(c, k, m) == view' = [view EXCEPT ![c][k] = m]

\* FederationManager::send_signal_to_peer
Forward(c, r, kind, k) ==
  \/ wire' = wire \cup {[to |-> r, from |-> RelayOf(c), kind |-> kind,
                         call |-> k]}
  \/ LossyLinks /\ UNCHANGED wire

SetReg(r, k, s) == reg' = [reg EXCEPT ![r][k] = s]

Init ==
  /\ pc = [c \in Conn |-> "new"]
  /\ job = [c \in Conn |-> NoCall]
  /\ todo = [c \in Conn |-> {}]
  /\ route = [c \in Conn |-> NoRelay]
  /\ hub = [f \in Fp |-> NoConn]
  /\ presence = {}
  /\ reg = [r \in Relay |-> [k \in Call |-> "none"]]
  /\ via = [r \in Relay |-> [k \in Call |-> NoRelay]]
  /\ wire = {}
  /\ dpc = [r \in Relay |-> "idle"]
  /\ dmsg = [r \in Relay |-> {}]
  /\ choice = [k \in Call |-> "unused"]
  /\ view = [c \in Conn |-> [k \in Call |-> "none"]]

-----------------------------------------------------------------------------
(* Registration *)

\* SignalHub::register: whatever connection the client had is overwritten.
Register(c) ==
  /\ pc[c] = "new"
  /\ hub' = [hub EXCEPT ![ConnFp[c]] = c]
  /\ Goto(c, "presence")
  /\ UNCHANGED <<locals, presence, reg, via, wire, dispatcher, choice, view>>

RegisterPresence(c) ==
  /\ pc[c] = "presence"
  /\ presence' = presence \cup {ConnFp[c]}
  /\ Goto(c, "listening")
  /\ UNCHANGED <<locals, hub, reg, via, wire, dispatcher, choice, view>>

-----------------------------------------------------------------------------
(* DirectCallOffer *)

\* The client dials: is the target in this relay's hub?
RecvOffer(c, k) ==
  /\ pc[c] = "listening"
  /\ Caller[k] = ConnFp[c]
  /\ choice[k] = "unused"
  /\ choice' = [choice EXCEPT ![k] = "dialled"]
  /\ job' = [job EXCEPT ![c] = k]
  /\ Goto(c, IF Online(RelayOf(c), Callee[k]) THEN "creating" ELSE "routing")
  /\ UNCHANGED <<todo, route, hub, presence, reg, via, wire, dispatcher, view>>

CreateCall(c) ==
  /\ pc[c] = "creating"
  /\ SetReg(RelayOf(c), job[c], "Pending")
  /\ via' = [via EXCEPT ![RelayOf(c)][job[c]] = NoRelay]
  /\ Goto(c, "offering")
  /\ UNCHANGED <<locals, hub, presence, wire, dispatcher, choice, view>>

ForwardOffer(c) ==
  /\ pc[c] = "offering"
  /\ SendTo(RelayOf(c), job[c], {Callee[job[c]]}, "offer")
  /\ Goto(c, "ringback")
  /\ UNCHANGED <<locals, hub, presence, reg, via, wire, dispatcher, choice>>

\* The target is not here: broadcast_signal to every peer relay. With no peer
\* reached the caller gets a Hangup.
BroadcastOffer(c) ==
  LET k == job[c]
      peers == Relay \ {RelayOf(c)}
  IN  /\ pc[c] = "routing"
      /\ \/ \E reached \in IF LossyLinks THEN SUBSET peers \ {{}}
                                         ELSE {peers} \ {{}} :
              /\ wire' = wire \cup
                   {[to |-> r, from |-> RelayOf(c), kind |-> "offer",
                     call |-> k] : r \in reached}
              /\ Goto(c, "stashing")
              /\ UNCHANGED <<job, view>>
         \/ /\ LossyLinks \/ peers = {}
            /\ Reply(c, k, "over")
            /\ job' = [job EXCEPT ![c] = NoCall]
            /\ Goto(c, "listening")
            /\ UNCHANGED wire
      /\ UNCHANGED <<todo, route, hub, presence, reg, via, dispatcher, choice>>

\* Only after the broadcast is the call put in this relay's registry.
StashCall(c) ==
  /\ pc[c] = "stashing"
  /\ SetReg(RelayOf(c), job[c], "Pending")
  /\ via' = [via EXCEPT ![RelayOf(c)][job[c]] = NoRelay]
  /\ Goto(c, "ringback")
  /\ UNCHANGED <<locals, hub, presence, wire, dispatcher, choice, view>>

RingBack(c) ==
  /\ pc[c] = "ringback"
  /\ Reply(c, job[c], "ringing")
  /\ job' = [job EXCEPT ![c] = NoCall]
  /\ Goto(c, "listening")
  /\ UNCHANGED <<todo, route, hub, presence, reg, via, wire, dispatcher,
                 choice>>

-----------------------------------------------------------------------------
(* DirectCallAnswer *)

\* The client of c was shown an offer for k, on this connection or before.
Offered(c, k) ==
  /\ Callee[k] = ConnFp[c]
  /\ \E d \in Conn : ConnFp[d] = ConnFp[c] /\ view[d][k] # "none"

\* The client answers once. An answer for a call the registry does not know is
\* dropped; otherwise peer_relay_fp is read along with the peer.
RecvAnswer(c, k, mode) ==
  LET r == RelayOf(c)
  IN  /\ pc[c] = "listening"
      /\ choice[k] = "dialled"
      /\ Offered(c, k)
      /\ choice' = [choice EXCEPT ![k] = mode]
      /\ \/ /\ reg[r][k] = "none"
            /\ UNCHANGED <<pc, job, route>>
         \/ /\ reg[r][k] # "none"
            /\ job' = [job EXCEPT ![c] = k]
            /\ route' = [route EXCEPT ![c] = via[r][k]]
            /\ Goto(c, IF mode = "Reject" THEN "rejecting" ELSE "accepting")
      /\ UNCHANGED <<todo, hub, presence, reg, via, wire, dispatcher, view>>

RejectAccepts(c) ==
  /\ pc[c] = "rejecting"
  /\ SetReg(RelayOf(c), job[c],
            IF reg[RelayOf(c)][job[c]] = "Pending" THEN "Active" ELSE "none")
  /\ Goto(c, "answering")
  /\ UNCHANGED <<locals, hub, presence, via, wire, dispatcher, choice, view>>

EndRejected(c) ==
  /\ pc[c] = "rejecting"
  /\ SetReg(RelayOf(c), job[c], "none")
  /\ Goto(c, "rejected")
  /\ UNCHANGED <<locals, hub, presence, via, wire, dispatcher, choice, view>>

\* The Hangup for the caller, through the hub or the link the offer came by.
ReportReject(c) ==
  LET k == job[c]
  IN  /\ pc[c] = "rejected"
      /\ \/ /\ route[c] = NoRelay
            /\ SendTo(RelayOf(c), k, {Caller[k]}, "over")
            /\ UNCHANGED wire
         \/ /\ route[c] # NoRelay
            /\ Forward(c, route[c], "hangup", k)
            /\ UNCHANGED view
      /\ job' = [job EXCEPT ![c] = NoCall]
      /\ route' = [route EXCEPT ![c] = NoRelay]
      /\ Goto(c, "listening")
      /\ UNCHANGED <<todo, hub, presence, reg, via, dispatcher, choice>>

\* Mutant: set_active enters a call that is gone.
SetActiveAnyway(r, k) == SetReg(r, k, "Active")

\* CallRegistry::set_active does nothing to a call that is gone by now or was
\* already active, and the handler goes on in either case.
SetActive(r, k) ==
  SetReg(r, k, IF reg[r][k] = "Pending" THEN "Active" ELSE reg[r][k])

Accept(c) ==
  /\ pc[c] = "accepting"
  /\ SetActive(RelayOf(c), job[c])
  /\ Goto(c, "answering")
  /\ UNCHANGED <<locals, hub, presence, via, wire, dispatcher, choice, view>>

ForwardAnswer(c) ==
  LET k == job[c]
  IN  /\ pc[c] = "answering"
      /\ \/ /\ route[c] = NoRelay
            /\ SendTo(RelayOf(c), k, {Caller[k]}, "answer")
            /\ UNCHANGED wire
         \/ /\ route[c] # NoRelay
            /\ Forward(c, route[c], "answer", k)
            /\ UNCHANGED view
      /\ Goto(c, "setup")
      /\ UNCHANGED <<locals, hub, presence, reg, via, dispatcher, choice>>

SendSetupToCallee(c) ==
  LET k == job[c]
  IN  /\ pc[c] = "setup"
      /\ SendTo(RelayOf(c), k, {Callee[k]}, "setup")
      /\ job' = [job EXCEPT ![c] = NoCall]
      /\ route' = [route EXCEPT ![c] = NoRelay]
      /\ Goto(c, "listening")
      /\ UNCHANGED <<todo, hub, presence, reg, via, wire, dispatcher, choice>>

\* CallSetup to both parties, or to the local callee of a cross-relay call.
SendSetup(c) ==
  LET k == job[c]
      local == IF route[c] = NoRelay THEN {Caller[k]} ELSE {}
  IN  /\ pc[c] = "setup"
      /\ SendTo(RelayOf(c), k, local \cup {ConnFp[c]}, "setup")
      /\ job' = [job EXCEPT ![c] = NoCall]
      /\ route' = [route EXCEPT ![c] = NoRelay]
      /\ Goto(c, "listening")
      /\ UNCHANGED <<todo, hub, presence, reg, via, wire, dispatcher, choice>>

-----------------------------------------------------------------------------
(* Hangup and the end of the connection: both tell the peer of each call in  *)
(* todo and end it, one call after the other.                                *)

\* Hangup with a call_id names one call, an old client's all of its calls.
RecvHangup(c) ==
  LET mine == CallsOf(RelayOf(c), ConnFp[c])
      known == {k \in mine : Caller[k] = ConnFp[c] \/ Offered(c, k)}
  IN  /\ pc[c] = "listening"
      /\ \E S \in {{k} : k \in known}
                   \cup (IF ConnFp[c] \in OldClients THEN {mine} \ {{}}
                                                   ELSE {}) :
           /\ todo' = [todo EXCEPT ![c] = S]
           /\ view' = [d \in Conn |-> [k \in Call |->
                IF ConnFp[d] = ConnFp[c] /\ k \in S THEN "over"
                                                   ELSE view[d][k]]]
      /\ Goto(c, "hangSend")
      /\ UNCHANGED <<job, route, hub, presence, reg, via, wire, dispatcher,
                     choice>>

DisconnectEndsActive(c) ==
  LET mine == {k \in CallsOf(RelayOf(c), ConnFp[c]) :
                 reg[RelayOf(c)][k] = "Active"}
  IN  /\ pc[c] = "listening"
      /\ todo' = [todo EXCEPT ![c] = mine]
      /\ Goto(c, IF mine = {} THEN "unregister" ELSE "closeSend")
      /\ UNCHANGED <<job, route, hub, presence, reg, via, wire, dispatcher,
                     choice, view>>

\* recv_signal ended: the cleanup lists the client's calls.
Disconnect(c) ==
  LET mine == CallsOf(RelayOf(c), ConnFp[c])
  IN  /\ pc[c] = "listening"
      /\ todo' = [todo EXCEPT ![c] = mine]
      /\ Goto(c, IF mine = {} THEN "unregister" ELSE "closeSend")
      /\ UNCHANGED <<job, route, hub, presence, reg, via, wire, dispatcher,
                     choice, view>>

SilentHangup(c) ==
  /\ pc[c] \in {"hangSend", "closeSend"}
  /\ \E k \in todo[c] : job' = [job EXCEPT ![c] = k]
  /\ Goto(c, IF pc[c] = "hangSend" THEN "hangEnd" ELSE "closeEnd")
  /\ UNCHANGED <<todo, route, hub, presence, reg, via, wire, dispatcher,
                 choice, view>>

\* Through this relay's hub only: a peer on another relay hears nothing.
SendHangup(c) ==
  /\ pc[c] \in {"hangSend", "closeSend"}
  /\ \E k \in todo[c] :
       /\ job' = [job EXCEPT ![c] = k]
       /\ SendTo(RelayOf(c), k, {Peer(k, ConnFp[c])}, "over")
  /\ Goto(c, IF pc[c] = "hangSend" THEN "hangEnd" ELSE "closeEnd")
  /\ UNCHANGED <<todo, route, hub, presence, reg, via, wire, dispatcher,
                 choice>>

EndCall(c) ==
  LET rest == todo[c] \ {job[c]}
  IN  /\ pc[c] \in {"hangEnd", "closeEnd"}
      /\ SetReg(RelayOf(c), job[c], "none")
      /\ todo' = [todo EXCEPT ![c] = rest]
      /\ job' = [job EXCEPT ![c] = NoCall]
      /\ Goto(c, CASE pc[c] = "hangEnd" /\ rest # {} -> "hangSend"
                   [] pc[c] = "hangEnd" /\ rest = {} -> "listening"
                   [] pc[c] = "closeEnd" /\ rest # {} -> "closeSend"
                   [] OTHER -> "unregister")
      /\ UNCHANGED <<route, hub, presence, via, wire, dispatcher, choice,
                     view>>

UnregisterPresenceOnly(c) ==
  /\ pc[c] = "unregister"
  /\ Goto(c, "unpresence")
  /\ UNCHANGED <<locals, hub, presence, reg, via, wire, dispatcher, choice,
                 view>>

\* SignalHub::unregister goes by fingerprint: it removes the client's entry
\* whichever of its connections put it there.
Unregister(c) ==
  /\ pc[c] = "unregister"
  /\ hub' = [hub EXCEPT ![ConnFp[c]] = NoConn]
  /\ Goto(c, "unpresence")
  /\ UNCHANGED <<locals, presence, reg, via, wire, dispatcher, choice, view>>

UnregisterPresence(c) ==
  /\ pc[c] = "unpresence"
  /\ presence' = presence \ {ConnFp[c]}
  /\ Goto(c, "done")
  /\ UNCHANGED <<locals, hub, reg, via, wire, dispatcher, choice, view>>

-----------------------------------------------------------------------------
(* The cross-relay dispatcher *)

DGoto(r, l) == dpc' = [dpc EXCEPT ![r] = l]
task == <<pc, job, todo, route, hub, presence, choice>>

\* Take the next forwarded signal. An offer for a client of another relay, an
\* answer to a call the registry does not have and every Hangup end here.
Dispatch(r) ==
  /\ dpc[r] = "idle"
  /\ \E m \in wire :
       /\ m.to = r
       /\ wire' = wire \ {m}
       /\ LET next == CASE m.kind = "offer" /\ Online(r, Callee[m.call])
                             -> "create"
                        [] m.kind = "answer" /\ reg[r][m.call] # "none"
                             -> "activate"
                        [] OTHER -> "idle"
          IN  /\ DGoto(r, next)
              /\ dmsg' = [dmsg EXCEPT ![r] = IF next = "idle" THEN {} ELSE {m}]
  /\ UNCHANGED <<task, reg, via, view>>

\* The offer's call, with the relay it came from, in this relay's registry.
DispatchCreate(r) ==
  /\ dpc[r] = "create"
  /\ \E m \in dmsg[r] :
       /\ SetReg(r, m.call, "Pending")
       /\ via' = [via EXCEPT ![r][m.call] = m.from]
  /\ DGoto(r, "deliver")
  /\ UNCHANGED <<task, wire, dmsg, view>>

DispatchOffer(r) ==
  /\ dpc[r] = "deliver"
  /\ \E m \in dmsg[r] : SendTo(r, m.call, {Callee[m.call]}, "offer")
  /\ DGoto(r, "idle")
  /\ dmsg' = [dmsg EXCEPT ![r] = {}]
  /\ UNCHANGED <<task, reg, via, wire>>

DispatchActivateUnrouted(r) ==
  /\ dpc[r] = "activate"
  /\ \E m \in dmsg[r] : SetActive(r, m.call)
  /\ DGoto(r, "answer")
  /\ UNCHANGED <<task, via, wire, dmsg, view>>

\* set_peer_relay_fp does nothing to a call that is gone.
DispatchActivate(r) ==
  /\ dpc[r] = "activate"
  /\ \E m \in dmsg[r] :
       /\ SetActive(r, m.call)
       /\ via' = [via EXCEPT ![r][m.call] =
                    IF reg[r][m.call] = "none" THEN @ ELSE m.from]
  /\ DGoto(r, "answer")
  /\ UNCHANGED <<task, wire, dmsg, view>>

DispatchAnswer(r) ==
  /\ dpc[r] = "answer"
  /\ \E m \in dmsg[r] : SendTo(r, m.call, {Caller[m.call]}, "answer")
  /\ DGoto(r, "connect")
  /\ UNCHANGED <<task, reg, via, wire, dmsg>>

\* The CallSetup, to the local caller.
DispatchSetup(r) ==
  /\ dpc[r] = "connect"
  /\ \E m \in dmsg[r] : SendTo(r, m.call, {Caller[m.call]}, "setup")
  /\ DGoto(r, "idle")
  /\ dmsg' = [dmsg EXCEPT ![r] = {}]
  /\ UNCHANGED <<task, reg, via, wire>>

-----------------------------------------------------------------------------
\* What the relay's runtime carries on by itself.
Continue(c) ==
  \/ RegisterPresence(c)
  \/ CreateCall(c) \/ ForwardOffer(c) \/ BroadcastOffer(c) \/ StashCall(c)
  \/ RingBack(c)
  \/ EndRejected(c) \/ ReportReject(c)
  \/ Accept(c) \/ ForwardAnswer(c) \/ SendSetup(c)
  \/ SendHangup(c) \/ EndCall(c)
  \/ Unregister(c) \/ UnregisterPresence(c)

Dispatcher(r) ==
  \/ Dispatch(r) \/ DispatchCreate(r) \/ DispatchOffer(r)
  \/ DispatchActivate(r) \/ DispatchAnswer(r) \/ DispatchSetup(r)

Client(c) ==
  \/ Register(c) \/ RecvHangup(c) \/ Disconnect(c)
  \/ \E k \in Call :
       \/ RecvOffer(c, k)
       \/ \E mode \in {"Accept", "Reject"} : RecvAnswer(c, k, mode)

\* Every connection the bound allows has come and gone.
AllDone ==
  /\ \A c \in Conn : pc[c] = "done"
  /\ UNCHANGED vars

Next ==
  \/ \E c \in Conn : Continue(c) \/ Client(c)
  \/ \E r \in Relay : Dispatcher(r)
  \/ AllDone

Spec == Init /\ [][Next]_vars

\* The tasks run; nothing makes a client dial, answer, hang up or leave.
FairSpec ==
  /\ Spec
  /\ \A c \in Conn : WF_vars(Continue(c))
  /\ \A r \in Relay : WF_vars(Dispatcher(r))

-----------------------------------------------------------------------------
(* Properties *)

\* The variables hold what the relays' data structures can hold.
TypeOK ==
  /\ pc \in [Conn -> PC]
  /\ job \in [Conn -> Call \cup {NoCall}]
  /\ todo \in [Conn -> SUBSET Call]
  /\ route \in [Conn -> Relay \cup {NoRelay}]
  /\ hub \in [Fp -> Conn \cup {NoConn}]
  /\ presence \subseteq Fp
  /\ reg \in [Relay -> [Call -> CallState]]
  /\ via \in [Relay -> [Call -> Relay \cup {NoRelay}]]
  /\ wire \subseteq Message
  /\ dpc \in [Relay -> {"idle", "create", "deliver", "activate", "answer",
                       "connect"}]
  /\ dmsg \in [Relay -> SUBSET Message]
  /\ choice \in [Call -> {"unused", "dialled", "Accept", "Reject"}]
  /\ view \in [Conn -> [Call -> View]]

\* What SignalHub::send_to finds under a fingerprint is a connection of that
\* client whose task has not finished its cleanup, however many connections of
\* the client came and went and in whatever order they cleaned up: no signal
\* is routed to a connection that nobody serves any more.
HubEntriesServed ==
  \A f \in Fp : hub[f] # NoConn =>
    ConnFp[hub[f]] = f /\ pc[hub[f]] \notin {"new", "unpresence", "done"}

\* A task that will still find call k among its client's calls and end it.
WillEnd(c, k) ==
  \/ pc[c] \in PC \ {"new", "closeSend", "closeEnd", "unregister",
                      "unpresence", "done"}
  \/ pc[c] \in {"closeSend", "closeEnd"} /\ k \in todo[c]

\* The registry has no timeout (expire_stale is never called), so a call must
\* have someone to end it: a call in the registry of its caller's relay has a
\* connection of the caller whose cleanup is still to come or still has it on
\* its list, even if the callee vanished between is_online and create_call.
CallsHaveAnEnder ==
  \A k \in Call : reg[Home[Caller[k]]][k] # "none" =>
    \E c \in Conn : ConnFp[c] = Caller[k] /\ WillEnd(c, k)

\* A rejected call never connects: neither party is sent a CallSetup and no
\* registry, at the caller's relay or the callee's, has it active, so the
\* call room's ACL lets no one in on its account.
RejectedNeverConnects ==
  \A k \in Call : choice[k] = "Reject" =>
    /\ \A r \in Relay : reg[r][k] # "Active"
    /\ \A c \in Conn : view[c][k] # "setup"

\* An active call is known to the relays of its two parties only, and each end
\* of a cross-relay call has peer_relay_fp pointing at the other party's relay,
\* which is where every later signal of the call is sent.
ActiveCallsRouted ==
  \A r \in Relay, k \in Call :
    reg[r][k] = "Active" =>
      /\ r \in {Home[Caller[k]], Home[Callee[k]]}
      /\ IF Local(k) THEN via[r][k] = NoRelay
         ELSE via[r][k] = IF r = Home[Caller[k]] THEN Home[Callee[k]]
                                                 ELSE Home[Caller[k]]

\* Nobody rings for a call that is over: when a call on one relay has ended, a
\* callee that was shown its offer, has not answered and still has that
\* connection in the hub gets to hear of it (the hangup and cleanup loops).
\* Two races make it fail and are left out: a callee that hangs up without
\* naming a call, and a party with a second connection whose cleanup ends the
\* call; each can end a call between create_call and the delivery of its offer.
RingingStops ==
  \A k \in Call, c \in Conn :
    /\ Local(k)
    /\ Callee[k] \notin OldClients
    /\ \A a, b \in Conn :
         ConnFp[a] = ConnFp[b] /\ ConnFp[a] \in {Caller[k], Callee[k]} => a = b
    => (view[c][k] = "offer" /\ hub[Callee[k]] = c /\ reg[RelayOf(c)][k] = "none"
        ~> \/ view[c][k] # "offer"
           \/ hub[Callee[k]] # c
           \/ choice[k] # "dialled")

\* Accepting a call on one relay gets its caller a CallSetup, unless somebody
\* ended the call or the caller left.
AcceptConnects ==
  \A k \in Call :
    Local(k) => ((\E c \in Conn : pc[c] = "accepting" /\ job[c] = k)
                 ~> \/ reg[Home[Caller[k]]][k] = "none"
                    \/ hub[Caller[k]] = NoConn
                    \/ \E c \in Conn :
                         ConnFp[c] = Caller[k] /\ view[c][k] = "setup")

-----------------------------------------------------------------------------
(* What holds CallsHaveAnEnder and the types together *)

\* A task in the middle of a handler has the handler's call at hand, and the
\* one that is about to register a call is its caller's.
JobsNamed ==
  \A c \in Conn :
    /\ pc[c] \in {"creating", "offering", "routing", "stashing", "ringback",
                  "rejecting", "rejected", "accepting", "answering", "setup",
                  "hangEnd", "closeEnd"} => job[c] \in Call
    /\ pc[c] \in {"creating", "routing", "stashing"} => Caller[job[c]] = ConnFp[c]

\* A forwarded offer is never on its way to its caller's own relay.
OffersTravel ==
  /\ \A m \in wire : m.kind = "offer" => m.to # Home[Caller[m.call]]
  /\ \A r \in Relay : \A m \in dmsg[r] :
       dpc[r] = "create" => r # Home[Caller[m.call]]

Inv == TypeOK /\ HubEntriesServed /\ JobsNamed /\ OffersTravel
         /\ CallsHaveAnEnder

-----------------------------------------------------------------------------
(* The life of a call *)

\* A task that has yet to enter the call it was asked to offer.
Entering == {"creating", "routing", "stashing"}

\* An offer of k is on its way to relay r, or in its dispatcher's hands.
OfferOnWire(r, k) ==
  \E m \in wire : m.kind = "offer" /\ m.call = k /\ m.to = r
OfferInHand(r, k) == dpc[r] = "create" /\ \E m \in dmsg[r] : m.call = k

\* Relay r may still come to enter call k: nobody has dialled it yet, or the
\* caller's task has not come to it, or the offer is coming.
MayCome(r, k) ==
  \/ choice[k] = "unused"
  \/ \E c \in Conn :
       /\ job[c] = k /\ pc[c] \in Entering
       /\ r # Home[Caller[k]] => pc[c] = "routing"
  \/ OfferOnWire(r, k) \/ OfferInHand(r, k)

Entry ==
  [r \in Relay |-> [k \in Call |->
    IF reg[r][k] # "none" THEN reg[r][k]
    ELSE IF MayCome(r, k) THEN "expected" ELSE "over"]]

Life == INSTANCE CallLife WITH entry <- Entry

\* A call has one life: no relay enters it twice or brings it back after its
\* end, though each locks the registry for every single access and a hangup, a
\* closed connection, a late answer and a forwarded offer may fall between any
\* two of them.  The room manager admits the call's parties by these entries.
ImplementsCallLife == Life!Spec

-----------------------------------------------------------------------------
(* What the repository's comments say, and the code does not do *)

\* "Tracks clients connected via `_signal` SNI": a client whose only remaining
\* connection is registered and served is in the hub.
ConnectedIsOnline ==
  \A c \in Conn :
    /\ pc[c] = "listening"
    /\ \A d \in Conn \ {c} : ConnFp[d] = ConnFp[c] => pc[d] \in {"new", "done"}
    => hub[ConnFp[c]] = c

\* "Hangup - forward to the local participant(s)": a call its callee rejected
\* ends at the caller's relay too.
RejectReachesCaller ==
  \A k \in Call :
    choice[k] = "Reject" ~> reg[Home[Caller[k]]][k] = "none"

=============================================================================
