--------------------------- MODULE DirectCallProofs ---------------------------
(* Proofs about DirectCall, for any relays, clients, connections and calls.   *)
EXTENDS DirectCall, TLAPS

\* A step is one of a signal task, of its client, of a dispatcher, or nothing.
LEMMA NextCases ==
  ASSUME [Next]_vars
  PROVE  \/ \E c \in Conn : Continue(c)
         \/ \E c \in Conn : Client(c)
         \/ \E r \in Relay : Dispatcher(r)
         \/ UNCHANGED vars
  BY DEF Next, AllDone

\* SignalHub::send_to only changes what connections last heard.
LEMMA SendToType ==
  ASSUME view \in [Conn -> [Call -> View]],
         NEW r, NEW k, NEW to, NEW m \in View, SendTo(r, k, to, m)
  PROVE  view' \in [Conn -> [Call -> View]]
<1>1. \A c \in Conn :
        [view[c] EXCEPT ![k] = IF \E f \in to : Online(r, f) /\ hub[f] = c
                               THEN m ELSE view[c][k]] \in [Call -> View]
  OBVIOUS
<1> QED
  BY <1>1 DEF SendTo

-----------------------------------------------------------------------------
\* Every step keeps the types, given that a handler has its call at hand.
LEMMA TypeStep ==
  ASSUME TypeOK, JobsNamed, [Next]_vars
  PROVE  TypeOK'
<1> USE RelayAssumption, ConnectionAssumption, CallAssumption
        DEF TypeOK, JobsNamed, PC, CallState, Message, View, Goto, DGoto, locals, dispatcher, task, RelayOf
<1>1. CASE UNCHANGED vars
  BY <1>1 DEF vars
<1>2. ASSUME NEW c \in Conn, Continue(c)
      PROVE  TypeOK'
  <2>1. CASE RegisterPresence(c)
    BY <2>1 DEF RegisterPresence
  <2>2. CASE CreateCall(c)
    BY <2>2 DEF CreateCall, SetReg
  <2>3. CASE ForwardOffer(c)
    BY <2>3 DEF ForwardOffer, SendTo
  <2>4. CASE BroadcastOffer(c)
    <3>1. job[c] \in Call /\ RelayOf(c) \in Relay
      BY <2>4 DEF BroadcastOffer
    <3>2. wire' \subseteq Message
      <4>1. \A r \in Relay : [to |-> r, from |-> RelayOf(c), kind |-> "offer",
                              call |-> job[c]] \in Message
        BY <3>1
      <4>2. CASE wire' = wire
        BY <4>2
      <4>3. ASSUME NEW S \in SUBSET Relay,
                   wire' = wire \cup {[to |-> r, from |-> RelayOf(c),
                             kind |-> "offer", call |-> job[c]] : r \in S}
            PROVE  wire' \subseteq Message
        BY <4>1, <4>3
      <4> QED
        BY <2>4, <4>2, <4>3 DEF BroadcastOffer
    <3>3. \/ /\ view' = view /\ job' = job
             /\ pc' = [pc EXCEPT ![c] = "stashing"]
          \/ /\ view' = [view EXCEPT ![c][job[c]] = "over"]
             /\ job' = [job EXCEPT ![c] = NoCall]
             /\ pc' = [pc EXCEPT ![c] = "listening"]
      BY <2>4 DEF BroadcastOffer, Reply
    <3>4. view' \in [Conn -> [Call -> View]]
      <4>1. CASE view' = view
        BY <4>1
      <4>2. CASE view' = [view EXCEPT ![c][job[c]] = "over"]
        BY <4>2
      <4> QED
        BY <3>3, <4>1, <4>2
    <3>5. pc' \in [Conn -> PC] /\ job' \in [Conn -> Call \cup {NoCall}]
      <4>1. CASE job' = job /\ pc' = [pc EXCEPT ![c] = "stashing"]
        BY <4>1
      <4>2. CASE /\ job' = [job EXCEPT ![c] = NoCall]
                 /\ pc' = [pc EXCEPT ![c] = "listening"]
        BY <4>2
      <4> QED
        BY <3>3, <4>1, <4>2
    <3> QED
      BY <2>4, <3>2, <3>4, <3>5 DEF BroadcastOffer
  <2>5. CASE StashCall(c)
    BY <2>5 DEF StashCall, SetReg
  <2>6. CASE RingBack(c)
    BY <2>6 DEF RingBack, Reply
  <2>7. CASE EndRejected(c)
    BY <2>7 DEF EndRejected, SetReg
  <2>8. CASE ReportReject(c)
    <3>1. job[c] \in Call /\ RelayOf(c) \in Relay
      BY <2>8 DEF ReportReject
    <3>2. wire' \subseteq Message
      BY <2>8, <3>1 DEF ReportReject, Forward
    <3>3. view' \in [Conn -> [Call -> View]]
      <4>1. \/ view' = view
            \/ SendTo(RelayOf(c), job[c], {Caller[job[c]]}, "over")
        BY <2>8 DEF ReportReject
      <4>2. CASE view' = view
        BY <4>2
      <4>3. CASE SendTo(RelayOf(c), job[c], {Caller[job[c]]}, "over")
        BY <4>3, SendToType
      <4> QED
        BY <4>1, <4>2, <4>3
    <3>4. /\ pc' \in [Conn -> PC] /\ job' \in [Conn -> Call \cup {NoCall}]
          /\ route' \in [Conn -> Relay \cup {NoRelay}]
      BY <2>8 DEF ReportReject
    <3> QED
      BY <2>8, <3>2, <3>3, <3>4 DEF ReportReject
  <2>9. CASE Accept(c)
    BY <2>9 DEF Accept, SetReg, SetActive
  <2>10. CASE ForwardAnswer(c)
    <3>1. job[c] \in Call /\ RelayOf(c) \in Relay
      BY <2>10 DEF ForwardAnswer
    <3>2. wire' \subseteq Message
      BY <2>10, <3>1 DEF ForwardAnswer, Forward
    <3>3. view' \in [Conn -> [Call -> View]]
      <4>1. \/ view' = view
            \/ SendTo(RelayOf(c), job[c], {Caller[job[c]]}, "answer")
        BY <2>10 DEF ForwardAnswer
      <4>2. CASE view' = view
        BY <4>2
      <4>3. CASE SendTo(RelayOf(c), job[c], {Caller[job[c]]}, "answer")
        BY <4>3, SendToType
      <4> QED
        BY <4>1, <4>2, <4>3
    <3>4. /\ pc' \in [Conn -> PC] /\ job' \in [Conn -> Call \cup {NoCall}]
          /\ route' \in [Conn -> Relay \cup {NoRelay}]
      BY <2>10 DEF ForwardAnswer
    <3> QED
      BY <2>10, <3>2, <3>3, <3>4 DEF ForwardAnswer
  <2>11. CASE SendSetup(c)
    BY <2>11 DEF SendSetup, SendTo
  <2>12. CASE SendHangup(c)
    BY <2>12 DEF SendHangup, SendTo
  <2>13. CASE EndCall(c)
    BY <2>13 DEF EndCall, SetReg
  <2>14. CASE Unregister(c)
    BY <2>14 DEF Unregister
  <2>15. CASE UnregisterPresence(c)
    BY <2>15 DEF UnregisterPresence
  <2> QED
    BY <1>2, <2>1, <2>2, <2>3, <2>4, <2>5, <2>6, <2>7, <2>8, <2>9, 
       <2>10, <2>11, <2>12, <2>13, <2>14, <2>15 DEF Continue
<1>3. ASSUME NEW c \in Conn, Client(c)
      PROVE  TypeOK'
  <2>1. CASE Register(c)
    BY <2>1 DEF Register
  <2>2. CASE RecvHangup(c)
    <3>1. todo' \in [Conn -> SUBSET Call]
      BY <2>2 DEF RecvHangup, CallsOf
    <3>2. view' \in [Conn -> [Call -> View]]
      BY <2>2 DEF RecvHangup
    <3>3. pc' \in [Conn -> PC]
      BY <2>2 DEF RecvHangup
    <3> QED
      BY <2>2, <3>1, <3>2, <3>3 DEF RecvHangup
  <2>3. CASE Disconnect(c)
    BY <2>3 DEF Disconnect, CallsOf
  <2>4. ASSUME NEW k \in Call, RecvOffer(c, k)
        PROVE  TypeOK'
    BY <2>4 DEF RecvOffer
  <2>5. ASSUME NEW k \in Call, NEW mode \in {"Accept", "Reject"},
                RecvAnswer(c, k, mode)
        PROVE  TypeOK'
    <3>1. RelayOf(c) \in Relay
      OBVIOUS
    <3>2. choice' \in [Call -> {"unused", "dialled", "Accept", "Reject"}]
      BY <2>5 DEF RecvAnswer
    <3>3. /\ pc' \in [Conn -> PC] /\ job' \in [Conn -> Call \cup {NoCall}]
          /\ route' \in [Conn -> Relay \cup {NoRelay}]
      <4>1. via[RelayOf(c)][k] \in Relay \cup {NoRelay}
        BY <3>1
      <4>2. \/ pc' = pc /\ job' = job /\ route' = route
            \/ /\ \E l \in {"rejecting", "accepting"} : pc' = [pc EXCEPT ![c] = l]
               /\ job' = [job EXCEPT ![c] = k]
               /\ route' = [route EXCEPT ![c] = via[RelayOf(c)][k]]
        BY <2>5 DEF RecvAnswer
      <4>3. CASE pc' = pc /\ job' = job /\ route' = route
        BY <4>3
      <4>4. ASSUME NEW l \in {"rejecting", "accepting"},
                   pc' = [pc EXCEPT ![c] = l],
                   job' = [job EXCEPT ![c] = k],
                   route' = [route EXCEPT ![c] = via[RelayOf(c)][k]]
            PROVE  /\ pc' \in [Conn -> PC] /\ job' \in [Conn -> Call \cup {NoCall}]
                   /\ route' \in [Conn -> Relay \cup {NoRelay}]
        BY <4>1, <4>4
      <4> QED
        BY <4>2, <4>3, <4>4
    <3> QED
      BY <2>5, <3>2, <3>3 DEF RecvAnswer
  <2> QED
    BY <1>3, <2>1, <2>2, <2>3, <2>4, <2>5 DEF Client
<1>4. ASSUME NEW r \in Relay, Dispatcher(r)
      PROVE  TypeOK'
  <2>1. CASE Dispatch(r)
    BY <2>1 DEF Dispatch
  <2>2. CASE DispatchCreate(r)
    BY <2>2 DEF DispatchCreate, SetReg
  <2>3. CASE DispatchOffer(r)
    BY <2>3 DEF DispatchOffer, SendTo
  <2>4. CASE DispatchActivate(r)
    BY <2>4 DEF DispatchActivate, SetReg, SetActive
  <2>5. CASE DispatchAnswer(r)
    BY <2>5 DEF DispatchAnswer, SendTo
  <2>6. CASE DispatchSetup(r)
    BY <2>6 DEF DispatchSetup, SendTo
  <2> QED
    BY <1>4, <2>1, <2>2, <2>3, <2>4, <2>5, <2>6 DEF Dispatcher
<1> QED
  BY <1>1, <1>2, <1>3, <1>4, NextCases

\* Only Register and Unregister touch the hub, and a task is in its client's
\* entry from the one to the other at most.
LEMMA HubStep ==
  ASSUME TypeOK, HubEntriesServed, [Next]_vars
  PROVE  HubEntriesServed'
<1> USE RelayAssumption, ConnectionAssumption, CallAssumption
        DEF TypeOK, HubEntriesServed, Goto, DGoto, locals, dispatcher, task, RelayOf
<1>1. CASE UNCHANGED vars
  BY <1>1 DEF vars
<1>2. ASSUME NEW c \in Conn, Continue(c)
      PROVE  HubEntriesServed'
  <2>1. CASE RegisterPresence(c)
    BY <2>1 DEF RegisterPresence
  <2>2. CASE CreateCall(c)
    BY <2>2 DEF CreateCall
  <2>3. CASE ForwardOffer(c)
    BY <2>3 DEF ForwardOffer
  <2>4. CASE BroadcastOffer(c)
    BY <2>4 DEF BroadcastOffer
  <2>5. CASE StashCall(c)
    BY <2>5 DEF StashCall
  <2>6. CASE RingBack(c)
    BY <2>6 DEF RingBack
  <2>7. CASE EndRejected(c)
    BY <2>7 DEF EndRejected
  <2>8. CASE ReportReject(c)
    BY <2>8 DEF ReportReject
  <2>9. CASE Accept(c)
    BY <2>9 DEF Accept
  <2>10. CASE ForwardAnswer(c)
    BY <2>10 DEF ForwardAnswer
  <2>11. CASE SendSetup(c)
    BY <2>11 DEF SendSetup
  <2>12. CASE SendHangup(c)
    BY <2>12 DEF SendHangup
  <2>13. CASE EndCall(c)
    BY <2>13 DEF EndCall
  <2>14. CASE Unregister(c)
    BY <2>14 DEF Unregister
  <2>15. CASE UnregisterPresence(c)
    BY <2>15 DEF UnregisterPresence
  <2> QED
    BY <1>2, <2>1, <2>2, <2>3, <2>4, <2>5, <2>6, <2>7, <2>8, <2>9, 
       <2>10, <2>11, <2>12, <2>13, <2>14, <2>15 DEF Continue
<1>3. ASSUME NEW c \in Conn, Client(c)
      PROVE  HubEntriesServed'
  <2>1. CASE Register(c)
    BY <2>1 DEF Register
  <2>2. CASE RecvHangup(c)
    BY <2>2 DEF RecvHangup
  <2>3. CASE Disconnect(c)
    BY <2>3 DEF Disconnect
  <2>4. ASSUME NEW k \in Call, RecvOffer(c, k)
        PROVE  HubEntriesServed'
    BY <2>4 DEF RecvOffer
  <2>5. ASSUME NEW k \in Call, NEW mode \in {"Accept", "Reject"},
                RecvAnswer(c, k, mode)
        PROVE  HubEntriesServed'
    BY <2>5 DEF RecvAnswer
  <2> QED
    BY <1>3, <2>1, <2>2, <2>3, <2>4, <2>5 DEF Client
<1>4. ASSUME NEW r \in Relay, Dispatcher(r)
      PROVE  HubEntriesServed'
  <2>1. CASE Dispatch(r)
    BY <2>1 DEF Dispatch
  <2>2. CASE DispatchCreate(r)
    BY <2>2 DEF DispatchCreate
  <2>3. CASE DispatchOffer(r)
    BY <2>3 DEF DispatchOffer
  <2>4. CASE DispatchActivate(r)
    BY <2>4 DEF DispatchActivate
  <2>5. CASE DispatchAnswer(r)
    BY <2>5 DEF DispatchAnswer
  <2>6. CASE DispatchSetup(r)
    BY <2>6 DEF DispatchSetup
  <2> QED
    BY <1>4, <2>1, <2>2, <2>3, <2>4, <2>5, <2>6 DEF Dispatcher
<1> QED
  BY <1>1, <1>2, <1>3, <1>4, NextCases

\* A handler keeps its call until it is back in the receive loop.
LEMMA JobsStep ==
  ASSUME TypeOK, JobsNamed, [Next]_vars
  PROVE  JobsNamed'
<1> USE RelayAssumption, ConnectionAssumption, CallAssumption
        DEF TypeOK, JobsNamed, Goto, DGoto, locals, dispatcher, task, RelayOf
<1>1. CASE UNCHANGED vars
  BY <1>1 DEF vars
<1>2. ASSUME NEW c \in Conn, Continue(c)
      PROVE  JobsNamed'
  <2>1. CASE RegisterPresence(c)
    BY <2>1 DEF RegisterPresence
  <2>2. CASE CreateCall(c)
    BY <2>2 DEF CreateCall
  <2>3. CASE ForwardOffer(c)
    BY <2>3 DEF ForwardOffer
  <2>4. CASE BroadcastOffer(c)
    BY <2>4 DEF BroadcastOffer
  <2>5. CASE StashCall(c)
    BY <2>5 DEF StashCall
  <2>6. CASE RingBack(c)
    BY <2>6 DEF RingBack
  <2>7. CASE EndRejected(c)
    BY <2>7 DEF EndRejected
  <2>8. CASE ReportReject(c)
    BY <2>8 DEF ReportReject
  <2>9. CASE Accept(c)
    BY <2>9 DEF Accept
  <2>10. CASE ForwardAnswer(c)
    BY <2>10 DEF ForwardAnswer
  <2>11. CASE SendSetup(c)
    BY <2>11 DEF SendSetup
  <2>12. CASE SendHangup(c)
    BY <2>12 DEF SendHangup
  <2>13. CASE EndCall(c)
    BY <2>13 DEF EndCall
  <2>14. CASE Unregister(c)
    BY <2>14 DEF Unregister
  <2>15. CASE UnregisterPresence(c)
    BY <2>15 DEF UnregisterPresence
  <2> QED
    BY <1>2, <2>1, <2>2, <2>3, <2>4, <2>5, <2>6, <2>7, <2>8, <2>9, 
       <2>10, <2>11, <2>12, <2>13, <2>14, <2>15 DEF Continue
<1>3. ASSUME NEW c \in Conn, Client(c)
      PROVE  JobsNamed'
  <2>1. CASE Register(c)
    BY <2>1 DEF Register
  <2>2. CASE RecvHangup(c)
    BY <2>2 DEF RecvHangup
  <2>3. CASE Disconnect(c)
    BY <2>3 DEF Disconnect
  <2>4. ASSUME NEW k \in Call, RecvOffer(c, k)
        PROVE  JobsNamed'
    BY <2>4 DEF RecvOffer
  <2>5. ASSUME NEW k \in Call, NEW mode \in {"Accept", "Reject"},
                RecvAnswer(c, k, mode)
        PROVE  JobsNamed'
    BY <2>5 DEF RecvAnswer
  <2> QED
    BY <1>3, <2>1, <2>2, <2>3, <2>4, <2>5 DEF Client
<1>4. ASSUME NEW r \in Relay, Dispatcher(r)
      PROVE  JobsNamed'
  <2>1. CASE Dispatch(r)
    BY <2>1 DEF Dispatch
  <2>2. CASE DispatchCreate(r)
    BY <2>2 DEF DispatchCreate
  <2>3. CASE DispatchOffer(r)
    BY <2>3 DEF DispatchOffer
  <2>4. CASE DispatchActivate(r)
    BY <2>4 DEF DispatchActivate
  <2>5. CASE DispatchAnswer(r)
    BY <2>5 DEF DispatchAnswer
  <2>6. CASE DispatchSetup(r)
    BY <2>6 DEF DispatchSetup
  <2> QED
    BY <1>4, <2>1, <2>2, <2>3, <2>4, <2>5, <2>6 DEF Dispatcher
<1> QED
  BY <1>1, <1>2, <1>3, <1>4, NextCases

\* Offers are only sent to other relays than the caller's.
LEMMA OffersStep ==
  ASSUME TypeOK, JobsNamed, OffersTravel, [Next]_vars
  PROVE  OffersTravel'
<1> USE RelayAssumption, ConnectionAssumption, CallAssumption
        DEF TypeOK, JobsNamed, OffersTravel, Message, Goto, DGoto, locals, dispatcher, task, RelayOf
<1>1. CASE UNCHANGED vars
  BY <1>1 DEF vars
<1>2. ASSUME NEW c \in Conn, Continue(c)
      PROVE  OffersTravel'
  <2>1. CASE RegisterPresence(c)
    BY <2>1 DEF RegisterPresence
  <2>2. CASE CreateCall(c)
    BY <2>2 DEF CreateCall
  <2>3. CASE ForwardOffer(c)
    BY <2>3 DEF ForwardOffer
  <2>4. CASE BroadcastOffer(c)
    BY <2>4 DEF BroadcastOffer
  <2>5. CASE StashCall(c)
    BY <2>5 DEF StashCall
  <2>6. CASE RingBack(c)
    BY <2>6 DEF RingBack
  <2>7. CASE EndRejected(c)
    BY <2>7 DEF EndRejected
  <2>8. CASE ReportReject(c)
    BY <2>8 DEF ReportReject, Forward
  <2>9. CASE Accept(c)
    BY <2>9 DEF Accept
  <2>10. CASE ForwardAnswer(c)
    BY <2>10 DEF ForwardAnswer, Forward
  <2>11. CASE SendSetup(c)
    BY <2>11 DEF SendSetup
  <2>12. CASE SendHangup(c)
    BY <2>12 DEF SendHangup
  <2>13. CASE EndCall(c)
    BY <2>13 DEF EndCall
  <2>14. CASE Unregister(c)
    BY <2>14 DEF Unregister
  <2>15. CASE UnregisterPresence(c)
    BY <2>15 DEF UnregisterPresence
  <2> QED
    BY <1>2, <2>1, <2>2, <2>3, <2>4, <2>5, <2>6, <2>7, <2>8, <2>9, 
       <2>10, <2>11, <2>12, <2>13, <2>14, <2>15 DEF Continue
<1>3. ASSUME NEW c \in Conn, Client(c)
      PROVE  OffersTravel'
  <2>1. CASE Register(c)
    BY <2>1 DEF Register
  <2>2. CASE RecvHangup(c)
    BY <2>2 DEF RecvHangup
  <2>3. CASE Disconnect(c)
    BY <2>3 DEF Disconnect
  <2>4. ASSUME NEW k \in Call, RecvOffer(c, k)
        PROVE  OffersTravel'
    BY <2>4 DEF RecvOffer
  <2>5. ASSUME NEW k \in Call, NEW mode \in {"Accept", "Reject"},
                RecvAnswer(c, k, mode)
        PROVE  OffersTravel'
    BY <2>5 DEF RecvAnswer
  <2> QED
    BY <1>3, <2>1, <2>2, <2>3, <2>4, <2>5 DEF Client
<1>4. ASSUME NEW r \in Relay, Dispatcher(r)
      PROVE  OffersTravel'
  <2>1. CASE Dispatch(r)
    BY <2>1 DEF Dispatch
  <2>2. CASE DispatchCreate(r)
    BY <2>2 DEF DispatchCreate
  <2>3. CASE DispatchOffer(r)
    BY <2>3 DEF DispatchOffer
  <2>4. CASE DispatchActivate(r)
    BY <2>4 DEF DispatchActivate
  <2>5. CASE DispatchAnswer(r)
    BY <2>5 DEF DispatchAnswer
  <2>6. CASE DispatchSetup(r)
    BY <2>6 DEF DispatchSetup
  <2> QED
    BY <1>4, <2>1, <2>2, <2>3, <2>4, <2>5, <2>6 DEF Dispatcher
<1> QED
  BY <1>1, <1>2, <1>3, <1>4, NextCases

\* A call enters its caller's registry by a task of the caller, and a task of
\* the caller forgets a call only by ending it.
LEMMA EnderStep ==
  ASSUME TypeOK, JobsNamed, OffersTravel, CallsHaveAnEnder, [Next]_vars
  PROVE  CallsHaveAnEnder'
<1> USE RelayAssumption, ConnectionAssumption, CallAssumption
        DEF TypeOK, JobsNamed, OffersTravel, CallsHaveAnEnder, WillEnd, PC,
            Goto, DGoto, locals, dispatcher, task, RelayOf
<1>1. CASE UNCHANGED vars
  BY <1>1 DEF vars
<1>2. ASSUME NEW c \in Conn, Continue(c)
      PROVE  CallsHaveAnEnder'
  <2>1. CASE RegisterPresence(c)
    BY <2>1 DEF RegisterPresence
  <2>2. CASE CreateCall(c)
    BY <2>2 DEF CreateCall, SetReg
  <2>3. CASE ForwardOffer(c)
    BY <2>3 DEF ForwardOffer
  <2>4. CASE BroadcastOffer(c)
    <3>1. /\ reg' = reg /\ todo' = todo
          /\ pc'[c] \in {"stashing", "listening"}
          /\ \A d \in Conn : d # c => pc'[d] = pc[d]
      BY <2>4 DEF BroadcastOffer
    <3> SUFFICES ASSUME NEW k \in Call, reg'[Home[Caller[k]]][k] # "none"
                 PROVE  \E d \in Conn : ConnFp[d] = Caller[k] /\ WillEnd(d, k)'
      OBVIOUS
    <3>2. PICK d \in Conn : ConnFp[d] = Caller[k] /\ WillEnd(d, k)
      BY <3>1
    <3>3. d = c => WillEnd(d, k)'
      BY <3>1
    <3>4. d # c => WillEnd(d, k)'
      BY <3>1, <3>2
    <3> QED
      BY <3>2, <3>3, <3>4
  <2>5. CASE StashCall(c)
    BY <2>5 DEF StashCall, SetReg
  <2>6. CASE RingBack(c)
    BY <2>6 DEF RingBack
  <2>7. CASE EndRejected(c)
    BY <2>7 DEF EndRejected, SetReg
  <2>8. CASE ReportReject(c)
    BY <2>8 DEF ReportReject
  <2>9. CASE Accept(c)
    BY <2>9 DEF Accept, SetReg, SetActive
  <2>10. CASE ForwardAnswer(c)
    BY <2>10 DEF ForwardAnswer
  <2>11. CASE SendSetup(c)
    BY <2>11 DEF SendSetup
  <2>12. CASE SendHangup(c)
    BY <2>12 DEF SendHangup
  <2>13. CASE EndCall(c)
    <3>1. /\ pc[c] \in {"hangEnd", "closeEnd"}
          /\ reg' = [reg EXCEPT ![Home[ConnFp[c]]][job[c]] = "none"]
          /\ todo' = [todo EXCEPT ![c] = @ \ {job[c]}]
          /\ pc[c] = "hangEnd" => pc'[c] \in {"hangSend", "listening"}
          /\ pc[c] = "closeEnd" /\ todo'[c] # {} => pc'[c] = "closeSend"
          /\ \A d \in Conn : d # c => pc'[d] = pc[d]
      BY <2>13 DEF EndCall, SetReg
    <3> SUFFICES ASSUME NEW k \in Call, reg'[Home[Caller[k]]][k] # "none"
                 PROVE  \E d \in Conn : ConnFp[d] = Caller[k] /\ WillEnd(d, k)'
      OBVIOUS
    <3>2. PICK d \in Conn : ConnFp[d] = Caller[k] /\ WillEnd(d, k)
      BY <3>1
    <3>3. d = c => k # job[c]
      BY <3>1, <3>2
    <3>4. d = c => WillEnd(d, k)'
      BY <3>1, <3>2, <3>3
    <3>5. d # c => WillEnd(d, k)'
      BY <3>1, <3>2
    <3> QED
      BY <3>2, <3>4, <3>5
  <2>14. CASE Unregister(c)
    BY <2>14 DEF Unregister
  <2>15. CASE UnregisterPresence(c)
    BY <2>15 DEF UnregisterPresence
  <2> QED
    BY <1>2, <2>1, <2>2, <2>3, <2>4, <2>5, <2>6, <2>7, <2>8, <2>9, 
       <2>10, <2>11, <2>12, <2>13, <2>14, <2>15 DEF Continue
<1>3. ASSUME NEW c \in Conn, Client(c)
      PROVE  CallsHaveAnEnder'
  <2>1. CASE Register(c)
    BY <2>1 DEF Register
  <2>2. CASE RecvHangup(c)
    BY <2>2 DEF RecvHangup
  <2>3. CASE Disconnect(c)
    <3>1. /\ reg' = reg
          /\ todo' = [todo EXCEPT ![c] = CallsOf(RelayOf(c), ConnFp[c])]
          /\ todo'[c] # {} => pc'[c] = "closeSend"
          /\ \A d \in Conn : d # c => pc'[d] = pc[d]
      BY <2>3 DEF Disconnect, CallsOf
    <3> SUFFICES ASSUME NEW k \in Call, reg'[Home[Caller[k]]][k] # "none"
                 PROVE  \E d \in Conn : ConnFp[d] = Caller[k] /\ WillEnd(d, k)'
      OBVIOUS
    <3>2. PICK d \in Conn : ConnFp[d] = Caller[k] /\ WillEnd(d, k)
      BY <3>1
    <3>3. d = c => k \in CallsOf(RelayOf(c), ConnFp[c])
      BY <3>1, <3>2 DEF CallsOf
    <3>4. d = c => WillEnd(d, k)'
      BY <3>1, <3>2, <3>3
    <3>5. d # c => WillEnd(d, k)'
      BY <3>1, <3>2
    <3> QED
      BY <3>2, <3>4, <3>5
  <2>4. ASSUME NEW k \in Call, RecvOffer(c, k)
        PROVE  CallsHaveAnEnder'
    BY <2>4 DEF RecvOffer
  <2>5. ASSUME NEW k \in Call, NEW mode \in {"Accept", "Reject"},
                RecvAnswer(c, k, mode)
        PROVE  CallsHaveAnEnder'
    <3>1. /\ reg' = reg /\ todo' = todo
          /\ pc'[c] \in {"listening", "rejecting", "accepting"}
          /\ \A d \in Conn : d # c => pc'[d] = pc[d]
      BY <2>5 DEF RecvAnswer
    <3> SUFFICES ASSUME NEW j \in Call, reg'[Home[Caller[j]]][j] # "none"
                 PROVE  \E d \in Conn : ConnFp[d] = Caller[j] /\ WillEnd(d, j)'
      OBVIOUS
    <3>2. PICK d \in Conn : ConnFp[d] = Caller[j] /\ WillEnd(d, j)
      BY <3>1
    <3>3. d = c => WillEnd(d, j)'
      BY <3>1
    <3>4. d # c => WillEnd(d, j)'
      BY <3>1, <3>2
    <3> QED
      BY <3>2, <3>3, <3>4
  <2> QED
    BY <1>3, <2>1, <2>2, <2>3, <2>4, <2>5 DEF Client
<1>4. ASSUME NEW r \in Relay, Dispatcher(r)
      PROVE  CallsHaveAnEnder'
  <2>1. CASE Dispatch(r)
    BY <2>1 DEF Dispatch
  <2>2. CASE DispatchCreate(r)
    BY <2>2 DEF DispatchCreate, SetReg
  <2>3. CASE DispatchOffer(r)
    BY <2>3 DEF DispatchOffer
  <2>4. CASE DispatchActivate(r)
    BY <2>4 DEF DispatchActivate, SetReg, SetActive
  <2>5. CASE DispatchAnswer(r)
    BY <2>5 DEF DispatchAnswer
  <2>6. CASE DispatchSetup(r)
    BY <2>6 DEF DispatchSetup
  <2> QED
    BY <1>4, <2>1, <2>2, <2>3, <2>4, <2>5, <2>6 DEF Dispatcher
<1> QED
  BY <1>1, <1>2, <1>3, <1>4, NextCases

-----------------------------------------------------------------------------
(* What holds the routes of active calls and the answers together.           *)

\* Where the callee's relay sends what it has for the caller of k.
CallersRelay(k) == IF Local(k) THEN NoRelay ELSE Home[Caller[k]]

\* A task that carries out an answer is its callee's and goes on an answer
\* that accepted; it read the way back to the caller.
AnswersChosen ==
  \A c \in Conn :
    pc[c] \in {"accepting", "answering", "setup"} =>
      /\ choice[job[c]] = "Accept"
      /\ Callee[job[c]] = ConnFp[c]
      /\ route[c] = CallersRelay(job[c])

\* A forwarded offer comes from its caller's relay and leaves it; a forwarded
\* answer is of an accepted call and goes from its callee's relay to its
\* caller's.
WellSent(m) ==
  /\ m.kind = "offer" => m.from = Home[Caller[m.call]] /\ m.to # m.from
  /\ m.kind = "answer" =>
       /\ choice[m.call] = "Accept"
       /\ ~Local(m.call)
       /\ m.from = Home[Callee[m.call]] /\ m.to = Home[Caller[m.call]]

\* What a dispatcher handles was sent to it, an offer because it has the callee.
SignalsAddressed ==
  /\ \A m \in wire : WellSent(m)
  /\ \A r \in Relay : \A m \in dmsg[r] :
       /\ WellSent(m) /\ m.to = r
       /\ dpc[r] = "create" => m.kind = "offer" /\ r = Home[Callee[m.call]]
       /\ dpc[r] \in {"activate", "answer", "connect"} => m.kind = "answer"

\* An entry of k in the registry of relay r: at the callee's end of a
\* cross-relay call peer_relay_fp is there from the start, at the caller's
\* with the answer.
EntryRouted(r, k) ==
  /\ reg[r][k] # "none" => r \in {Home[Caller[k]], Home[Callee[k]]}
  /\ Local(k) => via[r][k] = NoRelay
  /\ ~Local(k) /\ r = Home[Callee[k]] /\ reg[r][k] # "none" =>
       via[r][k] = Home[Caller[k]]
  /\ ~Local(k) /\ r = Home[Caller[k]] /\ reg[r][k] = "Active" =>
       via[r][k] = Home[Callee[k]]

EntriesRouted == \A r \in Relay, k \in Call : EntryRouted(r, k)

\* Only an accepted call is active or has been sent a CallSetup.
OnlyAcceptedConnect ==
  /\ \A r \in Relay, k \in Call : reg[r][k] = "Active" => choice[k] = "Accept"
  /\ \A c \in Conn, k \in Call : view[c][k] = "setup" => choice[k] = "Accept"

RouteInv == Inv /\ AnswersChosen /\ SignalsAddressed /\ EntriesRouted
              /\ OnlyAcceptedConnect

\* The answer handler goes by the answer that called it, and reads its way back
\* from an entry that has it.
LEMMA AnswersStep ==
  ASSUME TypeOK, JobsNamed, EntriesRouted, AnswersChosen, [Next]_vars
  PROVE  AnswersChosen'
<1> USE RelayAssumption, ConnectionAssumption, CallAssumption
        DEF TypeOK, JobsNamed, AnswersChosen, Goto, DGoto, locals, dispatcher, task, RelayOf
<1>1. CASE UNCHANGED vars
  BY <1>1 DEF vars
<1>2. ASSUME NEW c \in Conn, Continue(c)
      PROVE  AnswersChosen'
  <2>1. CASE RegisterPresence(c)
    BY <2>1 DEF RegisterPresence
  <2>2. CASE CreateCall(c)
    BY <2>2 DEF CreateCall
  <2>3. CASE ForwardOffer(c)
    BY <2>3 DEF ForwardOffer
  <2>4. CASE BroadcastOffer(c)
    BY <2>4 DEF BroadcastOffer
  <2>5. CASE StashCall(c)
    BY <2>5 DEF StashCall
  <2>6. CASE RingBack(c)
    BY <2>6 DEF RingBack
  <2>7. CASE EndRejected(c)
    BY <2>7 DEF EndRejected
  <2>8. CASE ReportReject(c)
    BY <2>8 DEF ReportReject
  <2>9. CASE Accept(c)
    BY <2>9 DEF Accept
  <2>10. CASE ForwardAnswer(c)
    BY <2>10 DEF ForwardAnswer
  <2>11. CASE SendSetup(c)
    BY <2>11 DEF SendSetup
  <2>12. CASE SendHangup(c)
    BY <2>12 DEF SendHangup
  <2>13. CASE EndCall(c)
    BY <2>13 DEF EndCall
  <2>14. CASE Unregister(c)
    BY <2>14 DEF Unregister
  <2>15. CASE UnregisterPresence(c)
    BY <2>15 DEF UnregisterPresence
  <2> QED
    BY <1>2, <2>1, <2>2, <2>3, <2>4, <2>5, <2>6, <2>7, <2>8, <2>9,
       <2>10, <2>11, <2>12, <2>13, <2>14, <2>15 DEF Continue
<1>3. ASSUME NEW c \in Conn, Client(c)
      PROVE  AnswersChosen'
  <2>1. CASE Register(c)
    BY <2>1 DEF Register
  <2>2. CASE RecvHangup(c)
    BY <2>2 DEF RecvHangup
  <2>3. CASE Disconnect(c)
    BY <2>3 DEF Disconnect
  <2>4. ASSUME NEW k \in Call, RecvOffer(c, k)
        PROVE  AnswersChosen'
    BY <2>4 DEF RecvOffer
  <2>5. ASSUME NEW k \in Call, NEW mode \in {"Accept", "Reject"},
                RecvAnswer(c, k, mode)
        PROVE  AnswersChosen'
    <3>1. /\ choice[k] = "dialled" /\ choice' = [choice EXCEPT ![k] = mode]
          /\ Callee[k] = ConnFp[c] /\ RelayOf(c) = Home[Callee[k]]
          /\ RelayOf(c) \in Relay
      BY <2>5 DEF RecvAnswer, Offered
    <3>2. CASE pc' = pc /\ job' = job /\ route' = route
      BY <3>1, <3>2
    <3>3. CASE /\ reg[RelayOf(c)][k] # "none"
               /\ job' = [job EXCEPT ![c] = k]
               /\ route' = [route EXCEPT ![c] = via[RelayOf(c)][k]]
               /\ pc' = [pc EXCEPT ![c] = IF mode = "Reject" THEN "rejecting"
                                                           ELSE "accepting"]
      <4>1. via[RelayOf(c)][k] = CallersRelay(k)
        BY <3>1, <3>3 DEF EntriesRouted, EntryRouted, CallersRelay
      <4>2. ASSUME NEW d \in Conn, d # c,
                   pc[d] \in {"accepting", "answering", "setup"}
            PROVE  job[d] # k
        BY <3>1, <4>2
      <4> HIDE DEF RelayOf
      <4>3. ASSUME NEW d \in Conn, d # c,
                   pc'[d] \in {"accepting", "answering", "setup"}
            PROVE  /\ choice'[job'[d]] = "Accept"
                   /\ Callee[job'[d]] = ConnFp[d]
                   /\ route'[d] = CallersRelay(job'[d])
        BY <3>1, <3>3, <4>2, <4>3
      <4>4. ASSUME pc'[c] \in {"accepting", "answering", "setup"}
            PROVE  /\ choice'[job'[c]] = "Accept"
                   /\ Callee[job'[c]] = ConnFp[c]
                   /\ route'[c] = CallersRelay(job'[c])
        BY <3>1, <3>3, <4>1, <4>4
      <4> QED
        BY <4>3, <4>4
    <3> QED
      BY <2>5, <3>2, <3>3 DEF RecvAnswer
  <2> QED
    BY <1>3, <2>1, <2>2, <2>3, <2>4, <2>5 DEF Client
<1>4. ASSUME NEW r \in Relay, Dispatcher(r)
      PROVE  AnswersChosen'
  <2>1. CASE Dispatch(r)
    BY <2>1 DEF Dispatch
  <2>2. CASE DispatchCreate(r)
    BY <2>2 DEF DispatchCreate
  <2>3. CASE DispatchOffer(r)
    BY <2>3 DEF DispatchOffer
  <2>4. CASE DispatchActivate(r)
    BY <2>4 DEF DispatchActivate
  <2>5. CASE DispatchAnswer(r)
    BY <2>5 DEF DispatchAnswer
  <2>6. CASE DispatchSetup(r)
    BY <2>6 DEF DispatchSetup
  <2> QED
    BY <1>4, <2>1, <2>2, <2>3, <2>4, <2>5, <2>6 DEF Dispatcher
<1> QED
  BY <1>1, <1>2, <1>3, <1>4, NextCases

\* Forwarded signals are sent with their route and kept with it.
LEMMA SignalsStep ==
  ASSUME Inv, AnswersChosen, SignalsAddressed, [Next]_vars
  PROVE  SignalsAddressed'
<1> USE RelayAssumption, ConnectionAssumption, CallAssumption
        DEF Inv, TypeOK, JobsNamed, AnswersChosen, SignalsAddressed, WellSent, Message, Goto, DGoto,
            locals, dispatcher, task, RelayOf
<1>1. CASE UNCHANGED vars
  BY <1>1 DEF vars
<1>2. ASSUME NEW c \in Conn, Continue(c)
      PROVE  SignalsAddressed'
  <2>1. CASE RegisterPresence(c)
    BY <2>1 DEF RegisterPresence
  <2>2. CASE CreateCall(c)
    BY <2>2 DEF CreateCall
  <2>3. CASE ForwardOffer(c)
    BY <2>3 DEF ForwardOffer
  <2>4. CASE BroadcastOffer(c)
    BY <2>4 DEF BroadcastOffer
  <2>5. CASE StashCall(c)
    BY <2>5 DEF StashCall
  <2>6. CASE RingBack(c)
    BY <2>6 DEF RingBack
  <2>7. CASE EndRejected(c)
    BY <2>7 DEF EndRejected
  <2>8. CASE ReportReject(c)
    BY <2>8 DEF ReportReject, Forward
  <2>9. CASE Accept(c)
    BY <2>9 DEF Accept
  <2>10. CASE ForwardAnswer(c)
    BY <2>10 DEF ForwardAnswer, Forward, CallersRelay, Local
  <2>11. CASE SendSetup(c)
    BY <2>11 DEF SendSetup
  <2>12. CASE SendHangup(c)
    BY <2>12 DEF SendHangup
  <2>13. CASE EndCall(c)
    BY <2>13 DEF EndCall
  <2>14. CASE Unregister(c)
    BY <2>14 DEF Unregister
  <2>15. CASE UnregisterPresence(c)
    BY <2>15 DEF UnregisterPresence
  <2> QED
    BY <1>2, <2>1, <2>2, <2>3, <2>4, <2>5, <2>6, <2>7, <2>8, <2>9,
       <2>10, <2>11, <2>12, <2>13, <2>14, <2>15 DEF Continue
<1>3. ASSUME NEW c \in Conn, Client(c)
      PROVE  SignalsAddressed'
  <2>1. CASE Register(c)
    BY <2>1 DEF Register
  <2>2. CASE RecvHangup(c)
    BY <2>2 DEF RecvHangup
  <2>3. CASE Disconnect(c)
    BY <2>3 DEF Disconnect
  <2>4. ASSUME NEW k \in Call, RecvOffer(c, k)
        PROVE  SignalsAddressed'
    BY <2>4 DEF RecvOffer
  <2>5. ASSUME NEW k \in Call, NEW mode \in {"Accept", "Reject"},
                RecvAnswer(c, k, mode)
        PROVE  SignalsAddressed'
    BY <2>5 DEF RecvAnswer
  <2> QED
    BY <1>3, <2>1, <2>2, <2>3, <2>4, <2>5 DEF Client
<1>4. ASSUME NEW r \in Relay, Dispatcher(r)
      PROVE  SignalsAddressed'
  <2>1. CASE Dispatch(r)
    BY <2>1 DEF Dispatch, Online
  <2>2. CASE DispatchCreate(r)
    BY <2>2 DEF DispatchCreate
  <2>3. CASE DispatchOffer(r)
    BY <2>3 DEF DispatchOffer
  <2>4. CASE DispatchActivate(r)
    BY <2>4 DEF DispatchActivate
  <2>5. CASE DispatchAnswer(r)
    BY <2>5 DEF DispatchAnswer
  <2>6. CASE DispatchSetup(r)
    BY <2>6 DEF DispatchSetup
  <2> QED
    BY <1>4, <2>1, <2>2, <2>3, <2>4, <2>5, <2>6 DEF Dispatcher
<1> QED
  BY <1>1, <1>2, <1>3, <1>4, NextCases

\* A registry's entries and their routes are written together.
LEMMA EntriesStep ==
  ASSUME Inv, AnswersChosen, SignalsAddressed, EntriesRouted, [Next]_vars
  PROVE  EntriesRouted'
<1> USE RelayAssumption, ConnectionAssumption, CallAssumption
        DEF Inv, TypeOK, JobsNamed, AnswersChosen, EntriesRouted, EntryRouted, Local, Message,
            Goto, DGoto, locals, dispatcher, task, RelayOf
<1>1. CASE UNCHANGED vars
  BY <1>1 DEF vars
<1>2. ASSUME NEW c \in Conn, Continue(c)
      PROVE  EntriesRouted'
  <2>1. CASE RegisterPresence(c)
    BY <2>1 DEF RegisterPresence
  <2>2. CASE CreateCall(c)
    BY <2>2 DEF CreateCall, SetReg
  <2>3. CASE ForwardOffer(c)
    BY <2>3 DEF ForwardOffer
  <2>4. CASE BroadcastOffer(c)
    BY <2>4 DEF BroadcastOffer
  <2>5. CASE StashCall(c)
    BY <2>5 DEF StashCall, SetReg
  <2>6. CASE RingBack(c)
    BY <2>6 DEF RingBack
  <2>7. CASE EndRejected(c)
    BY <2>7 DEF EndRejected, SetReg
  <2>8. CASE ReportReject(c)
    BY <2>8 DEF ReportReject
  <2>9. CASE Accept(c)
    BY <2>9 DEF Accept, SetReg, SetActive
  <2>10. CASE ForwardAnswer(c)
    BY <2>10 DEF ForwardAnswer
  <2>11. CASE SendSetup(c)
    BY <2>11 DEF SendSetup
  <2>12. CASE SendHangup(c)
    BY <2>12 DEF SendHangup
  <2>13. CASE EndCall(c)
    BY <2>13 DEF EndCall, SetReg
  <2>14. CASE Unregister(c)
    BY <2>14 DEF Unregister
  <2>15. CASE UnregisterPresence(c)
    BY <2>15 DEF UnregisterPresence
  <2> QED
    BY <1>2, <2>1, <2>2, <2>3, <2>4, <2>5, <2>6, <2>7, <2>8, <2>9,
       <2>10, <2>11, <2>12, <2>13, <2>14, <2>15 DEF Continue
<1>3. ASSUME NEW c \in Conn, Client(c)
      PROVE  EntriesRouted'
  <2>1. CASE Register(c)
    BY <2>1 DEF Register
  <2>2. CASE RecvHangup(c)
    BY <2>2 DEF RecvHangup
  <2>3. CASE Disconnect(c)
    BY <2>3 DEF Disconnect
  <2>4. ASSUME NEW k \in Call, RecvOffer(c, k)
        PROVE  EntriesRouted'
    BY <2>4 DEF RecvOffer
  <2>5. ASSUME NEW k \in Call, NEW mode \in {"Accept", "Reject"},
                RecvAnswer(c, k, mode)
        PROVE  EntriesRouted'
    BY <2>5 DEF RecvAnswer
  <2> QED
    BY <1>3, <2>1, <2>2, <2>3, <2>4, <2>5 DEF Client
<1>4. ASSUME NEW r \in Relay, Dispatcher(r)
      PROVE  EntriesRouted'
  <2>1. CASE Dispatch(r)
    BY <2>1 DEF Dispatch
  <2>2. CASE DispatchCreate(r)
    BY <2>2 DEF DispatchCreate, SetReg, SignalsAddressed, WellSent
  <2>3. CASE DispatchOffer(r)
    BY <2>3 DEF DispatchOffer
  <2>4. CASE DispatchActivate(r)
    BY <2>4 DEF DispatchActivate, SetReg, SetActive, SignalsAddressed, WellSent, Local
  <2>5. CASE DispatchAnswer(r)
    BY <2>5 DEF DispatchAnswer
  <2>6. CASE DispatchSetup(r)
    BY <2>6 DEF DispatchSetup
  <2> QED
    BY <1>4, <2>1, <2>2, <2>3, <2>4, <2>5, <2>6 DEF Dispatcher
<1> QED
  BY <1>1, <1>2, <1>3, <1>4, NextCases

\* Only what follows an accepting answer activates a call or sends a CallSetup.
LEMMA ConnectStep ==
  ASSUME Inv, AnswersChosen, SignalsAddressed, OnlyAcceptedConnect, [Next]_vars
  PROVE  OnlyAcceptedConnect'
<1> USE RelayAssumption, ConnectionAssumption, CallAssumption
        DEF Inv, TypeOK, JobsNamed, AnswersChosen, OnlyAcceptedConnect,
            Goto, DGoto, locals, dispatcher, task, RelayOf
<1>1. CASE UNCHANGED vars
  BY <1>1 DEF vars
<1>2. ASSUME NEW c \in Conn, Continue(c)
      PROVE  OnlyAcceptedConnect'
  <2>1. CASE RegisterPresence(c)
    BY <2>1 DEF RegisterPresence
  <2>2. CASE CreateCall(c)
    BY <2>2 DEF CreateCall, SetReg
  <2>3. CASE ForwardOffer(c)
    BY <2>3 DEF ForwardOffer, SendTo
  <2>4. CASE BroadcastOffer(c)
    <3>1. reg' = reg /\ choice' = choice
      BY <2>4 DEF BroadcastOffer
    <3>2. ASSUME NEW d \in Conn, NEW k \in Call, view'[d][k] = "setup"
          PROVE  view[d][k] = "setup"
      <4>1. \/ view' = view
            \/ view' = [view EXCEPT ![c][job[c]] = "over"]
        BY <2>4 DEF BroadcastOffer, Reply
      <4>2. CASE view' = view
        BY <3>2, <4>2
      <4>3. CASE view' = [view EXCEPT ![c][job[c]] = "over"]
        <5>1. view'[d][k] \in {view[d][k], "over"}
          BY <4>3
        <5> QED
          BY <3>2, <5>1
      <4> QED
        BY <4>1, <4>2, <4>3
    <3> QED
      BY <3>1, <3>2
  <2>5. CASE StashCall(c)
    BY <2>5 DEF StashCall, SetReg
  <2>6. CASE RingBack(c)
    BY <2>6 DEF RingBack, Reply
  <2>7. CASE EndRejected(c)
    BY <2>7 DEF EndRejected, SetReg
  <2>8. CASE ReportReject(c)
    BY <2>8 DEF ReportReject, SendTo
  <2>9. CASE Accept(c)
    BY <2>9 DEF Accept, SetReg, SetActive
  <2>10. CASE ForwardAnswer(c)
    BY <2>10 DEF ForwardAnswer, SendTo
  <2>11. CASE SendSetup(c)
    BY <2>11 DEF SendSetup, SendTo
  <2>12. CASE SendHangup(c)
    BY <2>12 DEF SendHangup, SendTo
  <2>13. CASE EndCall(c)
    BY <2>13 DEF EndCall, SetReg
  <2>14. CASE Unregister(c)
    BY <2>14 DEF Unregister
  <2>15. CASE UnregisterPresence(c)
    BY <2>15 DEF UnregisterPresence
  <2> QED
    BY <1>2, <2>1, <2>2, <2>3, <2>4, <2>5, <2>6, <2>7, <2>8, <2>9,
       <2>10, <2>11, <2>12, <2>13, <2>14, <2>15 DEF Continue
<1>3. ASSUME NEW c \in Conn, Client(c)
      PROVE  OnlyAcceptedConnect'
  <2>1. CASE Register(c)
    BY <2>1 DEF Register
  <2>2. CASE RecvHangup(c)
    BY <2>2 DEF RecvHangup
  <2>3. CASE Disconnect(c)
    BY <2>3 DEF Disconnect
  <2>4. ASSUME NEW k \in Call, RecvOffer(c, k)
        PROVE  OnlyAcceptedConnect'
    BY <2>4 DEF RecvOffer
  <2>5. ASSUME NEW k \in Call, NEW mode \in {"Accept", "Reject"},
                RecvAnswer(c, k, mode)
        PROVE  OnlyAcceptedConnect'
    BY <2>5 DEF RecvAnswer
  <2> QED
    BY <1>3, <2>1, <2>2, <2>3, <2>4, <2>5 DEF Client
<1>4. ASSUME NEW r \in Relay, Dispatcher(r)
      PROVE  OnlyAcceptedConnect'
  <2>1. CASE Dispatch(r)
    BY <2>1 DEF Dispatch
  <2>2. CASE DispatchCreate(r)
    BY <2>2 DEF DispatchCreate, SetReg
  <2>3. CASE DispatchOffer(r)
    BY <2>3 DEF DispatchOffer, SendTo
  <2>4. CASE DispatchActivate(r)
    BY <2>4 DEF DispatchActivate, SetReg, SetActive, SignalsAddressed, WellSent
  <2>5. CASE DispatchAnswer(r)
    BY <2>5 DEF DispatchAnswer, SendTo
  <2>6. CASE DispatchSetup(r)
    BY <2>6 DEF DispatchSetup, SendTo, SignalsAddressed, WellSent
  <2> QED
    BY <1>4, <2>1, <2>2, <2>3, <2>4, <2>5, <2>6 DEF Dispatcher
<1> QED
  BY <1>1, <1>2, <1>3, <1>4, NextCases

-----------------------------------------------------------------------------
\* A relay that has just started satisfies the invariant.
LEMMA InvInit == Init => Inv
BY RelayAssumption, ConnectionAssumption, CallAssumption
   DEF Init, Inv, TypeOK, HubEntriesServed, JobsNamed, OffersTravel,
       CallsHaveAnEnder, PC, CallState, View

\* Every step keeps the invariant.
LEMMA InvStep == Inv /\ [Next]_vars => Inv'
BY TypeStep, HubStep, JobsStep, OffersStep, EnderStep DEF Inv

\* The inductive invariant holds in every reachable state of the relays.
THEOREM Invariance == Spec => []Inv
BY InvInit, InvStep, PTL DEF Spec

\* The signal tasks', hubs' and registries' data keep their types.
THEOREM TypeCorrect == Spec => []TypeOK
<1>1. Inv => TypeOK
  BY DEF Inv
<1> QED
  BY <1>1, Invariance, PTL

\* SignalHub never routes to a connection that nobody serves, whatever the
\* number of connections and the order of their cleanups.
THEOREM HubServed == Spec => []HubEntriesServed
<1>1. Inv => HubEntriesServed
  BY DEF Inv
<1> QED
  BY <1>1, Invariance, PTL

\* A call in its caller's registry always has a task of the caller to end it,
\* so the registry needs no timeout for it.
THEOREM CallsEnd == Spec => []CallsHaveAnEnder
<1>1. Inv => CallsHaveAnEnder
  BY DEF Inv
<1> QED
  BY <1>1, Invariance, PTL

\* When the relays start there are no calls to route.
LEMMA RouteInit == Init => RouteInv
<1> SUFFICES ASSUME Init
             PROVE  RouteInv
  OBVIOUS
<1>1. Inv
  BY InvInit
<1>2. AnswersChosen
  BY DEF Init, AnswersChosen
<1>3. SignalsAddressed
  BY DEF Init, SignalsAddressed
<1>4. EntriesRouted
  BY RelayAssumption DEF Init, EntriesRouted, EntryRouted
<1>5. OnlyAcceptedConnect
  BY DEF Init, OnlyAcceptedConnect
<1> QED
  BY <1>1, <1>2, <1>3, <1>4, <1>5 DEF RouteInv

\* Every step keeps what the routes and answers rest on.
LEMMA RouteStep == RouteInv /\ [Next]_vars => RouteInv'
<1> SUFFICES ASSUME RouteInv, [Next]_vars
             PROVE  RouteInv'
  OBVIOUS
<1>1. TypeOK /\ JobsNamed
  BY DEF RouteInv, Inv
<1>2. Inv'
  BY InvStep DEF RouteInv
<1>3. AnswersChosen'
  BY <1>1, AnswersStep DEF RouteInv
<1>4. SignalsAddressed' /\ EntriesRouted' /\ OnlyAcceptedConnect'
  BY SignalsStep, EntriesStep, ConnectStep DEF RouteInv
<1> QED
  BY <1>2, <1>3, <1>4 DEF RouteInv

\* The routes of the calls are kept in every reachable state of the relays.
THEOREM Routing == Spec => []RouteInv
BY RouteInit, RouteStep, PTL DEF Spec

\* A call that its callee's DirectCallAnswer rejected is never set active by a
\* registry, and nobody is sent a CallSetup for it, whatever hangups, closed
\* connections and forwarded signals meet it.
THEOREM RejectionHolds == Spec => []RejectedNeverConnects
<1>1. RouteInv => RejectedNeverConnects
  BY DEF RouteInv, OnlyAcceptedConnect, RejectedNeverConnects
<1> QED
  BY <1>1, Routing, PTL

\* peer_relay_fp of an active call is right at both ends, though one end writes
\* it with the offer and the other only with the answer.
THEOREM ActiveCallsAreRouted == Spec => []ActiveCallsRouted
<1>1. RouteInv => ActiveCallsRouted
  BY DEF RouteInv, EntriesRouted, EntryRouted, ActiveCallsRouted, Local
<1> QED
  BY <1>1, Routing, PTL

-----------------------------------------------------------------------------
(* The life of a call: DirectCall implements CallLife *)

\* What no step but a dial, a call's entry in a registry and an offer's way
\* there touches.
Quiet ==
  /\ \A c \in Conn : pc[c] \in Entering \/ pc'[c] \in Entering =>
       pc'[c] = pc[c] /\ job'[c] = job[c]
  /\ \A k \in Call : choice'[k] = "unused" <=> choice[k] = "unused"
  /\ \A r \in Relay, k \in Call :
       /\ OfferOnWire(r, k)' <=> OfferOnWire(r, k)
       /\ OfferInHand(r, k)' <=> OfferInHand(r, k)
  /\ \A r \in Relay : dmsg'[r] \in {dmsg[r], {}}

\* What such a step does to the registries and to the clients' choices.
AnswerMove ==
  /\ reg' = reg
  /\ \E k \in Call, mode \in {"Accept", "Reject"} :
       choice[k] = "dialled" /\ choice' = [choice EXCEPT ![k] = mode]
EndMove ==
  /\ choice' = choice
  /\ \E r \in Relay, k \in Call : reg' = [reg EXCEPT ![r][k] = "none"]
ActiveMove ==
  /\ choice' = choice
  /\ \E r \in Relay, k \in Call :
       /\ choice[k] = "Accept" /\ reg[r][k] = "Pending"
       /\ reg' = [reg EXCEPT ![r][k] = "Active"]
Move == UNCHANGED <<reg, choice>> \/ AnswerMove \/ EndMove \/ ActiveMove

\* The offers are told by these variables alone, and a step of a task that
\* neither is nor gets to where it enters a call leaves it quiet.
LEMMA QuietTask ==
  ASSUME TypeOK, NEW c \in Conn, NEW l, Goto(c, l), pc[c] \notin Entering,
         l \notin Entering, UNCHANGED <<wire, dpc, dmsg>>,
         \A d \in Conn \ {c} : job'[d] = job[d],
         \A k \in Call : choice'[k] = "unused" <=> choice[k] = "unused"
  PROVE  Quiet
<1>1. \A d \in Conn : d # c => pc'[d] = pc[d]
  BY DEF TypeOK, Goto
<1>2. pc'[c] = l
  BY DEF TypeOK, Goto
<1> QED
  BY <1>1, <1>2 DEF Quiet, OfferOnWire, OfferInHand

\* Other signals than offers may come and go.
LEMMA QuietForward ==
  ASSUME TypeOK, NEW c \in Conn, NEW l, Goto(c, l), pc[c] \notin Entering,
         l \notin Entering, UNCHANGED <<choice, dpc, dmsg>>,
         \A d \in Conn \ {c} : job'[d] = job[d],
         NEW r, NEW kind, NEW k, kind # "offer", Forward(c, r, kind, k)
  PROVE  Quiet
<1>1. \A d \in Conn : d # c => pc'[d] = pc[d]
  BY DEF TypeOK, Goto
<1>2. pc'[c] = l
  BY DEF TypeOK, Goto
<1>3. \A s \in Relay, j \in Call : OfferOnWire(s, j)' <=> OfferOnWire(s, j)
  BY DEF Forward, OfferOnWire
<1> QED
  BY <1>1, <1>2, <1>3 DEF Quiet, OfferInHand

\* set_active moves a pending call on and leaves others alone.
LEMMA SetActiveMoves ==
  ASSUME TypeOK, NEW r \in Relay, NEW k \in Call, SetActive(r, k),
         choice' = choice, choice[k] = "Accept"
  PROVE  Move
<1>1. CASE reg[r][k] = "Pending"
  BY <1>1 DEF SetActive, SetReg, Move, ActiveMove
<1>2. CASE reg[r][k] # "Pending"
  <2>1. reg' = reg
    BY <1>2 DEF SetActive, SetReg, TypeOK
  <2> QED
    BY <2>1 DEF Move
<1> QED
  BY <1>1, <1>2

\* The steps that are not quiet are a dial, a call's entry and an offer's way.
LEMMA QuietCases ==
  ASSUME RouteInv, [Next]_vars
  PROVE  \/ Quiet /\ Move
         \/ \E c \in Conn : CreateCall(c) \/ BroadcastOffer(c) \/ StashCall(c)
         \/ \E c \in Conn, k \in Call : RecvOffer(c, k)
         \/ \E r \in Relay : Dispatch(r) \/ DispatchCreate(r)
<1> USE DEF Entering, locals, dispatcher, task
<1>1. TypeOK /\ JobsNamed
  BY DEF RouteInv, Inv
<1>2. CASE UNCHANGED vars
  BY <1>2 DEF vars, Quiet, Move, OfferOnWire, OfferInHand
<1>3. ASSUME NEW c \in Conn, Continue(c)
      PROVE  \/ Quiet /\ Move
             \/ CreateCall(c) \/ BroadcastOffer(c) \/ StashCall(c)
  <2>1. RelayOf(c) \in Relay
    BY RelayAssumption, ConnectionAssumption DEF RelayOf
  <2>2. CASE RegisterPresence(c)
    BY <1>1, <2>2, QuietTask DEF RegisterPresence, Move
  <2>3. CASE ForwardOffer(c)
    BY <1>1, <2>3, QuietTask DEF ForwardOffer, Move
  <2>4. CASE RingBack(c)
    BY <1>1, <2>4, QuietTask DEF RingBack, Move, TypeOK
  <2>5. CASE EndRejected(c)
    <3>1. job[c] \in Call
      BY <1>1, <2>5 DEF EndRejected, JobsNamed
    <3>2. EndMove
      BY <2>1, <2>5, <3>1 DEF EndRejected, EndMove, SetReg
    <3> QED
      BY <1>1, <2>5, <3>2, QuietTask DEF EndRejected, Move
  <2>6. CASE ReportReject(c)
    <3>1. Goto(c, "listening") /\ pc[c] = "rejected" /\ UNCHANGED <<reg, choice, dpc, dmsg>>
          /\ \A d \in Conn \ {c} : job'[d] = job[d]
      BY <1>1, <2>6 DEF ReportReject, TypeOK
    <3>2. CASE UNCHANGED wire
      BY <1>1, <3>1, <3>2, QuietTask DEF Move
    <3>3. CASE Forward(c, route[c], "hangup", job[c])
      BY <1>1, <3>1, <3>3, QuietForward DEF Move
    <3> QED
      BY <2>6, <3>2, <3>3 DEF ReportReject
  <2>7. CASE Accept(c)
    <3>1. job[c] \in Call /\ choice[job[c]] = "Accept"
      BY <1>1, <2>7 DEF Accept, JobsNamed, RouteInv, AnswersChosen
    <3>2. Move
      BY <1>1, <2>1, <2>7, <3>1, SetActiveMoves DEF Accept
    <3> QED
      BY <1>1, <2>7, <3>2, QuietTask DEF Accept
  <2>8. CASE ForwardAnswer(c)
    <3>1. Goto(c, "setup") /\ pc[c] = "answering" /\ UNCHANGED <<job, reg, choice, dpc, dmsg>>
      BY <2>8 DEF ForwardAnswer
    <3>2. CASE UNCHANGED wire
      BY <1>1, <3>1, <3>2, QuietTask DEF Move
    <3>3. CASE Forward(c, route[c], "answer", job[c])
      BY <1>1, <3>1, <3>3, QuietForward DEF Move
    <3> QED
      BY <2>8, <3>2, <3>3 DEF ForwardAnswer
  <2>9. CASE SendSetup(c)
    BY <1>1, <2>9, QuietTask DEF SendSetup, Move, TypeOK
  <2>10. CASE SendHangup(c)
    <3>1. PICK k \in todo[c] : job' = [job EXCEPT ![c] = k]
      BY <2>10 DEF SendHangup
    <3>2. \A d \in Conn \ {c} : job'[d] = job[d]
      BY <1>1, <3>1 DEF TypeOK
    <3> QED
      BY <1>1, <2>10, <3>2, QuietTask DEF SendHangup, Move
  <2>11. CASE EndCall(c)
    <3>1. job[c] \in Call
      BY <1>1, <2>11 DEF EndCall, JobsNamed
    <3>2. EndMove
      BY <2>1, <2>11, <3>1 DEF EndCall, EndMove, SetReg
    <3>3. PICK l : Goto(c, l) /\ l \notin Entering
      BY <2>11 DEF EndCall
    <3>4. \A d \in Conn \ {c} : job'[d] = job[d]
      BY <1>1, <2>11 DEF EndCall, TypeOK
    <3> QED
      BY <1>1, <2>11, <3>2, <3>3, <3>4, QuietTask DEF EndCall, Move
  <2>12. CASE Unregister(c) \/ UnregisterPresence(c)
    BY <1>1, <2>12, QuietTask DEF Unregister, UnregisterPresence, Move
  <2> QED
    BY <1>3, <2>2, <2>3, <2>4, <2>5, <2>6, <2>7, <2>8, <2>9, <2>10, <2>11, <2>12
    DEF Continue
<1>4. ASSUME NEW c \in Conn, Client(c)
      PROVE  (Quiet /\ Move) \/ \E k \in Call : RecvOffer(c, k)
  <2>1. CASE Register(c)
    BY <1>1, <2>1, QuietTask DEF Register, Move
  <2>2. CASE RecvHangup(c)
    BY <1>1, <2>2, QuietTask DEF RecvHangup, Move
  <2>3. CASE Disconnect(c)
    <3>1. PICK l : Goto(c, l) /\ l \notin Entering
      BY <2>3 DEF Disconnect
    <3> QED
      BY <1>1, <2>3, <3>1, QuietTask DEF Disconnect, Move
  <2>4. ASSUME NEW k \in Call, NEW mode \in {"Accept", "Reject"}, RecvAnswer(c, k, mode)
        PROVE  Quiet /\ Move
    <3>1. AnswerMove
      BY <2>4 DEF RecvAnswer, AnswerMove
    <3>2. \A j \in Call : choice'[j] = "unused" <=> choice[j] = "unused"
      BY <1>1, <2>4 DEF RecvAnswer, TypeOK
    <3>3. CASE UNCHANGED <<pc, job>>
      BY <2>4, <3>1, <3>2, <3>3
      DEF RecvAnswer, Quiet, Move, OfferOnWire, OfferInHand
    <3>4. CASE /\ job' = [job EXCEPT ![c] = k]
               /\ Goto(c, IF mode = "Reject" THEN "rejecting" ELSE "accepting")
      <4>1. PICK l : Goto(c, l) /\ l \notin Entering
        BY <3>4
      <4>2. \A d \in Conn \ {c} : job'[d] = job[d]
        BY <1>1, <3>4 DEF TypeOK
      <4> QED
        BY <1>1, <2>4, <3>1, <3>2, <4>1, <4>2, QuietTask DEF RecvAnswer, Move
    <3> QED
      BY <2>4, <3>3, <3>4 DEF RecvAnswer
  <2> QED
    BY <1>4, <2>1, <2>2, <2>3, <2>4 DEF Client
<1>5. ASSUME NEW r \in Relay, Dispatcher(r)
      PROVE  (Quiet /\ Move) \/ Dispatch(r) \/ DispatchCreate(r)
  <2>1. ASSUME UNCHANGED <<pc, job, wire, choice>>, dpc[r] # "create",
               NEW l, DGoto(r, l), l # "create",
               dmsg'[r] \in {dmsg[r], {}},
               \A s \in Relay \ {r} : dmsg'[s] = dmsg[s]
        PROVE  Quiet
    <3>1. dpc'[r] = l /\ \A s \in Relay : s # r => dpc'[s] = dpc[s]
      BY <1>1, <2>1 DEF DGoto, TypeOK
    <3>2. ASSUME NEW s \in Relay, NEW k \in Call
          PROVE  (OfferInHand(s, k)' <=> OfferInHand(s, k))
                 /\ (OfferOnWire(s, k)' <=> OfferOnWire(s, k))
      BY <2>1, <3>1 DEF OfferInHand, OfferOnWire
    <3> QED
      BY <2>1, <3>2 DEF Quiet
  <2>2. CASE DispatchOffer(r)
    BY <1>1, <2>1, <2>2 DEF DispatchOffer, Move, TypeOK
  <2>3. CASE DispatchActivate(r)
    <3>1. PICK m \in dmsg[r] : SetActive(r, m.call)
      BY <2>3 DEF DispatchActivate
    <3>2. m.call \in Call /\ choice[m.call] = "Accept"
      BY <1>1, <2>3, <3>1
      DEF DispatchActivate, RouteInv, SignalsAddressed, WellSent, TypeOK, Message
    <3>3. Move
      BY <1>1, <2>3, <3>1, <3>2, SetActiveMoves DEF DispatchActivate
    <3> QED
      BY <2>1, <2>3, <3>3 DEF DispatchActivate
  <2>4. CASE DispatchAnswer(r)
    BY <2>1, <2>4 DEF DispatchAnswer, Move
  <2>5. CASE DispatchSetup(r)
    BY <1>1, <2>1, <2>5 DEF DispatchSetup, Move, TypeOK
  <2> QED
    BY <1>5, <2>2, <2>3, <2>4, <2>5 DEF Dispatcher
<1> QED
  BY <1>2, <1>3, <1>4, <1>5, NextCases

-----------------------------------------------------------------------------
\* A call is entered by one task, and not before it was dialled.
OneEnters ==
  /\ \A c, d \in Conn :
       pc[c] \in Entering /\ pc[d] \in Entering /\ job[c] = job[d] => c = d
  /\ \A c \in Conn : pc[c] \in Entering => choice[job[c]] # "unused"

\* An offer is sent to a relay once, after the dial and by the time its task
\* goes to the stash, and is in one place.
OffersOnce ==
  /\ \A r \in Relay, k \in Call :
       OfferOnWire(r, k) \/ OfferInHand(r, k) => choice[k] # "unused"
  /\ \A c \in Conn, r \in Relay :
       pc[c] = "routing" => ~OfferOnWire(r, job[c]) /\ ~OfferInHand(r, job[c])
  /\ \A r \in Relay, k \in Call : OfferOnWire(r, k) => ~OfferInHand(r, k)
  /\ \A r \in Relay : \A m, n \in dmsg[r] : m = n

\* A relay that has entered a call has no occasion to enter it again.
EnteredOnce == \A r \in Relay, k \in Call : reg[r][k] # "none" => ~MayCome(r, k)

LifeInv == RouteInv /\ OneEnters /\ OffersOnce /\ EnteredOnce

\* A step in which relays may lose their occasion to enter k.
GivesUp(k) ==
  /\ reg' = reg
  /\ \A r \in Relay, j \in Call :
       /\ MayCome(r, j)' => MayCome(r, j)
       /\ j # k => (MayCome(r, j)' <=> MayCome(r, j))

\* A step in which relay r takes its one occasion to enter k.
Enters(r, k) ==
  /\ choice' = choice /\ choice[k] # "unused"
  /\ reg' = [reg EXCEPT ![r][k] = "Pending"]
  /\ MayCome(r, k) /\ ~MayCome(r, k)'
  /\ \A s \in Relay, j \in Call :
       s # r \/ j # k => (MayCome(s, j)' <=> MayCome(s, j))

\* A quiet step changes nothing of the occasions.
LEMMA QuietStep ==
  ASSUME OneEnters, OffersOnce, TypeOK, JobsNamed, Quiet
  PROVE  /\ OneEnters' /\ OffersOnce'
         /\ \A r \in Relay, k \in Call : MayCome(r, k)' <=> MayCome(r, k)
<1>1. \A c \in Conn : (pc'[c] \in Entering <=> pc[c] \in Entering)
  BY DEF Quiet
<1>2. \A c \in Conn : pc[c] \in Entering => pc'[c] = pc[c] /\ job'[c] = job[c]
  BY DEF Quiet
<1>3. \A c \in Conn : pc[c] \in Entering => job[c] \in Call
  BY DEF Entering, JobsNamed
<1>4. \A c \in Conn : (pc'[c] = "routing" <=> pc[c] = "routing")
  BY <1>1, <1>2 DEF Entering
<1>5. OneEnters'
  BY <1>1, <1>2, <1>3 DEF OneEnters, Quiet
<1>6. OffersOnce'
  <2>1. \A r \in Relay : \A m, n \in dmsg'[r] : m = n
    BY DEF Quiet, OffersOnce
  <2>2. ASSUME NEW c \in Conn, NEW r \in Relay, NEW k \in Call,
               pc'[c] = "routing", job'[c] = k
        PROVE  ~OfferOnWire(r, k)' /\ ~OfferInHand(r, k)'
    <3>1. job[c] = k /\ pc[c] = "routing"
      BY <1>1, <1>2, <1>4, <2>2 DEF Entering
    <3>2. ~OfferOnWire(r, k) /\ ~OfferInHand(r, k)
      BY <3>1 DEF OffersOnce
    <3> QED
      BY <3>2 DEF Quiet
  <2>3. \A c \in Conn : pc'[c] = "routing" => job'[c] \in Call
    BY <1>1, <1>2, <1>3 DEF Entering
  <2>4. \A c \in Conn, r \in Relay :
          pc'[c] = "routing" => ~OfferOnWire(r, job[c])' /\ ~OfferInHand(r, job[c])'
    BY <2>2, <2>3
  <2> QED
    BY <2>1, <2>4 DEF OffersOnce, Quiet
<1>7. \A r \in Relay, k \in Call : MayCome(r, k)' <=> MayCome(r, k)
  BY <1>1, <1>2, <1>4 DEF MayCome, Quiet
<1> QED
  BY <1>5, <1>6, <1>7

\* A call is dialled before any relay could have heard of it.
LEMMA DialStep ==
  ASSUME LifeInv, NEW c \in Conn, NEW k \in Call, RecvOffer(c, k)
  PROVE  OneEnters' /\ OffersOnce' /\ GivesUp(k)
<1>1. TypeOK /\ JobsNamed
  BY DEF LifeInv, RouteInv, Inv
<1>2. /\ choice[k] = "unused" /\ choice'[k] = "dialled" /\ job'[c] = k
      /\ pc[c] \notin Entering /\ pc'[c] \in {"creating", "routing"}
      /\ UNCHANGED <<reg, wire, dpc, dmsg>>
      /\ \A d \in Conn \ {c} : pc'[d] = pc[d] /\ job'[d] = job[d]
      /\ \A j \in Call \ {k} : choice'[j] = choice[j]
  BY <1>1 DEF RecvOffer, Goto, TypeOK, Entering, dispatcher
<1>3. \A d \in Conn \ {c} : pc[d] \in Entering => job[d] # k /\ job[d] \in Call
  BY <1>1, <1>2 DEF LifeInv, OneEnters, JobsNamed, Entering
<1>4. /\ \A r, j : /\ OfferOnWire(r, j)' <=> OfferOnWire(r, j)
                   /\ OfferInHand(r, j)' <=> OfferInHand(r, j)
      /\ \A r \in Relay : ~OfferOnWire(r, k) /\ ~OfferInHand(r, k)
  BY <1>2 DEF OfferOnWire, OfferInHand, LifeInv, OffersOnce
<1>5. OneEnters'
  BY <1>2, <1>3 DEF LifeInv, OneEnters
<1>6. OffersOnce'
  BY <1>2, <1>3, <1>4 DEF LifeInv, OffersOnce
<1>7. \A r \in Relay : MayCome(r, k)
  BY <1>2 DEF MayCome
<1>8. \A r \in Relay, j \in Call \ {k} : MayCome(r, j)' <=> MayCome(r, j)
  BY <1>2, <1>4 DEF MayCome, Entering
<1> QED
  BY <1>2, <1>5, <1>6, <1>7, <1>8 DEF GivesUp

\* create_call and the stash are the caller's relay's only way to a call.
LEMMA CreateStep ==
  ASSUME LifeInv, NEW c \in Conn, CreateCall(c) \/ StashCall(c)
  PROVE  OneEnters' /\ OffersOnce' /\ Enters(RelayOf(c), job[c])
<1>1. TypeOK /\ JobsNamed /\ OffersTravel
  BY DEF LifeInv, RouteInv, Inv
<1>2. /\ pc[c] \in {"creating", "stashing"} /\ pc'[c] \notin Entering
      /\ \A d \in Conn \ {c} : pc'[d] = pc[d]
      /\ UNCHANGED <<job, choice, wire, dpc, dmsg>>
      /\ reg' = [reg EXCEPT ![RelayOf(c)][job[c]] = "Pending"]
  BY <1>1 DEF CreateCall, StashCall, Goto, SetReg, TypeOK, Entering, locals, dispatcher
<1>3. job[c] \in Call /\ RelayOf(c) = Home[Caller[job[c]]] /\ RelayOf(c) \in Relay
  BY <1>1, <1>2, RelayAssumption, ConnectionAssumption DEF JobsNamed, RelayOf
<1>4. \A d \in Conn \ {c} : pc[d] \in Entering => job[d] # job[c]
  BY <1>2 DEF LifeInv, OneEnters, Entering
<1>5. choice[job[c]] # "unused"
  BY <1>2 DEF LifeInv, OneEnters, Entering
<1>6. ~OfferOnWire(RelayOf(c), job[c]) /\ ~OfferInHand(RelayOf(c), job[c])
  BY <1>1, <1>3 DEF OffersTravel, OfferOnWire, OfferInHand
<1>7. \A r, j : (OfferOnWire(r, j)' <=> OfferOnWire(r, j))
                /\ (OfferInHand(r, j)' <=> OfferInHand(r, j))
  BY <1>2 DEF OfferOnWire, OfferInHand
<1>8. OneEnters'
  BY <1>2 DEF LifeInv, OneEnters
<1>9. OffersOnce'
  BY <1>2, <1>7 DEF LifeInv, OffersOnce, Entering
<1>10. MayCome(RelayOf(c), job[c])
  BY <1>2, <1>3 DEF MayCome, Entering
<1>11. ~MayCome(RelayOf(c), job[c])'
  BY <1>2, <1>4, <1>5, <1>6, <1>7 DEF MayCome
<1>12. \A s \in Relay, j \in Call : s # RelayOf(c) \/ j # job[c] =>
         (MayCome(s, j)' <=> MayCome(s, j))
  BY <1>2, <1>3, <1>7 DEF MayCome
<1> QED
  BY <1>2, <1>5, <1>8, <1>9, <1>10, <1>11, <1>12 DEF Enters

\* Whom the broadcast reaches may still enter the call; who is left out, and
\* all of them if nobody is reached, gives it up.
LEMMA BroadcastStep ==
  ASSUME LifeInv, NEW c \in Conn, BroadcastOffer(c)
  PROVE  OneEnters' /\ OffersOnce' /\ GivesUp(job[c])
<1> DEFINE k == job[c]
<1>1. TypeOK /\ JobsNamed
  BY DEF LifeInv, RouteInv, Inv
<1>2. /\ pc[c] = "routing" /\ k \in Call /\ RelayOf(c) = Home[Caller[k]]
      /\ choice[k] # "unused"
  BY <1>1 DEF BroadcastOffer, JobsNamed, RelayOf, LifeInv, OneEnters, Entering
<1>3. /\ UNCHANGED <<reg, dpc, dmsg, choice>>
      /\ \A d \in Conn \ {c} : pc'[d] = pc[d] /\ job'[d] = job[d]
  BY <1>1 DEF BroadcastOffer, dispatcher, Goto, TypeOK
<1>4. PICK reached \in SUBSET (Relay \ {RelayOf(c)}) :
        /\ wire' = wire \cup {[to |-> r, from |-> RelayOf(c), kind |-> "offer",
                               call |-> k] : r \in reached}
        /\ \/ pc'[c] = "stashing" /\ job'[c] = k
           \/ pc'[c] = "listening" /\ reached = {}
  <2>1. ASSUME NEW reached \in IF LossyLinks THEN SUBSET (Relay \ {RelayOf(c)}) \ {{}}
                               ELSE {Relay \ {RelayOf(c)}} \ {{}},
               /\ wire' = wire \cup {[to |-> r, from |-> RelayOf(c), kind |-> "offer",
                                      call |-> k] : r \in reached}
               /\ Goto(c, "stashing")
               /\ UNCHANGED <<job, view>>
        PROVE  \E R \in SUBSET (Relay \ {RelayOf(c)}) :
                 /\ wire' = wire \cup {[to |-> r, from |-> RelayOf(c), kind |-> "offer",
                                        call |-> k] : r \in R}
                 /\ pc'[c] = "stashing" /\ job'[c] = k
    <3>1. reached \in SUBSET (Relay \ {RelayOf(c)})
      OBVIOUS
    <3>2. pc'[c] = "stashing" /\ job'[c] = k
      BY <1>1, <2>1 DEF Goto, TypeOK
    <3> QED
      BY <2>1, <3>1, <3>2
  <2>2. CASE UNCHANGED wire /\ Goto(c, "listening")
    <3>1. wire' = wire \cup {[to |-> r, from |-> RelayOf(c), kind |-> "offer",
                              call |-> k] : r \in {}}
      BY <2>2
    <3>2. pc'[c] = "listening"
      BY <1>1, <2>2 DEF Goto, TypeOK
    <3> QED
      BY <3>1, <3>2
  <2> QED
    BY <2>1, <2>2 DEF BroadcastOffer
<1> HIDE DEF k
<1>5. \A s, j : /\ OfferOnWire(s, j)' <=> OfferOnWire(s, j) \/ (j = k /\ s \in reached)
                /\ OfferInHand(s, j)' <=> OfferInHand(s, j)
  <2>1. ASSUME NEW s, NEW j, NEW m \in wire', m.kind = "offer", m.call = j, m.to = s,
               m \notin wire
        PROVE  j = k /\ s \in reached
    <3>1. PICK t \in reached : m = [to |-> t, from |-> RelayOf(c), kind |-> "offer",
                                    call |-> k]
      BY <1>4, <2>1
    <3> QED
      BY <2>1, <3>1
  <2>2. ASSUME NEW s \in reached, NEW j, j = k
        PROVE  \E m \in wire' : m.kind = "offer" /\ m.call = j /\ m.to = s
    <3>1. [to |-> s, from |-> RelayOf(c), kind |-> "offer", call |-> j] \in wire'
      BY <1>4, <2>2
    <3> QED
      BY <3>1
  <2>3. wire \subseteq wire'
    BY <1>4
  <2> QED
    BY <1>3, <2>1, <2>2, <2>3 DEF OfferOnWire, OfferInHand
<1>6. \A d \in Conn \ {c} : pc[d] \in Entering => job[d] # k
  BY <1>2 DEF LifeInv, OneEnters, Entering, k
<1>7. \A s \in Relay : ~OfferOnWire(s, k) /\ ~OfferInHand(s, k)
  BY <1>2 DEF LifeInv, OffersOnce, k
<1>8. pc'[c] \in Entering => job'[c] = k /\ pc'[c] = "stashing"
  BY <1>4 DEF Entering
<1>9. OneEnters'
  BY <1>2, <1>3, <1>6, <1>8 DEF LifeInv, OneEnters
<1>10. OffersOnce'
  <2>1. ASSUME NEW d \in Conn, NEW s \in Relay, pc'[d] = "routing"
        PROVE  ~OfferOnWire(s, job[d])' /\ ~OfferInHand(s, job[d])'
    <3>1. d # c /\ pc[d] = "routing" /\ job'[d] = job[d] /\ job[d] # k
      BY <1>3, <1>4, <1>6, <2>1 DEF Entering
    <3>2. ~OfferOnWire(s, job[d]) /\ ~OfferInHand(s, job[d])
      BY <3>1 DEF LifeInv, OffersOnce
    <3> QED
      BY <1>5, <3>1, <3>2 DEF OfferOnWire, OfferInHand
  <2> QED
    BY <1>2, <1>3, <1>5, <1>7, <2>1 DEF LifeInv, OffersOnce
<1>11. \A s \in Relay, j \in Call : MayCome(s, j)' => MayCome(s, j)
  BY <1>2, <1>3, <1>4, <1>5 DEF MayCome, Entering, k
<1>12. \A s \in Relay, j \in Call : j # k => (MayCome(s, j)' <=> MayCome(s, j))
  BY <1>2, <1>3, <1>4, <1>5, <1>8 DEF MayCome, k
<1> QED
  BY <1>3, <1>9, <1>10, <1>11, <1>12 DEF GivesUp, k

\* The dispatcher takes an offer from the wire and either has it in hand or
\* drops it: there is no other one for this relay.
LEMMA DispatchStep ==
  ASSUME LifeInv, NEW r \in Relay, Dispatch(r)
  PROVE  /\ OneEnters' /\ OffersOnce' /\ UNCHANGED <<reg, choice>>
         /\ \/ \A s \in Relay, j \in Call : MayCome(s, j)' <=> MayCome(s, j)
            \/ \E k \in Call : choice[k] # "unused" /\ GivesUp(k)
<1>1. TypeOK /\ SignalsAddressed
  BY DEF LifeInv, RouteInv, Inv
<1>2. PICK m \in wire :
        /\ m.to = r /\ wire' = wire \ {m}
        /\ \/ /\ m.kind = "offer" /\ dpc'[r] = "create" /\ dmsg'[r] = {m}
           \/ /\ m.kind = "offer" /\ dpc'[r] = "idle" /\ dmsg'[r] = {}
           \/ /\ m.kind # "offer" /\ dpc'[r] # "create" /\ dmsg'[r] \in {{m}, {}}
  BY <1>1 DEF Dispatch, DGoto, TypeOK
<1>3. /\ UNCHANGED <<pc, job, choice, reg>> /\ dpc[r] = "idle"
      /\ \A s \in Relay \ {r} : dpc'[s] = dpc[s] /\ dmsg'[s] = dmsg[s]
  BY <1>1 DEF Dispatch, DGoto, TypeOK, task
<1>4. m.call \in Call /\ m \in Message
  BY <1>1 DEF TypeOK, Message
<1>5. OneEnters'
  BY <1>3 DEF LifeInv, OneEnters
<1>6. \A s \in Relay : \A x, y \in dmsg'[s] : x = y
  BY <1>2, <1>3 DEF LifeInv, OffersOnce
<1>7. CASE m.kind # "offer"
  <2>1. \A s, j : s \in Relay => /\ OfferOnWire(s, j)' <=> OfferOnWire(s, j)
                                 /\ OfferInHand(s, j)' <=> OfferInHand(s, j)
    BY <1>2, <1>3, <1>7 DEF OfferOnWire, OfferInHand
  <2>2. OffersOnce'
    BY <1>3, <1>6, <2>1 DEF LifeInv, OffersOnce
  <2>3. \A s \in Relay, j \in Call : MayCome(s, j)' <=> MayCome(s, j)
    BY <1>3, <2>1 DEF MayCome
  <2> QED
    BY <1>3, <1>5, <2>2, <2>3
<1>8. CASE m.kind = "offer"
  <2>1. \A n \in wire : n.kind = "offer" /\ n.call = m.call /\ n.to = r => n = m
    <3>1. ASSUME NEW n \in wire, n.kind = "offer", n.call = m.call, n.to = r
          PROVE  n = m
      <4>1. n \in Message /\ n.from = m.from
        BY <1>1, <1>8, <3>1 DEF TypeOK, SignalsAddressed, WellSent
      <4> QED
        BY <1>2, <1>4, <1>8, <3>1, <4>1 DEF Message
    <3> QED
      BY <3>1
  <2>2. \A s, j : s \in Relay =>
          (OfferOnWire(s, j)' <=> OfferOnWire(s, j) /\ ~(s = r /\ j = m.call))
    BY <1>2, <1>8, <2>1 DEF OfferOnWire
  <2>3. /\ OfferOnWire(r, m.call) /\ \A j : ~OfferInHand(r, j)
        /\ \A j : OfferInHand(r, j)' => j = m.call
        /\ \A s, j : s \in Relay \ {r} => (OfferInHand(s, j)' <=> OfferInHand(s, j))
    BY <1>2, <1>3, <1>8 DEF OfferOnWire, OfferInHand
  <2>4. /\ choice[m.call] # "unused"
        /\ \A d \in Conn : pc[d] = "routing" => job[d] # m.call
    BY <1>4, <2>3 DEF LifeInv, OffersOnce
  <2>5. OffersOnce'
    BY <1>3, <1>6, <2>2, <2>3, <2>4 DEF LifeInv, OffersOnce
  <2>6. \A s \in Relay, j \in Call :
          /\ MayCome(s, j)' => MayCome(s, j)
          /\ j # m.call => (MayCome(s, j)' <=> MayCome(s, j))
    BY <1>3, <2>2, <2>3 DEF MayCome
  <2> QED
    BY <1>3, <1>4, <1>5, <2>4, <2>5, <2>6 DEF GivesUp
<1> QED
  BY <1>7, <1>8

\* The offer in hand is the relay's only way to the call of another relay.
LEMMA DispatchCreateStep ==
  ASSUME LifeInv, NEW r \in Relay, DispatchCreate(r)
  PROVE  OneEnters' /\ OffersOnce' /\ \E k \in Call : Enters(r, k)
<1>1. TypeOK /\ OffersTravel
  BY DEF LifeInv, RouteInv, Inv
<1>2. PICK m \in dmsg[r] : reg' = [reg EXCEPT ![r][m.call] = "Pending"]
  BY DEF DispatchCreate, SetReg
<1>3. /\ UNCHANGED <<pc, job, choice, wire, dmsg>>
      /\ dpc[r] = "create" /\ dpc'[r] = "deliver"
      /\ \A s \in Relay \ {r} : dpc'[s] = dpc[s]
  BY <1>1 DEF DispatchCreate, DGoto, TypeOK, task
<1>4. m.call \in Call /\ r # Home[Caller[m.call]] /\ OfferInHand(r, m.call)
  BY <1>1, <1>3 DEF TypeOK, Message, OffersTravel, OfferInHand
<1>5. \A j : OfferInHand(r, j) => j = m.call
  BY <1>2 DEF OfferInHand, LifeInv, OffersOnce
<1>6. /\ \A s, j : OfferOnWire(s, j)' <=> OfferOnWire(s, j)
      /\ \A j : ~OfferInHand(r, j)'
      /\ \A s, j : s \in Relay \ {r} => (OfferInHand(s, j)' <=> OfferInHand(s, j))
  BY <1>3 DEF OfferOnWire, OfferInHand
<1>7. /\ choice[m.call] # "unused" /\ ~OfferOnWire(r, m.call)
      /\ \A d \in Conn : pc[d] = "routing" => job[d] # m.call
  BY <1>4 DEF LifeInv, OffersOnce
<1>8. OneEnters'
  BY <1>3 DEF LifeInv, OneEnters
<1>9. OffersOnce'
  BY <1>3, <1>6 DEF LifeInv, OffersOnce
<1>10. MayCome(r, m.call) /\ ~MayCome(r, m.call)'
  BY <1>3, <1>4, <1>6, <1>7 DEF MayCome
<1>11. \A s \in Relay, j \in Call : s # r \/ j # m.call =>
         (MayCome(s, j)' <=> MayCome(s, j))
  BY <1>3, <1>5, <1>6 DEF MayCome
<1> QED
  BY <1>2, <1>3, <1>4, <1>7, <1>8, <1>9, <1>10, <1>11 DEF Enters

\* A relay that gives a call up, or takes its one occasion, has entered every
\* call once.
LEMMA EnteredStep ==
  ASSUME TypeOK, EnteredOnce,
         \/ Move /\ \A r \in Relay, k \in Call : MayCome(r, k)' <=> MayCome(r, k)
         \/ \E k \in Call : GivesUp(k)
         \/ \E r \in Relay, k \in Call : Enters(r, k)
  PROVE  EnteredOnce'
<1>1. CASE Move /\ \A r \in Relay, k \in Call : MayCome(r, k)' <=> MayCome(r, k)
  <2>1. \A r \in Relay, k \in Call : reg'[r][k] # "none" => reg[r][k] # "none"
    <3>1. CASE reg' = reg
      BY <3>1
    <3>2. ASSUME NEW s \in Relay, NEW j \in Call, NEW x,
                 reg' = [reg EXCEPT ![s][j] = x], x = "none" \/ reg[s][j] # "none"
          PROVE  \A r \in Relay, k \in Call : reg'[r][k] # "none" => reg[r][k] # "none"
      BY <3>2 DEF TypeOK
    <3> QED
      BY <1>1, <3>1, <3>2 DEF Move, AnswerMove, EndMove, ActiveMove
  <2> QED
    BY <1>1, <2>1 DEF EnteredOnce
<1>2. CASE \E k \in Call : GivesUp(k)
  BY <1>2 DEF GivesUp, EnteredOnce
<1>3. ASSUME NEW r \in Relay, NEW k \in Call, Enters(r, k)
      PROVE  EnteredOnce'
  <2>1. \A s \in Relay, j \in Call : s # r \/ j # k => reg'[s][j] = reg[s][j]
    BY <1>3 DEF Enters, TypeOK
  <2> QED
    BY <1>3, <2>1 DEF Enters, EnteredOnce
<1> QED
  BY <1>1, <1>2, <1>3

\* Every step is one of these.
LEMMA LifeCases ==
  ASSUME LifeInv, [Next]_vars
  PROVE  /\ OneEnters' /\ OffersOnce'
         /\ \/ Move /\ \A r \in Relay, k \in Call : MayCome(r, k)' <=> MayCome(r, k)
            \/ \E k \in Call : /\ GivesUp(k)
                               /\ \/ choice[k] # "unused" /\ choice' = choice
                                  \/ /\ choice[k] = "unused"
                                     /\ choice' = [choice EXCEPT ![k] = "dialled"]
            \/ \E r \in Relay, k \in Call : Enters(r, k)
<1>1. TypeOK /\ JobsNamed /\ RouteInv /\ OneEnters /\ OffersOnce
  BY DEF LifeInv, RouteInv, Inv
<1>2. CASE Quiet /\ Move
  BY <1>1, <1>2, QuietStep
<1>3. ASSUME NEW c \in Conn, CreateCall(c) \/ StashCall(c)
      PROVE  OneEnters' /\ OffersOnce' /\ \E r \in Relay, k \in Call : Enters(r, k)
  <2>1. job[c] \in Call /\ RelayOf(c) \in Relay
    BY <1>1, <1>3, RelayAssumption, ConnectionAssumption
    DEF CreateCall, StashCall, JobsNamed, RelayOf
  <2> QED
    BY <1>3, <2>1, CreateStep
<1>4. ASSUME NEW c \in Conn, BroadcastOffer(c)
      PROVE  /\ OneEnters' /\ OffersOnce'
             /\ \E k \in Call : GivesUp(k) /\ choice[k] # "unused" /\ choice' = choice
  <2>1. job[c] \in Call /\ choice[job[c]] # "unused" /\ choice' = choice
    BY <1>1, <1>4 DEF BroadcastOffer, JobsNamed, OneEnters, Entering
  <2> QED
    BY <1>4, <2>1, BroadcastStep
<1>5. ASSUME NEW c \in Conn, NEW k \in Call, RecvOffer(c, k)
      PROVE  /\ OneEnters' /\ OffersOnce' /\ GivesUp(k) /\ choice[k] = "unused"
             /\ choice' = [choice EXCEPT ![k] = "dialled"]
  BY <1>5, DialStep DEF RecvOffer
<1>6. ASSUME NEW r \in Relay, Dispatch(r)
      PROVE  /\ OneEnters' /\ OffersOnce' /\ choice' = choice
             /\ \/ Move /\ \A s \in Relay, k \in Call : MayCome(s, k)' <=> MayCome(s, k)
                \/ \E k \in Call : GivesUp(k) /\ choice[k] # "unused"
  BY <1>6, DispatchStep DEF Move
<1>7. ASSUME NEW r \in Relay, DispatchCreate(r)
      PROVE  OneEnters' /\ OffersOnce' /\ \E k \in Call : Enters(r, k)
  BY <1>7, DispatchCreateStep
<1> QED
  BY <1>1, <1>2, <1>3, <1>4, <1>5, <1>6, <1>7, QuietCases

\* Before anything was dialled there is nothing to enter twice.
LEMMA LifeInit == Init => LifeInv
<1> SUFFICES ASSUME Init
             PROVE  LifeInv
  OBVIOUS
<1>1. RouteInv
  BY RouteInit
<1>2. OneEnters /\ OffersOnce /\ EnteredOnce
  BY DEF Init, OneEnters, OffersOnce, EnteredOnce, Entering, OfferOnWire, OfferInHand
<1> QED
  BY <1>1, <1>2 DEF LifeInv

\* Every step keeps it.
LEMMA LifeStep == LifeInv /\ [Next]_vars => LifeInv'
<1> SUFFICES ASSUME LifeInv, [Next]_vars
             PROVE  LifeInv'
  OBVIOUS
<1>1. RouteInv'
  BY RouteStep DEF LifeInv
<1>2. TypeOK /\ EnteredOnce
  BY DEF LifeInv, RouteInv, Inv
<1>3. OneEnters' /\ OffersOnce' /\ EnteredOnce'
  BY <1>2, LifeCases, EnteredStep
<1> QED
  BY <1>1, <1>3 DEF LifeInv

-----------------------------------------------------------------------------
\* What the registries and the occasions make of a relay's entry.
LEMMA EntryValue ==
  ASSUME NEW r \in Relay, NEW k \in Call
  PROVE  Entry[r][k] = IF reg[r][k] # "none" THEN reg[r][k]
                       ELSE IF MayCome(r, k) THEN "expected" ELSE "over"
  BY DEF Entry

\* A call's relays give it up together.
LEMMA GivesUpLife ==
  ASSUME EnteredOnce, NEW k \in Call, GivesUp(k)
  PROVE  \E R \in SUBSET Relay : Life!GiveUpAt(R, k)
<1> DEFINE R == {r \in Relay : MayCome(r, k) /\ ~MayCome(r, k)'}
<1>1. \A r \in R : Entry[r][k] = "expected"
  BY EntryValue DEF EnteredOnce
<1>2. ASSUME NEW r \in Relay
      PROVE  Entry'[r] = IF r \in R THEN [Entry[r] EXCEPT ![k] = "over"] ELSE Entry[r]
  <2>1. Entry'[r] = [j \in Call |-> Entry'[r][j]] /\ Entry[r] = [j \in Call |-> Entry[r][j]]
    BY DEF Entry
  <2>2. \A j \in Call : Entry'[r][j] = IF reg'[r][j] # "none" THEN reg'[r][j]
                          ELSE IF MayCome(r, j)' THEN "expected" ELSE "over"
    BY DEF Entry
  <2>3. \A j \in Call \ {k} : Entry'[r][j] = Entry[r][j]
    BY <2>2, EntryValue DEF GivesUp
  <2>4. r \in R => Entry'[r][k] = "over"
    BY <2>2 DEF GivesUp, EnteredOnce
  <2>5. r \notin R => Entry'[r][k] = Entry[r][k]
    BY <2>2, EntryValue DEF GivesUp
  <2> QED
    BY <2>1, <2>3, <2>4, <2>5
<1>3. Entry' = [r \in Relay |-> Entry'[r]]
  BY DEF Entry
<1>4. Entry' = [r \in Relay |->
         IF r \in R THEN [Entry[r] EXCEPT ![k] = "over"] ELSE Entry[r]]
  BY <1>2, <1>3
<1> QED
  BY <1>1, <1>4 DEF Life!GiveUpAt

\* A step that touches what one relay has of one call.
LEMMA OneEntry ==
  ASSUME TypeOK, NEW r \in Relay, NEW k \in Call,
         \A s \in Relay, j \in Call : s # r \/ j # k =>
           reg'[s][j] = reg[s][j] /\ (MayCome(s, j)' <=> MayCome(s, j))
  PROVE  Entry' = [Entry EXCEPT ![r][k] = Entry'[r][k]]
<1>1. \A s \in Relay, j \in Call :
        Entry'[s][j] = IF reg'[s][j] # "none" THEN reg'[s][j]
                       ELSE IF MayCome(s, j)' THEN "expected" ELSE "over"
  BY DEF Entry
<1>2. \A s \in Relay, j \in Call : s # r \/ j # k => Entry'[s][j] = Entry[s][j]
  BY <1>1, EntryValue
<1>3. /\ Entry' = [s \in Relay |-> [j \in Call |-> Entry'[s][j]]]
      /\ Entry = [s \in Relay |-> [j \in Call |-> Entry[s][j]]]
  BY DEF Entry
<1> QED
  BY <1>2, <1>3

\* What a step does to the calls' lives: the relays that give one up, the one
\* that enters it, and a registry that ends or activates a call it has.
LEMMA LifeMoves ==
  ASSUME LifeInv, [Next]_vars
  PROVE  [Life!Next]_(Life!vars)
<1>1. TypeOK /\ EnteredOnce
  BY DEF LifeInv, RouteInv, Inv
<1>2. ASSUME NEW k \in Call, GivesUp(k), choice[k] # "unused", choice' = choice
      PROVE  Life!GiveUp(k)
  BY <1>1, <1>2, GivesUpLife DEF Life!GiveUp
<1>3. ASSUME NEW k \in Call, GivesUp(k), choice[k] = "unused",
             choice' = [choice EXCEPT ![k] = "dialled"]
      PROVE  Life!Dial(k)
  BY <1>1, <1>3, GivesUpLife DEF Life!Dial
<1>4. ASSUME NEW r \in Relay, NEW k \in Call, Enters(r, k)
      PROVE  Life!Enter(r, k)
  <2>1. Entry' = [Entry EXCEPT ![r][k] = Entry'[r][k]]
    BY <1>1, <1>4, OneEntry DEF Enters, TypeOK
  <2>2. Entry[r][k] = "expected"
    BY <1>1, <1>4, EntryValue DEF Enters, EnteredOnce
  <2>3. Entry'[r][k] = "Pending"
    BY <1>1, <1>4 DEF Enters, Entry, TypeOK
  <2> QED
    BY <1>4, <2>1, <2>2, <2>3 DEF Enters, Life!Enter
<1>5. ASSUME Move, \A r \in Relay, k \in Call : MayCome(r, k)' <=> MayCome(r, k)
      PROVE  [Life!Next]_(Life!vars)
  <2>1. CASE reg' = reg
    <3>1. Entry' = Entry
      BY <1>5, <2>1 DEF Entry
    <3>2. CASE choice' = choice
      BY <3>1, <3>2 DEF Life!vars
    <3>3. CASE AnswerMove
      BY <3>1, <3>3 DEF AnswerMove, Life!Answer, Life!Next
    <3>4. CASE EndMove \/ ActiveMove
      BY <3>2, <3>4 DEF EndMove, ActiveMove
    <3> QED
      BY <1>5, <3>2, <3>3, <3>4 DEF Move
  <2>2. ASSUME NEW r \in Relay, NEW k \in Call, NEW x \in CallState,
               reg' = [reg EXCEPT ![r][k] = x]
        PROVE  /\ Entry' = [Entry EXCEPT ![r][k] = Entry'[r][k]]
               /\ Entry'[r][k] = IF x # "none" THEN x
                                 ELSE IF MayCome(r, k) THEN "expected" ELSE "over"
    <3>1. Entry' = [Entry EXCEPT ![r][k] = Entry'[r][k]]
      BY <1>1, <1>5, <2>2, OneEntry DEF TypeOK
    <3>2. reg'[r][k] = x
      BY <1>1, <2>2 DEF TypeOK
    <3> QED
      BY <1>5, <3>1, <3>2 DEF Entry
  <2>3. ASSUME NEW r \in Relay, NEW k \in Call,
               choice' = choice, reg' = [reg EXCEPT ![r][k] = "none"], reg[r][k] # "none"
        PROVE  Life!End(r, k)
    <3>1. Entry[r][k] \in {"Pending", "Active"} /\ ~MayCome(r, k)
      BY <1>1, <2>3, EntryValue DEF EnteredOnce, TypeOK, CallState
    <3>2. Entry' = [Entry EXCEPT ![r][k] = "over"]
      BY <2>2, <2>3, <3>1 DEF CallState
    <3> QED
      BY <2>3, <3>1, <3>2 DEF Life!End
  <2>4. ASSUME NEW r \in Relay, NEW k \in Call,
               reg' = [reg EXCEPT ![r][k] = "none"], reg[r][k] = "none"
        PROVE  reg' = reg
    BY <1>1, <2>4 DEF TypeOK
  <2>5. ASSUME NEW r \in Relay, NEW k \in Call, choice' = choice,
               choice[k] = "Accept", reg[r][k] = "Pending",
               reg' = [reg EXCEPT ![r][k] = "Active"]
        PROVE  Life!Activate(r, k)
    <3>1. Entry[r][k] = "Pending"
      BY <2>5, EntryValue
    <3>2. Entry' = [Entry EXCEPT ![r][k] = "Active"]
      BY <2>2, <2>5 DEF CallState
    <3> QED
      BY <2>5, <3>1, <3>2 DEF Life!Activate
  <2>6. CASE EndMove
    <3>1. PICK r \in Relay, k \in Call : reg' = [reg EXCEPT ![r][k] = "none"]
      BY <2>6 DEF EndMove
    <3>2. CASE reg[r][k] = "none"
      BY <2>1, <2>4, <3>1, <3>2
    <3>3. CASE reg[r][k] # "none"
      BY <2>3, <2>6, <3>1, <3>3 DEF EndMove, Life!Next
    <3> QED
      BY <3>2, <3>3
  <2>7. CASE ActiveMove
    BY <2>5, <2>7 DEF ActiveMove, Life!Next
  <2> QED
    BY <1>5, <2>1, <2>6, <2>7 DEF Move, AnswerMove
<1> QED
  BY <1>2, <1>3, <1>4, <1>5, LifeCases DEF Life!Next

\* The registries of the federated relays, which handlers read and write with a
\* lock per access, and the signals between them keep every call to one life:
\* each relay enters it at most once, activates it only when its callee has
\* accepted, and has it no more after its end.
THEOREM CallsLiveOnce == Spec => ImplementsCallLife
<1>1. Init => Life!Init
  BY DEF Init, Life!Init, Entry, MayCome
<1> QED
  BY <1>1, LifeInit, LifeStep, LifeMoves, PTL DEF Spec, ImplementsCallLife, Life!Spec

\* A call that is over at a relay, rejected, hung up or lost with a connection
\* there, stays over: no late answer, no forwarded offer and no other handler
\* between its two locks brings its registry entry back.
THEOREM EndedStaysEnded ==
  Spec => [][\A r \in Relay, k \in Call : Entry[r][k] = "over" => Entry'[r][k] = "over"]_vars
<1>1. ASSUME [Life!Next]_(Life!vars),
             Entry \in [Relay -> [Call -> {"expected", "Pending", "Active", "over"}]],
             NEW r \in Relay, NEW k \in Call, Entry[r][k] = "over"
      PROVE  Entry'[r][k] = "over"
  <2>1. CASE UNCHANGED Life!vars
    BY <1>1, <2>1 DEF Life!vars
  <2>2. ASSUME NEW R \in SUBSET Relay, NEW j \in Call, Life!GiveUpAt(R, j)
        PROVE  Entry'[r][k] = "over"
    BY <1>1, <2>2 DEF Life!GiveUpAt
  <2>3. ASSUME NEW j \in Call, Life!Dial(j) \/ Life!GiveUp(j)
        PROVE  Entry'[r][k] = "over"
    BY <2>2, <2>3 DEF Life!Dial, Life!GiveUp
  <2>4. ASSUME NEW j \in Call, NEW mode, Life!Answer(j, mode)
        PROVE  Entry'[r][k] = "over"
    BY <1>1, <2>4 DEF Life!Answer
  <2>5. ASSUME NEW j \in Call, NEW s \in Relay,
               Life!Enter(s, j) \/ Life!Activate(s, j) \/ Life!End(s, j)
        PROVE  Entry'[r][k] = "over"
    BY <1>1, <2>5 DEF Life!Enter, Life!Activate, Life!End
  <2> QED
    BY <1>1, <2>1, <2>3, <2>4, <2>5 DEF Life!Next
<1>2. LifeInv => Entry \in [Relay -> [Call -> {"expected", "Pending", "Active", "over"}]]
  BY DEF LifeInv, RouteInv, Inv, TypeOK, CallState, Entry
<1>3. LifeInv /\ [Next]_vars =>
        [\A r \in Relay, k \in Call : Entry[r][k] = "over" => Entry'[r][k] = "over"]_vars
  BY <1>1, <1>2, LifeMoves, LifeStep
<1> QED
  BY <1>3, LifeInit, LifeStep, PTL DEF Spec
=============================================================================
