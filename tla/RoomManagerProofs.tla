-------------------------- MODULE RoomManagerProofs --------------------------
(* Proofs about RoomManager, for any number of connections, rooms, clients    *)
(* and sessions.                                                              *)
EXTENDS RoomManager, FiniteSetTheorems, TLAPS

\* A step of the relay is a step of one task, the end of a call, or nothing.
LEMMA NextCases ==
  ASSUME [Next]_vars
  PROVE  \/ \E c \in Conn : Step(c)
         \/ \E r \in CallRoom : EndCall(r)
         \/ UNCHANGED vars
  BY DEF Next, AllDone

-----------------------------------------------------------------------------
\* Every step keeps the types.
LEMMA TypeStep == TypeOK /\ [Next]_vars => TypeOK'
<1> SUFFICES ASSUME TypeOK, [Next]_vars
             PROVE  TypeOK'
  OBVIOUS
<1> USE ConnAssumption, FpAssumption, RoomAssumption
        DEF TypeOK, Goto, task, shared, PC, Events, Quic
<1>1. CASE UNCHANGED vars
  BY <1>1 DEF vars
<1>2. ASSUME NEW r \in CallRoom, EndCall(r)
      PROVE  TypeOK'
  BY <1>2 DEF EndCall
<1>3. ASSUME NEW c \in Conn, Step(c)
      PROVE  TypeOK'
  <2>1. CASE Admit(c)
    BY <2>1 DEF Admit
  <2>2. CASE AcceptWs(c)
    BY <2>2, LimitAssumption DEF AcceptWs
  <2>3. CASE CreateSession(c)
    BY <2>3 DEF CreateSession
  <2>4. CASE CheckCallRoom(c)
    BY <2>4 DEF CheckCallRoom
  <2>5. CASE JoinCheck(c)
    BY <2>5 DEF JoinCheck
  <2>6. CASE JoinCommit(c)
    BY <2>6 DEF JoinCommit, SameFingerprint
  <2>7. CASE RegisterWs(c)
    BY <2>7 DEF RegisterWs
  <2>8. CASE RecvPacket(c)
    BY <2>8 DEF RecvPacket
  <2>9. CASE CachePacket(c)
    BY <2>9 DEF CachePacket
  <2>10. CASE Disconnect(c)
    BY <2>10 DEF Disconnect
  <2>11. CASE LeaveRemove(c)
    BY <2>11 DEF LeaveRemove
  <2>12. CASE LeaveClose(c)
    BY <2>12 DEF LeaveClose
  <2>13. CASE LeaveClear(c)
    BY <2>13 DEF LeaveClear
  <2>14. CASE LeaveAnnounce(c)
    BY <2>14 DEF LeaveAnnounce
  <2>15. CASE BroadcastDone(c)
    BY <2>15 DEF BroadcastDone
  <2>16. CASE ForceLeave(c)
    BY <2>16 DEF ForceLeave
  <2>17. CASE Cleanup(c)
    BY <2>17 DEF Cleanup
  <2> QED
    BY <1>3, <2>1, <2>2, <2>3, <2>4, <2>5, <2>6, <2>7, <2>8, <2>9, <2>10,
       <2>11, <2>12, <2>13, <2>14, <2>15, <2>16, <2>17 DEF Step
<1> QED
  BY <1>1, <1>2, <1>3, NextCases

\* A relay that has just started has them.
LEMMA TypeInit == Init => TypeOK
BY ConnAssumption, FpAssumption, RoomAssumption DEF Init, TypeOK, PC, Events

\* The relay's data structures keep their types.
THEOREM TypeCorrect == Spec => []TypeOK
BY TypeInit, TypeStep, PTL DEF Spec

-----------------------------------------------------------------------------
\* A participant is off the roster by the time its task is past leave.
LEMMA NoGhostsStep ==
  ASSUME TypeOK, TypeOK', NoGhosts, [Next]_vars
  PROVE  NoGhosts'
<1> USE ConnAssumption, RoomAssumption DEF TypeOK, Goto, task, shared, PC, Quic, NoGhosts,
        OnRoster
<1>1. CASE UNCHANGED vars
  BY <1>1 DEF vars
<1>2. ASSUME NEW r \in CallRoom, EndCall(r)
      PROVE  NoGhosts'
  BY <1>2 DEF EndCall
<1>3. ASSUME NEW c \in Conn, Step(c)
      PROVE  NoGhosts'
  <2>1. CASE Admit(c)
    BY <2>1 DEF Admit, Authorized
  <2>2. CASE AcceptWs(c)
    BY <2>2 DEF AcceptWs
  <2>3. CASE CreateSession(c)
    BY <2>3 DEF CreateSession
  <2>4. CASE CheckCallRoom(c)
    BY <2>4 DEF CheckCallRoom
  <2>5. CASE JoinCheck(c)
    BY <2>5 DEF JoinCheck
  <2>6. CASE JoinCommit(c)
    BY <2>6 DEF JoinCommit, SameFingerprint
  <2>7. CASE RegisterWs(c)
    BY <2>7 DEF RegisterWs
  <2>8. CASE RecvPacket(c)
    BY <2>8 DEF RecvPacket
  <2>9. CASE CachePacket(c)
    BY <2>9 DEF CachePacket
  <2>10. CASE Disconnect(c)
    BY <2>10 DEF Disconnect
  <2>11. CASE LeaveRemove(c)
    <3>1. CASE room[c] \notin open
      BY <2>11, <3>1 DEF LeaveRemove
    <3>2. CASE room[c] \in open
      <4>1. /\ members' = [members EXCEPT ![room[c]] = @ \ {c}]
            /\ \A d \in Conn : d # c => pc'[d] = pc[d]
            /\ open' = open /\ room' = room
        BY <2>11, <3>2 DEF LeaveRemove
      <4>2. \A r \in Room : c \notin members'[r]
        BY <4>1
      <4> QED
        BY <4>1, <4>2
    <3> QED
      BY <3>1, <3>2
  <2>12. CASE LeaveClose(c)
    BY <2>12 DEF LeaveClose
  <2>13. CASE LeaveClear(c)
    BY <2>13 DEF LeaveClear
  <2>14. CASE LeaveAnnounce(c)
    BY <2>14 DEF LeaveAnnounce
  <2>15. CASE BroadcastDone(c)
    BY <2>15 DEF BroadcastDone
  <2>16. CASE ForceLeave(c)
    BY <2>16 DEF ForceLeave
  <2>17. CASE Cleanup(c)
    BY <2>17 DEF Cleanup
  <2> QED
    BY <1>3, <2>1, <2>2, <2>3, <2>4, <2>5, <2>6, <2>7, <2>8, <2>9, <2>10,
       <2>11, <2>12, <2>13, <2>14, <2>15, <2>16, <2>17 DEF Step
<1> QED
  BY <1>1, <1>2, <1>3, NextCases

-----------------------------------------------------------------------------
\* Only a task that is not on a roster yet changes its fingerprint, and
\* join replaces the one it would collide with.
LEMMA OnePerFingerprintStep ==
  ASSUME TypeOK, TypeOK', NoGhosts, OnePerFingerprint, [Next]_vars
  PROVE  OnePerFingerprint'
<1> USE ConnAssumption, RoomAssumption DEF TypeOK, Goto, task, shared, PC, Quic, NoGhosts,
        OnRoster, OnePerFingerprint
<1>1. CASE UNCHANGED vars
  BY <1>1 DEF vars
<1>2. ASSUME NEW r \in CallRoom, EndCall(r)
      PROVE  OnePerFingerprint'
  BY <1>2 DEF EndCall
<1>3. ASSUME NEW c \in Conn, Step(c)
      PROVE  OnePerFingerprint'
  <2>1. CASE Admit(c)
    <3>1. \A r \in Room : c \notin members[r]
      BY <2>1 DEF Admit
    <3>2. /\ members' = members
          /\ \A d \in Conn : d # c => fp'[d] = fp[d]
      BY <2>1 DEF Admit
    <3> QED
      BY <3>1, <3>2
  <2>2. CASE AcceptWs(c)
    BY <2>2 DEF AcceptWs
  <2>3. CASE CreateSession(c)
    BY <2>3 DEF CreateSession
  <2>4. CASE CheckCallRoom(c)
    BY <2>4 DEF CheckCallRoom
  <2>5. CASE JoinCheck(c)
    BY <2>5 DEF JoinCheck
  <2>6. CASE JoinCommit(c)
    BY <2>6 DEF JoinCommit, SameFingerprint
  <2>7. CASE RegisterWs(c)
    BY <2>7 DEF RegisterWs
  <2>8. CASE RecvPacket(c)
    BY <2>8 DEF RecvPacket
  <2>9. CASE CachePacket(c)
    BY <2>9 DEF CachePacket
  <2>10. CASE Disconnect(c)
    BY <2>10 DEF Disconnect
  <2>11. CASE LeaveRemove(c)
    BY <2>11 DEF LeaveRemove
  <2>12. CASE LeaveClose(c)
    BY <2>12 DEF LeaveClose
  <2>13. CASE LeaveClear(c)
    BY <2>13 DEF LeaveClear
  <2>14. CASE LeaveAnnounce(c)
    BY <2>14 DEF LeaveAnnounce
  <2>15. CASE BroadcastDone(c)
    BY <2>15 DEF BroadcastDone
  <2>16. CASE ForceLeave(c)
    BY <2>16 DEF ForceLeave
  <2>17. CASE Cleanup(c)
    BY <2>17 DEF Cleanup
  <2> QED
    BY <1>3, <2>1, <2>2, <2>3, <2>4, <2>5, <2>6, <2>7, <2>8, <2>9, <2>10,
       <2>11, <2>12, <2>13, <2>14, <2>15, <2>16, <2>17 DEF Step
<1> QED
  BY <1>1, <1>2, <1>3, NextCases

-----------------------------------------------------------------------------
\* join and leave change the qualities with the roster.
LEMMA QualitiesStep ==
  ASSUME TypeOK, TypeOK', QualitiesMatchRoster, [Next]_vars
  PROVE  QualitiesMatchRoster'
<1> USE ConnAssumption, RoomAssumption DEF TypeOK, Goto, task, shared, PC, Quic, QualitiesMatchRoster
<1>1. CASE UNCHANGED vars
  BY <1>1 DEF vars
<1>2. ASSUME NEW r \in CallRoom, EndCall(r)
      PROVE  QualitiesMatchRoster'
  BY <1>2 DEF EndCall
<1>3. ASSUME NEW c \in Conn, Step(c)
      PROVE  QualitiesMatchRoster'
  <2>1. CASE Admit(c)
    BY <2>1 DEF Admit, Authorized
  <2>2. CASE AcceptWs(c)
    BY <2>2 DEF AcceptWs
  <2>3. CASE CreateSession(c)
    BY <2>3 DEF CreateSession
  <2>4. CASE CheckCallRoom(c)
    BY <2>4 DEF CheckCallRoom
  <2>5. CASE JoinCheck(c)
    BY <2>5 DEF JoinCheck
  <2>6. CASE JoinCommit(c)
    BY <2>6 DEF JoinCommit, SameFingerprint
  <2>7. CASE RegisterWs(c)
    BY <2>7 DEF RegisterWs
  <2>8. CASE RecvPacket(c)
    BY <2>8 DEF RecvPacket
  <2>9. CASE CachePacket(c)
    BY <2>9 DEF CachePacket
  <2>10. CASE Disconnect(c)
    BY <2>10 DEF Disconnect
  <2>11. CASE LeaveRemove(c)
    BY <2>11 DEF LeaveRemove
  <2>12. CASE LeaveClose(c)
    BY <2>12 DEF LeaveClose
  <2>13. CASE LeaveClear(c)
    BY <2>13 DEF LeaveClear
  <2>14. CASE LeaveAnnounce(c)
    BY <2>14 DEF LeaveAnnounce
  <2>15. CASE BroadcastDone(c)
    BY <2>15 DEF BroadcastDone
  <2>16. CASE ForceLeave(c)
    BY <2>16 DEF ForceLeave
  <2>17. CASE Cleanup(c)
    BY <2>17 DEF Cleanup
  <2> QED
    BY <1>3, <2>1, <2>2, <2>3, <2>4, <2>5, <2>6, <2>7, <2>8, <2>9, <2>10,
       <2>11, <2>12, <2>13, <2>14, <2>15, <2>16, <2>17 DEF Step
<1> QED
  BY <1>1, <1>2, <1>3, NextCases

-----------------------------------------------------------------------------
\* The ACL decides once, and fingerprint and room do not change afterwards.
LEMMA AdmittedPartiesStep ==
  ASSUME TypeOK, TypeOK', AdmittedParties, [Next]_vars
  PROVE  AdmittedParties'
<1> USE ConnAssumption, RoomAssumption DEF TypeOK, Goto, task, shared, PC, Quic, AdmittedParties
<1>1. CASE UNCHANGED vars
  BY <1>1 DEF vars
<1>2. ASSUME NEW r \in CallRoom, EndCall(r)
      PROVE  AdmittedParties'
  BY <1>2 DEF EndCall
<1>3. ASSUME NEW c \in Conn, Step(c)
      PROVE  AdmittedParties'
  <2>1. CASE Admit(c)
    BY <2>1 DEF Admit, Authorized
  <2>2. CASE AcceptWs(c)
    BY <2>2 DEF AcceptWs
  <2>3. CASE CreateSession(c)
    BY <2>3 DEF CreateSession
  <2>4. CASE CheckCallRoom(c)
    BY <2>4 DEF CheckCallRoom
  <2>5. CASE JoinCheck(c)
    BY <2>5 DEF JoinCheck
  <2>6. CASE JoinCommit(c)
    BY <2>6 DEF JoinCommit, SameFingerprint
  <2>7. CASE RegisterWs(c)
    BY <2>7 DEF RegisterWs
  <2>8. CASE RecvPacket(c)
    BY <2>8 DEF RecvPacket
  <2>9. CASE CachePacket(c)
    BY <2>9 DEF CachePacket
  <2>10. CASE Disconnect(c)
    BY <2>10 DEF Disconnect
  <2>11. CASE LeaveRemove(c)
    BY <2>11 DEF LeaveRemove
  <2>12. CASE LeaveClose(c)
    BY <2>12 DEF LeaveClose
  <2>13. CASE LeaveClear(c)
    BY <2>13 DEF LeaveClear
  <2>14. CASE LeaveAnnounce(c)
    BY <2>14 DEF LeaveAnnounce
  <2>15. CASE BroadcastDone(c)
    BY <2>15 DEF BroadcastDone
  <2>16. CASE ForceLeave(c)
    BY <2>16 DEF ForceLeave
  <2>17. CASE Cleanup(c)
    BY <2>17 DEF Cleanup
  <2> QED
    BY <1>3, <2>1, <2>2, <2>3, <2>4, <2>5, <2>6, <2>7, <2>8, <2>9, <2>10,
       <2>11, <2>12, <2>13, <2>14, <2>15, <2>16, <2>17 DEF Step
<1> QED
  BY <1>1, <1>2, <1>3, NextCases

-----------------------------------------------------------------------------
\* One slot more stays within a limit that was not reached, one less too.
LEMMA SlotArithmetic ==
  ASSUME NEW S, IsFiniteSet(S), NEW x, NEW n \in Nat
  PROVE  /\ Cardinality(S) < n => Cardinality(S \cup {x}) <= n
         /\ Cardinality(S) <= n => Cardinality(S \ {x}) <= n
<1>1. Cardinality(S) \in Nat
  BY FS_CardinalityType
<1>2. Cardinality(S \cup {x}) = IF x \in S THEN Cardinality(S)
                                          ELSE Cardinality(S) + 1
  BY FS_AddElement
<1>3. Cardinality(S \ {x}) = IF x \in S THEN Cardinality(S) - 1
                                       ELSE Cardinality(S)
  BY FS_RemoveElement
<1> QED
  BY <1>1, <1>2, <1>3

\* create_session takes a slot only below the limit; every path to the end of
\* a task that holds one gives it back.
LEMMA SlotsHeldStep ==
  ASSUME TypeOK, TypeOK', SlotsHeld, [Next]_vars
  PROVE  SlotsHeld'
<1> USE ConnAssumption, LimitAssumption DEF TypeOK, Goto, PC, Quic, SlotsHeld
<1>0. IsFiniteSet(sessions) /\ Cardinality(sessions) \in Nat
  BY FS_Subset, FS_CardinalityType
<1>1. CASE UNCHANGED vars
  BY <1>1 DEF vars
<1>2. ASSUME NEW r \in CallRoom, EndCall(r)
      PROVE  SlotsHeld'
  BY <1>2 DEF EndCall
<1>3. ASSUME NEW c \in Conn, Step(c)
      PROVE  SlotsHeld'
  <2> DEFINE Took == Cardinality(sessions) < MaxSessions
                       /\ sessions' = sessions \cup {c}
             Gave == sessions' = sessions \ {c}
  <2>1. Took => Cardinality(sessions') <= MaxSessions
    BY <1>0, SlotArithmetic
  <2>2. Gave => Cardinality(sessions') <= MaxSessions
    BY <1>0, SlotArithmetic
  <2>3. CASE CreateSession(c)
    <3>1. CASE Took /\ pc'[c] \in {"sizing", "joining"}
      BY <2>1, <2>3, <3>1 DEF CreateSession
    <3>2. CASE UNCHANGED sessions /\ pc'[c] = "done"
      BY <2>3, <3>2 DEF CreateSession
    <3> QED
      BY <2>3, <3>1, <3>2 DEF CreateSession
  <2>4. CASE CheckCallRoom(c)
    <3>1. CASE Gave /\ pc'[c] = "done"
      BY <2>2, <2>4, <3>1 DEF CheckCallRoom
    <3>2. CASE UNCHANGED sessions /\ pc'[c] = "joining"
      BY <2>4, <3>2 DEF CheckCallRoom
    <3> QED
      BY <2>4, <3>1, <3>2 DEF CheckCallRoom
  <2>5. CASE Cleanup(c)
    BY <2>2, <2>5 DEF Cleanup
  <2>6. CASE Admit(c) \/ AcceptWs(c)
    BY <2>6 DEF Admit, AcceptWs
  <2>7. CASE JoinCheck(c) \/ JoinCommit(c) \/ RegisterWs(c)
    BY <2>7 DEF JoinCheck, JoinCommit, RegisterWs
  <2>8. CASE RecvPacket(c) \/ CachePacket(c) \/ Disconnect(c)
    BY <2>8 DEF RecvPacket, CachePacket, Disconnect
  <2>9. CASE LeaveRemove(c)
    BY <2>9 DEF LeaveRemove
  <2>10. CASE LeaveClose(c) \/ LeaveClear(c) \/ LeaveAnnounce(c)
    BY <2>10 DEF LeaveClose, LeaveClear, LeaveAnnounce
  <2>11. CASE BroadcastDone(c) \/ ForceLeave(c)
    BY <2>11 DEF BroadcastDone, ForceLeave
  <2> QED
    BY <1>3, <2>3, <2>4, <2>5, <2>6, <2>7, <2>8, <2>9, <2>10, <2>11 DEF Step
<1> QED
  BY <1>1, <1>2, <1>3, NextCases

-----------------------------------------------------------------------------
\* The inductive invariant holds in every reachable state of the relay.
THEOREM Invariance == Spec => []Inv
<1>1. Init => Inv
  <2> SUFFICES ASSUME Init
               PROVE  Inv
    OBVIOUS
  <2>1. TypeOK
    BY TypeInit
  <2>2. NoGhosts /\ OnePerFingerprint /\ QualitiesMatchRoster /\ AdmittedParties
    BY DEF Init, NoGhosts, OnePerFingerprint, QualitiesMatchRoster,
           AdmittedParties, Quic
  <2>3. SlotsHeld
    BY FS_EmptySet, LimitAssumption DEF Init, SlotsHeld
  <2> QED
    BY <2>1, <2>2, <2>3 DEF Inv
<1>2. Inv /\ [Next]_vars => Inv'
  BY TypeStep, NoGhostsStep, OnePerFingerprintStep, QualitiesStep,
     AdmittedPartiesStep, SlotsHeldStep DEF Inv
<1> QED
  BY <1>1, <1>2, PTL DEF Spec

\* No participant stays on a roster after its task ended, on any interleaving
\* of joins, replacements, leaves and room closes.
THEOREM RosterHasNoGhosts == Spec => []NoGhosts
<1>1. Inv => NoGhosts
  BY DEF Inv
<1> QED
  BY <1>1, Invariance, PTL

\* A fingerprint is on a roster at most once.
THEOREM FingerprintsUnique == Spec => []OnePerFingerprint
<1>1. Inv => OnePerFingerprint
  BY DEF Inv
<1> QED
  BY <1>1, Invariance, PTL

\* The tier of a room is computed from exactly its roster.
THEOREM QualitiesExact == Spec => []QualitiesMatchRoster
<1>1. Inv => QualitiesMatchRoster
  BY DEF Inv
<1> QED
  BY <1>1, Invariance, PTL

\* At most two QUIC participants in a call room, although room_size is read
\* outside join: the members act for distinct fingerprints (OnePerFingerprint)
\* and the ACL admits only two (AdmittedParties).
THEOREM CallRoomsStayPairs == Spec => []CallRoomLimit
<1>1. Inv => CallRoomLimit
  <2> SUFFICES ASSUME Inv, NEW r \in CallRoom,
                      NEW c \in members[r] \ WsConn,
                      NEW d \in members[r] \ WsConn,
                      NEW e \in members[r] \ WsConn
               PROVE  c = d \/ d = e \/ c = e
    BY DEF CallRoomLimit
  <2>1. r \in Room /\ Caller[r] \in Fp /\ Callee[r] \in Fp
    BY RoomAssumption
  <2>2. \A x \in members[r] \ WsConn : fp[x] \in {Caller[r], Callee[r]}
    BY <2>1, RoomAssumption
       DEF Inv, TypeOK, NoGhosts, OnRoster, AdmittedParties, Quic
  <2>3. \A x, y \in members[r] \ WsConn : x # y => fp[x] # fp[y]
    BY <2>1, <2>2, FpAssumption DEF Inv, OnePerFingerprint
  <2> QED
    BY <2>2, <2>3
<1> QED
  BY <1>1, Invariance, PTL

\* The session limit is never exceeded and no ended task keeps a slot.
THEOREM SessionsAccounted == Spec => []SessionAccounting
<1>1. Inv => SessionAccounting
  BY DEF Inv, TypeOK, NoGhosts, OnRoster, SlotsHeld, SessionAccounting
<1> QED
  BY <1>1, Invariance, PTL

=============================================================================
