-------------------------- MODULE SignalClientProofs --------------------------
(* Proofs about SignalClient, for any relays, connections, commands, faults. *)
EXTENDS SignalClient, TLAPS

\* Supervisors are tasks, and the other tasks are commands.
LEMMA Tasks == Conn \subseteq Task /\ Task = Conn \cup Command
  BY BoundAssumption DEF Conn, Task, Command

\* The types hold before any task starts.
LEMMA TypeInit == Init => TypeOK
<1> SUFFICES ASSUME Init PROVE TypeOK
  OBVIOUS
<1>1. DOMAIN pc = Task /\ \A t \in Task : pc[t] = "idle"
  BY DEF Init
<1>2. 0 \in 0..MaxFaults
  BY BoundAssumption
<1>3. /\ loop \in [Conn -> {"none", "ready", "served", "over"}]
      /\ target \in [Task -> Relay \cup {NoRelay}]
      /\ made \in [Task -> Conn \cup {NoConn}]
  BY DEF Init
<1> QED
  BY <1>1, <1>2, <1>3, Tasks DEF Init, TypeOK

\* Every step keeps the types.
LEMMA TypeStep ==
  ASSUME TypeOK, [Next]_vars
  PROVE  TypeOK'
<1> USE Tasks, BoundAssumption DEF TypeOK, Goto, Finish, Watch, Clear, Given
<1>1. CASE UNCHANGED vars
  BY <1>1 DEF vars
<1>2. ASSUME NEW t \in Command, NEW r \in Relay, Register(t, r)
      PROVE  TypeOK'
  BY <1>2 DEF Register, Command
<1>3. ASSUME NEW t \in Command, Deregister(t) \/ CommandStep(t)
      PROVE  TypeOK'
  <2>1. CASE Deregister(t)
    BY <2>1 DEF Deregister, Command
  <2>2. CASE Teardown(t)
    BY <2>2 DEF Teardown, Command
  <2>3. CASE Announce(t)
    BY <2>3 DEF Announce, Command
  <2> QED
    BY <1>3, <2>1, <2>2, <2>3 DEF CommandStep
<1>4. ASSUME NEW t \in Task, Attempt(t)
      PROVE  TypeOK'
  <2>1. CASE AttemptOk(t)
    BY <2>1 DEF AttemptOk, Command
  <2>2. CASE AttemptFailed(t)
    BY <2>2 DEF AttemptFailed, Command
  <2>3. CASE Store(t)
    BY <2>3 DEF Store, Command
  <2> QED
    BY <1>4, <2>1, <2>2, <2>3 DEF Attempt
<1>5. ASSUME NEW c \in Conn, Drop(c) \/ LoopExit(c)
      PROVE  TypeOK'
  <2>1. CASE Drop(c)
    BY <2>1 DEF Drop
  <2>2. CASE LoopExit(c)
    BY <2>2 DEF LoopExit, Command
  <2> QED
    BY <1>5, <2>1, <2>2
<1>6. ASSUME NEW c \in Conn, SupervisorStep(c)
      PROVE  TypeOK'
  <2>1. CASE SupervisorClaim(c)
    BY <2>1 DEF SupervisorClaim, Command
  <2>2. CASE SupervisorCheck(c)
    BY <2>2 DEF SupervisorCheck, Command
  <2>3. CASE SupervisorFree(c)
    BY <2>3 DEF SupervisorFree, Command
  <2>4. CASE SupervisorReclaim(c)
    BY <2>4 DEF SupervisorReclaim, Command
  <2>5. CASE SupervisorRelease(c)
    BY <2>5 DEF SupervisorRelease, Command
  <2> QED
    BY <1>6, <2>1, <2>2, <2>3, <2>4, <2>5 DEF SupervisorStep
<1> QED
  BY <1>1, <1>2, <1>3, <1>4, <1>5, <1>6 DEF Next

-----------------------------------------------------------------------------
\* The connection in SignalState is the one just stored, and its loop runs:
\* a loop that ends takes the connection out.
LEMMA TransportStep ==
  ASSUME TypeOK, TransportServed, [Next]_vars
  PROVE  TransportServed'
<1> USE Tasks, NamesAssumption DEF TypeOK, TransportServed
<1>1. CASE UNCHANGED <<transport, loop>>
  BY <1>1
<1>2. CASE transport' = NoConn
  BY <1>2
<1>3. ASSUME NEW t \in Task, AttemptOk(t)
      PROVE  TransportServed'
  BY <1>3 DEF AttemptOk
<1>4. ASSUME NEW t \in Task, Store(t)
      PROVE  TransportServed'
  BY <1>4 DEF Store
<1> QED
  BY <1>1, <1>2, <1>3, <1>4
     DEF Next, vars, Register, Deregister, CommandStep, Teardown, Announce, Clear,
         Attempt, AttemptFailed, Drop, LoopExit, SupervisorStep, SupervisorClaim,
         SupervisorCheck, SupervisorFree, SupervisorReclaim, SupervisorRelease

\* Where a supervisor holds the guard.
Holding == {"check", "free", "release"}

\* A step that leaves the guard as it is, and the supervisors that hold it
\* where they may hold it, keeps GuardHeld.
LEMMA GuardKept ==
  ASSUME TypeOK, GuardHeld, guard' = guard,
         \A c \in Conn : pc[c] \in Holding => pc'[c] \in Holding
  PROVE  GuardHeld'
  BY DEF GuardHeld, Holding

\* The guard is set by a supervisor that goes on to look at the wish, and
\* reset by the one that leaves Holding.
LEMMA GuardStep ==
  ASSUME TypeOK, GuardHeld, [Next]_vars
  PROVE  GuardHeld'
<1> USE Tasks DEF TypeOK, Goto, Finish, Given, Holding
<1>1. CASE UNCHANGED vars
  BY <1>1, GuardKept DEF vars
<1>2. ASSUME NEW t \in Command, NEW r \in Relay, Register(t, r)
      PROVE  GuardHeld'
  BY <1>2, GuardKept DEF Register
<1>3. ASSUME NEW t \in Command, Deregister(t) \/ CommandStep(t)
      PROVE  GuardHeld'
  BY <1>3, GuardKept DEF Deregister, CommandStep, Teardown, Announce
<1>4. ASSUME NEW t \in Task, Attempt(t)
      PROVE  GuardHeld'
  BY <1>4, GuardKept DEF Attempt, AttemptOk, AttemptFailed, Store
<1>5. ASSUME NEW c \in Conn, Drop(c) \/ LoopExit(c)
      PROVE  GuardHeld'
  <2>1. CASE Drop(c)
    BY <2>1, GuardKept DEF Drop
  <2>2. CASE LoopExit(c)
    \* A supervisor starts only when the guard is free.
    <3>1. CASE guard
      BY <2>2, <3>1, GuardKept DEF LoopExit
    <3>2. CASE ~guard
      BY <2>2, <3>2 DEF LoopExit, GuardHeld
    <3> QED
      BY <3>1, <3>2
  <2> QED
    BY <1>5, <2>1, <2>2
<1>6. ASSUME NEW c \in Conn, SupervisorStep(c)
      PROVE  GuardHeld'
  <2>1. CASE SupervisorClaim(c)
    <3>1. CASE guard
      BY <2>1, <3>1, GuardKept DEF SupervisorClaim
    <3>2. CASE ~guard
      BY <2>1, <3>2 DEF SupervisorClaim, GuardHeld
    <3> QED
      BY <3>1, <3>2
  <2>2. CASE SupervisorCheck(c)
    BY <2>2, GuardKept DEF SupervisorCheck
  <2>3. CASE SupervisorReclaim(c)
    BY <2>3 DEF SupervisorReclaim, GuardHeld
  <2>4. CASE SupervisorFree(c) \/ SupervisorRelease(c)
    BY <2>4 DEF SupervisorFree, SupervisorRelease, GuardHeld
  <2> QED
    BY <1>6, <2>1, <2>2, <2>3, <2>4 DEF SupervisorStep
<1> QED
  BY <1>1, <1>2, <1>3, <1>4, <1>5, <1>6 DEF Next

-----------------------------------------------------------------------------
Inv == TypeOK /\ TransportServed /\ GuardHeld

\* Together they are inductive.
THEOREM Inductive == Spec => []Inv
<1>1. Init => Inv
  BY TypeInit, NamesAssumption DEF Init, Inv, TransportServed, GuardHeld
<1>2. Inv /\ [Next]_vars => Inv'
  BY TypeStep, TransportStep, GuardStep DEF Inv
<1> QED
  BY <1>1, <1>2, PTL DEF Spec

\* The state of the client keeps its type.
THEOREM SpecTypeOK == Spec => []TypeOK
<1>1. Inv => TypeOK
  BY DEF Inv
<1> QED
  BY <1>1, Inductive, PTL

\* The connection that commands send their signals on always has a receive
\* loop that will notice when it dies (register_signal, the end of the
\* receive loop, signal_reconnect_supervisor).
THEOREM TransportIsServed == Spec => []TransportServed
<1>1. Inv => TransportServed
  BY DEF Inv
<1> QED
  BY <1>1, Inductive, PTL

\* reconnect_in_progress never leaks: while it is set some supervisor is on
\* its way to reset it.
THEOREM GuardIsHeld == Spec => []GuardHeld
<1>1. Inv => GuardHeld
  BY DEF Inv
<1> QED
  BY <1>1, Inductive, PTL
===============================================================================
