---------------------------- MODULE SignalClient ----------------------------
(***************************************************************************)
(* How the desktop client keeps its signal connection (SignalState in      *)
(* desktop/src-tauri/src/lib.rs).  register_signal and deregister are      *)
(* commands of the user interface and may overlap; each connection has a   *)
(* receive loop, and a loop that ends while the user still wants to be     *)
(* registered starts a reconnect supervisor.  Every action is what one of  *)
(* these tasks does under one lock of SignalState, or one attempt to       *)
(* connect and register.                                                   *)
(*                                                                         *)
(* A receive loop starts at most one supervisor, so a supervisor has the   *)
(* name of the connection whose loop started it.  Backing off only takes   *)
(* time and is the gap between SupervisorCheck and SupervisorFree.         *)
(***************************************************************************)
EXTENDS Naturals, FiniteSets

CONSTANTS
  Relay,      \* relays the user may choose
  NoRelay,    \* desired_relay_addr is None
  NoConn,     \* transport is None
  MaxConns,    \* bound: connections ever made
  MaxCommands, \* bound: calls of register_signal and deregister
  MaxFaults    \* bound: connections lost and attempts failed, together

\* The tasks: a supervisor per connection, then the commands.
Conn == 1..MaxConns
Task == 1..(MaxConns + MaxCommands)
Command == Task \ Conn

ASSUME NamesAssumption == NoRelay \notin Relay /\ NoConn \notin Conn
ASSUME BoundAssumption ==
  MaxConns \in Nat /\ MaxCommands \in Nat /\ MaxFaults \in Nat

VARIABLES
  desired,    \* desired_relay_addr
  transport,  \* the connection in SignalState
  guard,      \* reconnect_in_progress
  loop,       \* the receive loop of each connection
  up,         \* connections that are alive
  pc,         \* where each command and each supervisor is
  target,     \* the relay it registers with
  made,       \* the connection it made and has not stored yet
  faults,     \* faults so far
  owed,       \* history: a loop ended while a relay was desired, and no
              \* connection has been stored nor the wish withdrawn since
  overlapped  \* history: two tasks, or two loops, have run at once

vars == <<desired, transport, guard, loop, up, pc, target, made, faults, owed,
          overlapped>>

Init ==
  /\ desired = NoRelay
  /\ transport = NoConn
  /\ guard = FALSE
  /\ loop = [c \in Conn |-> "none"]
  /\ up = {}
  /\ pc = [t \in Task |-> "idle"]
  /\ target = [t \in Task |-> NoRelay]
  /\ made = [t \in Task |-> NoConn]
  /\ faults = 0
  /\ owed = FALSE
  /\ overlapped = FALSE

Goto(t, where) == pc' = [pc EXCEPT ![t] = where]
\* The task is over and its variables are gone.
Finish(t) ==
  /\ Goto(t, "done")
  /\ target' = [target EXCEPT ![t] = NoRelay]

\* Commands are told apart by the order in which they are given.
Given(t) == pc[t] = "idle" /\ \A u \in Command : u < t => pc[u] # "idle"

\* Past its start and before its end.
Busy(t) == pc[t] \notin {"idle", "done"}

\* Two tasks, or the receive loops of two connections, run at once.
Overlap ==
  \/ \E t, u \in Task : t # u /\ Busy(t) /\ Busy(u)
  \/ \E c, d \in Conn : c # d /\ loop[c] = "served" /\ loop[d] = "served"

Watch == overlapped' = (overlapped \/ Overlap')

-----------------------------------------------------------------------------
(* The user's commands *)

\* internal_deregister: close the connection and forget what was wanted.
Clear ==
  /\ up' = up \ {transport}
  /\ transport' = NoConn
  /\ desired' = NoRelay
  /\ owed' = FALSE

\* register_signal: nothing to do when the same relay is wanted and there is
\* a connection.
Register(t, r) ==
  /\ Given(t)
  /\ \/ /\ transport # NoConn /\ desired = r
        /\ Finish(t)
     \/ /\ ~(transport # NoConn /\ desired = r)
        /\ Goto(t, "teardown")
        /\ target' = [target EXCEPT ![t] = r]
  /\ UNCHANGED <<desired, transport, guard, loop, up, made, faults, owed>>
  /\ Watch

Teardown(t) ==
  /\ pc[t] = "teardown"
  /\ Clear
  /\ Goto(t, "announce")
  /\ UNCHANGED <<guard, loop, target, made, faults>>
  /\ Watch

Announce(t) ==
  /\ pc[t] = "announce"
  /\ desired' = target[t]
  /\ Goto(t, "attempt")
  /\ UNCHANGED <<transport, guard, loop, up, target, made, faults, owed>>
  /\ Watch

Deregister(t) ==
  /\ Given(t)
  /\ Clear
  /\ Finish(t)
  /\ UNCHANGED <<guard, loop, made, faults>>
  /\ Watch

-----------------------------------------------------------------------------
(* do_register_signal, for a command or a supervisor *)

\* Connect, RegisterPresence and its acknowledgement.
AttemptOk(t) ==
  /\ pc[t] = "attempt"
  /\ \E c \in Conn :
       /\ loop[c] = "none" /\ \A d \in 1..(c - 1) : loop[d] # "none"
       /\ loop' = [loop EXCEPT ![c] = "ready"]
       /\ up' = up \cup {c}
       /\ made' = [made EXCEPT ![t] = c]
  /\ Goto(t, "store")
  /\ UNCHANGED <<desired, transport, guard, target, faults, owed>>
  /\ Watch

\* Mutant: a supervisor gives up after one failure.
AttemptFailedGivesUp(t) ==
  /\ pc[t] = "attempt"
  /\ faults < MaxFaults
  /\ faults' = faults + 1
  /\ Finish(t)
  /\ UNCHANGED <<desired, transport, guard, loop, up, made, owed>>
  /\ Watch

\* A failed command reports its error; a supervisor goes on.
AttemptFailed(t) ==
  /\ pc[t] = "attempt"
  /\ faults < MaxFaults
  /\ faults' = faults + 1
  /\ \/ t \in Command /\ Finish(t)
     \/ t \in Conn /\ Goto(t, "reclaim") /\ UNCHANGED target
  /\ UNCHANGED <<desired, transport, guard, loop, up, made, owed>>
  /\ Watch

\* Mutant: the new connection gets no receive loop.
StoreWithoutLoop(t) ==
  /\ pc[t] = "store"
  /\ transport' = made[t]
  /\ made' = [made EXCEPT ![t] = NoConn]
  /\ owed' = FALSE
  /\ Finish(t)
  /\ UNCHANGED <<desired, guard, loop, up, faults>>
  /\ Watch

\* Put the connection into SignalState, whatever is there and wanted now,
\* and start its receive loop.
Store(t) ==
  /\ pc[t] = "store"
  /\ transport' = made[t]
  /\ loop' = [loop EXCEPT ![made[t]] = "served"]
  /\ made' = [made EXCEPT ![t] = NoConn]
  /\ owed' = FALSE
  /\ Finish(t)
  /\ UNCHANGED <<desired, guard, up, faults>>
  /\ Watch

-----------------------------------------------------------------------------
(* Receive loops *)

Drop(c) ==
  /\ c \in up
  /\ faults < MaxFaults
  /\ up' = up \ {c}
  /\ faults' = faults + 1
  /\ UNCHANGED <<desired, transport, guard, loop, pc, target, made, owed>>
  /\ Watch

\* The loop of a dead connection ends: it takes whatever connection is in
\* SignalState out, its own or a newer one, and starts a supervisor if the
\* user wants to be registered and none seems to be running.
LoopExit(c) ==
  /\ loop[c] = "served"
  /\ c \notin up
  /\ loop' = [loop EXCEPT ![c] = "over"]
  /\ transport' = NoConn
  /\ owed' = (owed \/ desired # NoRelay)
  /\ \/ /\ desired # NoRelay /\ ~guard
        /\ Goto(c, "claim")
        /\ target' = [target EXCEPT ![c] = desired]
     \/ /\ desired = NoRelay \/ guard
        /\ UNCHANGED <<pc, target>>
  /\ UNCHANGED <<desired, guard, up, made, faults>>
  /\ Watch

-----------------------------------------------------------------------------
(* signal_reconnect_supervisor *)

SupervisorClaim(c) ==
  /\ pc[c] = "claim"
  /\ \/ guard /\ Finish(c) /\ UNCHANGED guard
     \/ ~guard /\ Goto(c, "check") /\ guard' = TRUE /\ UNCHANGED target
  /\ UNCHANGED <<desired, transport, loop, up, made, faults, owed>>
  /\ Watch

\* Give up when nothing is wanted or somebody else has registered; follow
\* the wish otherwise.
SupervisorCheck(c) ==
  /\ pc[c] = "check"
  /\ \/ /\ desired = NoRelay \/ transport # NoConn
        /\ Goto(c, "release")
        /\ UNCHANGED target
     \/ /\ desired # NoRelay /\ transport = NoConn
        /\ Goto(c, "free")
        /\ target' = [target EXCEPT ![c] = desired]
  /\ UNCHANGED <<desired, transport, guard, loop, up, made, faults, owed>>
  /\ Watch

\* Mutant: the guard is kept over the attempt.
SupervisorKeep(c) ==
  /\ pc[c] = "free"
  /\ Goto(c, "attempt")
  /\ UNCHANGED <<desired, transport, guard, loop, up, target, made, faults, owed>>
  /\ Watch

\* The guard is given up before the attempt, so that the loop of the new
\* connection can start a supervisor of its own.
SupervisorFree(c) ==
  /\ pc[c] = "free"
  /\ guard' = FALSE
  /\ Goto(c, "attempt")
  /\ UNCHANGED <<desired, transport, loop, up, target, made, faults, owed>>
  /\ Watch

SupervisorReclaim(c) ==
  /\ pc[c] = "reclaim"
  /\ guard' = TRUE
  /\ Goto(c, "check")
  /\ UNCHANGED <<desired, transport, loop, up, target, made, faults, owed>>
  /\ Watch

SupervisorRelease(c) ==
  /\ pc[c] = "release"
  /\ guard' = FALSE
  /\ Finish(c)
  /\ UNCHANGED <<desired, transport, loop, up, made, faults, owed>>
  /\ Watch

-----------------------------------------------------------------------------
CommandStep(t) == Teardown(t) \/ Announce(t)
Attempt(t) == AttemptOk(t) \/ AttemptFailed(t) \/ Store(t)
SupervisorStep(c) ==
  \/ SupervisorClaim(c) \/ SupervisorCheck(c) \/ SupervisorFree(c)
  \/ SupervisorReclaim(c) \/ SupervisorRelease(c)

Next ==
  \/ \E t \in Command, r \in Relay : Register(t, r)
  \/ \E t \in Command : Deregister(t) \/ CommandStep(t)
  \/ \E t \in Task : Attempt(t)
  \/ \E c \in Conn : Drop(c) \/ LoopExit(c) \/ SupervisorStep(c)

Spec == Init /\ [][Next]_vars

\* Tasks run once they can (tokio schedules what is ready, every wait of the
\* supervisor is bounded), and faults come to an end, so an attempt that is
\* tried again and again succeeds. Nothing makes the user do anything.
Fairness ==
  /\ \A t \in Command : WF_vars(CommandStep(t))
  /\ \A t \in Task : WF_vars(Attempt(t))
  /\ \A c \in Conn : WF_vars(LoopExit(c)) /\ WF_vars(SupervisorStep(c))

FairSpec == Spec /\ Fairness

-----------------------------------------------------------------------------
(* Properties *)

\* The state has its type; commands and supervisors each go their own way.
TypeOK ==
  /\ desired \in Relay \cup {NoRelay}
  /\ transport \in Conn \cup {NoConn}
  /\ guard \in BOOLEAN
  /\ loop \in [Conn -> {"none", "ready", "served", "over"}]
  /\ up \subseteq Conn
  /\ DOMAIN pc = Task
  /\ \A t \in Command :
       pc[t] \in {"idle", "teardown", "announce", "attempt", "store", "done"}
  /\ \A c \in Conn :
       pc[c] \in {"idle", "claim", "check", "free", "attempt", "store",
                 "reclaim", "release", "done"}
  /\ target \in [Task -> Relay \cup {NoRelay}]
  /\ made \in [Task -> Conn \cup {NoConn}]
  /\ faults \in 0..MaxFaults
  /\ owed \in BOOLEAN
  /\ overlapped \in BOOLEAN

\* The connection commands send their signals on always has a receive loop
\* that will notice when it dies: however registrations, loop ends and
\* supervisors overlap, SignalState never keeps a connection whose loop is
\* over.
TransportServed == transport # NoConn => loop[transport] = "served"

\* reconnect_in_progress never leaks: when it is set, some supervisor is on
\* its way to reset it, or no later drop would ever be answered.
GuardHeld == guard => \E c \in Conn : pc[c] \in {"check", "free", "release"}

\* "Keep me connected": after an unexpected drop the client gets a new
\* connection or the user withdraws the wish, provided commands, supervisors
\* and connections have come one after the other.
KeepsConnected == owed ~> (~owed \/ overlapped)

\* Nothing is under way.
Settled ==
  /\ \A t \in Task : ~Busy(t)
  /\ \A c \in Conn : loop[c] = "served" => c \in up

\* "None means user explicitly deregistered - do not retry": once things
\* settle, a client whose user deregistered is not registered.
DeregisteredStaysOff == Settled /\ desired = NoRelay => transport = NoConn
=============================================================================
