---------------------------- MODULE ReplayWindow ----------------------------
(***************************************************************************)
(* What the receiving side of a media stream promises, stated over packet  *)
(* numbers that never wrap: a packet is let through unless it was let      *)
(* through before or lies Window or more behind the newest one.            *)
(***************************************************************************)
EXTENDS Integers

CONSTANTS
  Window,   \* packets the receiver looks back
  Packet    \* packet numbers, a set of naturals

VARIABLES
  newest,   \* the highest packet number let through, -1 before the first
  seen,     \* the ones let through that are still in the window
  last,     \* the last packet that authenticated, -1 before the first
  verdict   \* what became of it

vars == <<newest, seen, last, verdict>>

Init ==
  /\ newest = -1
  /\ seen = {}
  /\ last = -1
  /\ verdict = "none"

Fresh(n) == newest = -1 \/ (n \notin seen /\ newest - n < Window)

\* Packet n authenticated under the current key.
Arrive(n) ==
  /\ last' = n
  /\ \/ /\ Fresh(n)
        /\ newest' = IF n > newest THEN n ELSE newest
        /\ seen' = {m \in seen \cup {n} : newest' - m < Window}
        /\ verdict' = "Ok"
     \/ /\ ~Fresh(n)
        /\ verdict' = "ReplayDetected"
        /\ UNCHANGED <<newest, seen>>

Next == \E n \in Packet : Arrive(n)

Spec == Init /\ [][Next]_vars
=============================================================================
