------------------------------ MODULE CallLife ------------------------------
(***************************************************************************)
(* What the registries of the federated relays promise of a direct call,   *)
(* stated without tasks, messages and links.  A call id is dialled once    *)
(* and answered at most once.  Every relay enters the call at most once,   *)
(* as pending, has it active only if the callee accepted, and a call that  *)
(* is over at a relay, or that the relay gave up, never comes back there.  *)
(***************************************************************************)
CONSTANTS
  Relay,
  Call

VARIABLES
  choice,   \* what the two clients did with each call id
  entry     \* of each relay and call: expected, Pending, Active or over

vars == <<choice, entry>>

Init ==
  /\ choice = [k \in Call |-> "unused"]
  /\ entry = [r \in Relay |-> [k \in Call |-> "expected"]]

\* The relays of R give call k up before they have entered it.
GiveUpAt(R, k) ==
  /\ \A r \in R : entry[r][k] = "expected"
  /\ entry' = [r \in Relay |->
                IF r \in R THEN [entry[r] EXCEPT ![k] = "over"] ELSE entry[r]]

\* The caller dials; some relays will never hear of it.
Dial(k) ==
  /\ choice[k] = "unused"
  /\ choice' = [choice EXCEPT ![k] = "dialled"]
  /\ \E R \in SUBSET Relay : GiveUpAt(R, k)

Answer(k, mode) ==
  /\ choice[k] = "dialled"
  /\ choice' = [choice EXCEPT ![k] = mode]
  /\ UNCHANGED entry

\* Relay r enters the call, at any time after it was dialled.
Enter(r, k) ==
  /\ choice[k] # "unused" /\ entry[r][k] = "expected"
  /\ entry' = [entry EXCEPT ![r][k] = "Pending"]
  /\ UNCHANGED choice

Activate(r, k) ==
  /\ choice[k] = "Accept" /\ entry[r][k] = "Pending"
  /\ entry' = [entry EXCEPT ![r][k] = "Active"]
  /\ UNCHANGED choice

End(r, k) ==
  /\ entry[r][k] \in {"Pending", "Active"}
  /\ entry' = [entry EXCEPT ![r][k] = "over"]
  /\ UNCHANGED choice

\* An offer got lost, or found nobody at these relays.
GiveUp(k) ==
  /\ choice[k] # "unused"
  /\ \E R \in SUBSET Relay : GiveUpAt(R, k)
  /\ UNCHANGED choice

Next ==
  \E k \in Call :
    \/ Dial(k) \/ GiveUp(k)
    \/ \E mode \in {"Accept", "Reject"} : Answer(k, mode)
    \/ \E r \in Relay : Enter(r, k) \/ Activate(r, k) \/ End(r, k)

Spec == Init /\ [][Next]_vars
=============================================================================
