---------------------------- MODULE MCFederation ----------------------------
(* Small instances of Federation for TLC. *)
EXTENDS Federation, TLC

CONSTANTS hub, east, west, ann, bob, cyd, raw, hashed

MCHome == [p \in Client |-> IF p = ann THEN hub ELSE IF p = bob THEN east ELSE west]
MCNameOf == [p \in Client |-> raw]
MCCanonical == [n \in RoomName |-> raw]

\* One leaf and the hub.
MCPair == {<<east, hub>>}
\* Each of two relays has the other among its peers, and dials it.
MCBoth == {<<hub, east>>, <<east, hub>>}
\* The hub and one leaf dial each other; the other leaf dials the hub.
MCMixed == {<<hub, east>>, <<east, hub>>, <<west, hub>>}
\* Three relays in a full mesh, one dial per pair.
MCMesh == {<<east, hub>>, <<west, hub>>, <<east, west>>}
=============================================================================
