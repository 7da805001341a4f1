--------------------------- MODULE MCRoomManager ---------------------------
(* Small instances of RoomManager for TLC. *)
EXTENDS RoomManager, TLC

CONSTANTS q1, q2, q3, w1, alice, bob, carol, callRoom, openRoom

\* The one call in the registry is between alice and bob.
MCCaller == [r \in {callRoom} |-> alice]
MCCallee == [r \in {callRoom} |-> bob]
MCNone == [r \in {} |-> alice]

ConnSymmetry == Permutations({q1, q2, q3})
=============================================================================
