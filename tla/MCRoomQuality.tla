--------------------------- MODULE MCRoomQuality ---------------------------
(* Small instances of RoomQuality for TLC. *)
EXTENDS RoomQuality, TLC

ParticipantSymmetry == Permutations(Participant)
=============================================================================
