---------------------------- MODULE MCRoomServer ----------------------------
(* Instances of RoomServer for TLC.                                        *)
EXTENDS RoomServer, TLC

Symmetry == Permutations(Players) \cup Permutations(Rooms)
=============================================================================
