----------------------------- MODULE MCRoomHost -----------------------------
(* Instances of RoomHost for TLC.                                          *)
EXTENDS RoomHost, TLC

\* Each process has room for one player or for two.
Cap12 == Self :> {1, 2}
EnvAll == Hazards
=============================================================================
