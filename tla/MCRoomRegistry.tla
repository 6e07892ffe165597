--------------------------- MODULE MCRoomRegistry ---------------------------
(* Instances of RoomRegistry for TLC.                                      *)
EXTENDS RoomRegistry, TLC

CONSTANTS s1, s2

\* A server that has room for one match or for two, and one with room for one.
Cap12 == s1 :> {1, 2} @@ s2 :> {1}

\* A draining server is passed over, as a full or a stale one is; MCRoomHost
\* has servers drained.
EnvUndrained == Hazards \ {"drain"}
=============================================================================
