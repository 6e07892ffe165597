-------------------------- MODULE MCServerProcess --------------------------
(* Instances of ServerProcess for TLC.                                     *)
EXTENDS ServerProcess, TLC

CONSTANTS a, b

MCConfig == a :> "mysql required" @@ b :> "mysql optional"
=============================================================================
