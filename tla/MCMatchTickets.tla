--------------------------- MODULE MCMatchTickets ---------------------------
(* Instances of MatchTickets for TLC.                                      *)
EXTENDS MatchTickets, TLC

Symmetry ==
  Permutations(Players) \cup Permutations(Tickets)
    \cup Permutations(Matches) \cup Permutations(Requests)

EnvNone == {}
EnvShort == Hazards \ {"longwait"}
EnvUnreliable == {"deadline", "lapse", "crash"}
EnvCancel == {"cancel"}
EnvShutdown == {"shutdown"}
=============================================================================
