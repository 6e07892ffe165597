---------------------------- MODULE MCTicketRows ----------------------------
(* An instance of TicketRows for TLC: every hazard at once.                *)
EXTENDS TicketRows, TLC

Symmetry ==
  Permutations(Players) \cup Permutations(Tickets)
    \cup Permutations(Matches) \cup Permutations(Requests)

EnvAll == Hazards
=============================================================================
