--------------------------- MODULE MCMatchWindow ---------------------------
(* Instances of MatchWindow for TLC: the five buckets of a thousand scores  *)
(* below 10000 become two of four below 10.                                *)
EXTENDS MatchWindow, TLC

BaseTwo == <<<<0, 4>>, <<5, 8>>>>
ScoresFar == {4, 9}
Symmetry == Permutations(Players)
=============================================================================
