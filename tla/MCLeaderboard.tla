---------------------------- MODULE MCLeaderboard ----------------------------
(* Instances of Leaderboard for TLC.                                       *)
EXTENDS Leaderboard, TLC

Symmetry == Permutations(Requests)

\* "GLOBAL" is normalised to the global board; "a b" is not a valid type.
MCSpelled == "global" :> "global" @@ "GLOBAL" :> "global"
               @@ "season" :> "season" @@ "a b" :> "invalid"

List(l, es, ranked) ==
  [label |-> l, ranked |-> ranked,
   entries |-> [i \in DOMAIN es |-> [player |-> es[i][1], score |-> es[i][2]]]]

\* A settlement on each board, the second with an entry that names no player,
\* and updates of player 1: on the season's board, on the global board by
\* another of its labels (gRPC: no rank is read), which changes the ranking, and
\* with an invalid label.
MCWrites ==
  {List("global", <<<<1, 3>>, <<2, 2>>>>, TRUE),
   List("season", <<<<2, 5>>, <<0, 1>>, <<1, 7>>>>, TRUE),
   List("season", <<<<1, 5>>>>, TRUE),
   List("GLOBAL", <<<<1, -3>>>>, FALSE),
   List("a b", <<<<1, 7>>>>, TRUE)}
=============================================================================
