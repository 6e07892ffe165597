---------------------------- MODULE Matchmaking ----------------------------
(***************************************************************************)
(* What matching is to its players when only matches end tickets: a player *)
(* waits with one ticket at a time, and two waiting tickets of different    *)
(* players are put into a new match in one step, for good.  MatchTickets,   *)
(* whose goroutines do this with separate Redis commands, implements it.   *)
(***************************************************************************)
CONSTANTS
  Players,   \* player ids
  Tickets,   \* ticket ids
  Matches,   \* match ids
  NoPlayer, NoMatch

VARIABLES
  playerOf,  \* the player who took each ticket
  waiting,   \* the tickets in the queue
  partOf     \* the match of each ticket

vars == <<playerOf, waiting, partOf>>

Init ==
  /\ playerOf = [t \in Tickets |-> NoPlayer]
  /\ waiting = {}
  /\ partOf = [t \in Tickets |-> NoMatch]

Queue(p, t) ==
  /\ playerOf[t] = NoPlayer
  /\ \A u \in waiting : playerOf[u] # p
  /\ playerOf' = [playerOf EXCEPT ![t] = p]
  /\ waiting' = waiting \cup {t}
  /\ UNCHANGED partOf

Pair(t, u, m) ==
  /\ {t, u} \subseteq waiting
  /\ playerOf[t] # playerOf[u]
  /\ \A v \in Tickets : partOf[v] # m
  /\ waiting' = waiting \ {t, u}
  /\ partOf' = [v \in Tickets |-> IF v \in {t, u} THEN m ELSE partOf[v]]
  /\ UNCHANGED playerOf

Next ==
  \/ \E p \in Players, t \in Tickets : Queue(p, t)
  \/ \E t, u \in Tickets, m \in Matches : Pair(t, u, m)

Spec == Init /\ [][Next]_vars
=============================================================================
