-------------------------- MODULE LooseMatchmaking --------------------------
(***************************************************************************)
(* What is left of Matchmaking when tickets are also cancelled, time out   *)
(* and expire, and requests and servers stop half-way: an end may take the *)
(* place of another one, but a ticket waits at most once, and a match is   *)
(* of two tickets of different players, made in one step and for good.     *)
(***************************************************************************)
CONSTANTS
  Players,   \* player ids
  Tickets,   \* ticket ids
  Matches,   \* match ids
  NoPlayer, NoMatch

VARIABLES
  playerOf,  \* the player who took each ticket
  stage,     \* how far each ticket has come: see Stages
  partOf,    \* the match of each ticket
  members    \* the players of each match, {} until it is made

vars == <<playerOf, stage, partOf, members>>

Stages == {"new", "queued", "matched", "cancelled", "timeout", "gone"}

Init ==
  /\ playerOf = [t \in Tickets |-> NoPlayer]
  /\ stage = [t \in Tickets |-> "new"]
  /\ partOf = [t \in Tickets |-> NoMatch]
  /\ members = [m \in Matches |-> {}]

Take(p, t) ==
  /\ playerOf[t] = NoPlayer
  /\ playerOf' = [playerOf EXCEPT ![t] = p]
  /\ UNCHANGED <<stage, partOf, members>>

Queue(t) ==
  /\ playerOf[t] # NoPlayer /\ stage[t] = "new"
  /\ stage' = [stage EXCEPT ![t] = "queued"]
  /\ UNCHANGED <<playerOf, partOf, members>>

\* Whatever a ticket has become since its reader saw it queued.
Cancel(t) ==
  /\ stage[t] # "new"
  /\ stage' = [stage EXCEPT ![t] = "cancelled"]
  /\ UNCHANGED <<playerOf, partOf, members>>

TimeOut(t) ==
  /\ stage[t] = "queued"
  /\ stage' = [stage EXCEPT ![t] = "timeout"]
  /\ UNCHANGED <<playerOf, partOf, members>>

\* Again whatever the two have become.
Pair(t, u, m) ==
  /\ "new" \notin {stage[t], stage[u]}
  /\ playerOf[t] # playerOf[u]
  /\ members[m] = {}
  /\ stage' = [v \in Tickets |-> IF v \in {t, u} THEN "matched" ELSE stage[v]]
  /\ partOf' = [v \in Tickets |-> IF v \in {t, u} THEN m ELSE partOf[v]]
  /\ members' = [members EXCEPT ![m] = {playerOf[t], playerOf[u]}]
  /\ UNCHANGED playerOf

\* Rolled back, expired, or given up before it waited.
Drop(S) ==
  /\ \A t \in S : playerOf[t] # NoPlayer
  /\ stage' = [t \in Tickets |-> IF t \in S THEN "gone" ELSE stage[t]]
  /\ partOf' = [t \in Tickets |-> IF t \in S THEN NoMatch ELSE partOf[t]]
  /\ UNCHANGED <<playerOf, members>>

Next ==
  \/ \E p \in Players, t \in Tickets : Take(p, t)
  \/ \E t \in Tickets : Queue(t) \/ Cancel(t) \/ TimeOut(t)
  \/ \E t, u \in Tickets, m \in Matches : Pair(t, u, m)
  \/ \E S \in SUBSET Tickets : Drop(S)

Spec == Init /\ [][Next]_vars
=============================================================================
