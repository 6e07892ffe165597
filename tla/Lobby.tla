------------------------------- MODULE Lobby -------------------------------
(***************************************************************************)
(* What a TCP room server promises its clients: a player is in one room at *)
(* a time and takes nothing along when he changes rooms, a room plays from *)
(* the moment all of its players, at least two, are ready, and it is       *)
(* forgotten with its last player.  RoomServer implements this.            *)
(***************************************************************************)
CONSTANTS
  Players,   \* player_id of a request
  Rooms      \* room_id of a request

VARIABLES
  member,    \* pairs <<player, room>>
  prepared,  \* the players who are ready, in the room they are in
  playing    \* the rooms for which room_started was announced

vars == <<member, prepared, playing>>

Init == member = {} /\ prepared = {} /\ playing = {}

In(r, M) == {p \in Players : <<p, r>> \in M}

\* The rooms of S that somebody is in.
Occupied(S, M) == {r \in S : In(r, M) # {}}

Enter(p, r) ==
  /\ member' = {e \in member : e[1] # p} \cup {<<p, r>>}
  /\ prepared' = IF <<p, r>> \in member THEN prepared ELSE prepared \ {p}
  /\ playing' = Occupied(playing, {e \in member : e[1] # p \/ e[2] = r})

SayReady(p, r) ==
  /\ <<p, r>> \in member
  /\ prepared' = prepared \cup {p}
  /\ playing' = IF /\ In(r, member) \subseteq prepared'
                   /\ \E q \in In(r, member) : q # p
                  THEN playing \cup {r} ELSE playing
  /\ UNCHANGED member

Exit(p, r) ==
  /\ <<p, r>> \in member
  /\ member' = member \ {<<p, r>>}
  /\ prepared' = prepared \ {p}
  /\ playing' = Occupied(playing, member')

\* The server is stopped; what it knew is gone.
Reset == member' = {} /\ prepared' = {} /\ playing' = {}

Next ==
  \/ \E p \in Players, r \in Rooms : Enter(p, r) \/ SayReady(p, r) \/ Exit(p, r)
  \/ Reset

Spec == Init /\ [][Next]_vars
=============================================================================
