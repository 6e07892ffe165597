----------------------------- MODULE RoomServer -----------------------------
(***************************************************************************)
(* The in-memory state of cmd/roomserver and the requests that TCP clients *)
(* send it.  A connection is a goroutine of its own and a request names    *)
(* any player and any room, so requests for the same player arrive in any  *)
(* order, twice, or for a room he is not in; each of them runs under the   *)
(* server's mutex and is one action.  A request that is answered with an   *)
(* error (or with pong) changes nothing and is not an action.  Closing a   *)
(* connection changes nothing either.  Responses other than room_started   *)
(* (the step that sets "started") are left out, and so are the times.      *)
(***************************************************************************)
EXTENDS Naturals

CONSTANTS
  Players,   \* player_id of a request
  Rooms,     \* room_id of a request
  NoRoom,    \* playerRooms has no entry
  Absent     \* rooms has no entry

RoomState == [players : SUBSET Players, readyPlayers : SUBSET Players,
              started : BOOLEAN]

ASSUME RoomAssumption == NoRoom \notin Rooms /\ Absent \notin RoomState

VARIABLES rooms, playerRooms   \* the two maps of type Server

vars == <<rooms, playerRooms>>

TypeOK ==
  /\ rooms \in [Rooms -> RoomState \cup {Absent}]
  /\ playerRooms \in [Players -> Rooms \cup {NoRoom}]

Init ==
  /\ rooms = [r \in Rooms |-> Absent]
  /\ playerRooms = [p \in Players |-> NoRoom]

FreshRoom == [players |-> {}, readyPlayers |-> {}, started |-> FALSE]

-----------------------------------------------------------------------------
(* Slips: definitions below with one plausible bug each, for the mutants.  *)

\* leave forgets where the player is, whichever room the request names.
SlipForget(r, p) == [playerRooms EXCEPT ![p] = NoRoom]

\* A join makes the room anew although it exists.
SlipRecreate(R, r) == [R EXCEPT ![r] = FreshRoom]

\* A room starts at its third player only.
SlipThreePlayers(room) ==
  [room EXCEPT !.started =
     \/ room.started
     \/ /\ room.readyPlayers = room.players
        /\ \E p, q, s \in room.players : p # q /\ q # s /\ p # s]

-----------------------------------------------------------------------------
ensureRoom(R, r) == [R EXCEPT ![r] = IF R[r] = Absent THEN FreshRoom ELSE R[r]]

\* A room with p among its players, or without p in either of its sets.
with(room, p) == [room EXCEPT !.players = room.players \cup {p}]
without(room, p) ==
  [room EXCEPT !.players = room.players \ {p},
               !.readyPlayers = room.readyPlayers \ {p}]

\* removePlayerLocked, on the map of rooms R and on playerRooms.
removePlayer(R, r, p) ==
  [R EXCEPT ![r] = IF R[r] = Absent THEN Absent
                   ELSE IF R[r].players \subseteq {p} THEN Absent
                   ELSE without(R[r], p)]

forgetRoom(r, p) ==
  IF playerRooms[p] = r THEN [playerRooms EXCEPT ![p] = NoRoom] ELSE playerRooms

\* At least two players, all of them ready.
AllReady(room) ==
  /\ room.readyPlayers = room.players
  /\ \E p, q \in room.players : p # q

markReady(room, p) == [room EXCEPT !.readyPlayers = room.readyPlayers \cup {p}]
start(room) == [room EXCEPT !.started = room.started \/ AllReady(room)]

join(r, p) ==
  LET old == playerRooms[p]
      left == IF old \in {NoRoom, r} THEN rooms ELSE removePlayer(rooms, old, p)
      made == ensureRoom(left, r)
  IN /\ rooms' = [made EXCEPT ![r] = with(made[r], p)]
     /\ playerRooms' = [playerRooms EXCEPT ![p] = r]

ready(r, p) ==
  /\ rooms[r] # Absent
  /\ p \in rooms[r].players
  /\ rooms' = [rooms EXCEPT ![r] = start(markReady(rooms[r], p))]
  /\ UNCHANGED playerRooms

leave(r, p) ==
  /\ rooms' = removePlayer(rooms, r, p)
  /\ playerRooms' = forgetRoom(r, p)

\* The process is stopped and started again.
Restart ==
  /\ rooms' = [r \in Rooms |-> Absent]
  /\ playerRooms' = [p \in Players |-> NoRoom]

Next ==
  \/ \E r \in Rooms, p \in Players : join(r, p) \/ ready(r, p) \/ leave(r, p)
  \/ Restart

Spec == Init /\ [][Next]_vars

-----------------------------------------------------------------------------
PlayersIn(r) == IF rooms[r] = Absent THEN {} ELSE rooms[r].players
ReadyIn(r) == IF rooms[r] = Absent THEN {} ELSE rooms[r].readyPlayers
Started(r) == rooms[r] # Absent /\ rooms[r].started

\* The two maps of the server say the same: a player is in the room that
\* playerRooms names and in no other, a room is kept as long as it has players,
\* and only they are ready in it -- after any joins, leaves and changes of
\* rooms, however often and for whichever rooms they are sent.
MapsAgree ==
  /\ \A r \in Rooms, p \in Players : p \in PlayersIn(r) <=> playerRooms[p] = r
  /\ \A r \in Rooms : rooms[r] # Absent => PlayersIn(r) # {}
  /\ \A r \in Rooms : ReadyIn(r) \subseteq PlayersIn(r)

\* A room of at least two players comes to be all ready and not started only
\* by somebody leaving it: every ready that completes a room announces it.
StartMissedOnlyByDeparture ==
  [][\A r \in Rooms :
       /\ rooms'[r] # Absent
       /\ AllReady(rooms'[r])
       /\ ~rooms'[r].started
       => \/ rooms[r] # Absent /\ AllReady(rooms[r]) /\ ~rooms[r].started
          \/ \E p \in PlayersIn(r) : p \notin rooms'[r].players]_vars

\* The server keeps what Lobby promises.
Promise == INSTANCE Lobby WITH
  member <- {e \in Players \X Rooms : e[1] \in PlayersIn(e[2])},
  prepared <- {p \in Players : \E r \in Rooms : p \in ReadyIn(r)},
  playing <- {r \in Rooms : Started(r)}

\* A player who changes rooms, joins twice, or leaves a room he is not in is
\* counted, ready and playing exactly where Lobby says.
KeepsPromise == Promise!Spec
=============================================================================
