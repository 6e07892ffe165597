------------------------- MODULE RoomServer_proofs -------------------------
(* Proofs about RoomServer, for any players and any rooms.                 *)
EXTENDS RoomServer, TLAPS

RoomMap == [Rooms -> RoomState \cup {Absent}]

-----------------------------------------------------------------------------
(* What the operators on rooms and on the map of rooms do.                 *)

\* The operators on one room change the fields they are about, and only them.
LEMMA RoomUpdates ==
  ASSUME NEW room \in RoomState, NEW p \in Players
  PROVE  /\ with(room, p) \in RoomState
         /\ with(room, p).players = room.players \cup {p}
         /\ with(room, p).readyPlayers = room.readyPlayers
         /\ with(room, p).started <=> room.started
         /\ without(room, p) \in RoomState
         /\ without(room, p).players = room.players \ {p}
         /\ without(room, p).readyPlayers = room.readyPlayers \ {p}
         /\ without(room, p).started <=> room.started
         /\ markReady(room, p) \in RoomState
         /\ markReady(room, p).players = room.players
         /\ markReady(room, p).readyPlayers = room.readyPlayers \cup {p}
         /\ markReady(room, p).started <=> room.started
         /\ start(room) \in RoomState
         /\ start(room).players = room.players
         /\ start(room).readyPlayers = room.readyPlayers
         /\ start(room).started <=> room.started \/ AllReady(room)
  BY DEF RoomState, with, without, markReady, start, AllReady

\* ensureRoom adds an empty room where there was none.
LEMMA EnsureRoom ==
  ASSUME NEW R \in RoomMap, NEW r \in Rooms
  PROVE  /\ ensureRoom(R, r) \in RoomMap
         /\ ensureRoom(R, r)[r] \in RoomState
         /\ R[r] # Absent => ensureRoom(R, r)[r] = R[r]
         /\ R[r] = Absent => ensureRoom(R, r)[r] = FreshRoom
         /\ \A s \in Rooms \ {r} : ensureRoom(R, r)[s] = R[s]
  <1>1. FreshRoom \in RoomState
    BY DEF FreshRoom, RoomState
  <1>2. QED BY <1>1 DEF ensureRoom, RoomMap

\* removePlayer takes a player out of one room, and the room with the last one.
LEMMA RemovePlayer ==
  ASSUME NEW R \in RoomMap, NEW r \in Rooms, NEW p \in Players
  PROVE  /\ removePlayer(R, r, p) \in RoomMap
         /\ \A s \in Rooms \ {r} : removePlayer(R, r, p)[s] = R[s]
         /\ R[r] = Absent \/ R[r].players \subseteq {p}
              => removePlayer(R, r, p)[r] = Absent
         /\ R[r] # Absent /\ ~(R[r].players \subseteq {p})
              => /\ R[r] \in RoomState
                 /\ removePlayer(R, r, p)[r] = without(R[r], p)
  <1>1. R[r] # Absent => R[r] \in RoomState /\ without(R[r], p) \in RoomState
    BY RoomUpdates DEF RoomMap
  <1>2. QED BY <1>1 DEF removePlayer, RoomMap

-----------------------------------------------------------------------------
(* What each request does to the players, the ready players and the started *)
(* rooms that a client can see.                                             *)

\* A join puts the player into one room and takes him out of all others.
LEMMA JoinEffect ==
  ASSUME TypeOK, MapsAgree, NEW r \in Rooms, NEW p \in Players, join(r, p)
  PROVE  /\ rooms' \in RoomMap
         /\ \A s \in Rooms :
              /\ PlayersIn(s)' = IF s = r THEN PlayersIn(s) \cup {p}
                                          ELSE PlayersIn(s) \ {p}
              /\ ReadyIn(s)' = IF s = r THEN ReadyIn(s) ELSE ReadyIn(s) \ {p}
              /\ Started(s)' <=> /\ Started(s)
                                 /\ s = r \/ PlayersIn(s) \ {p} # {}
              /\ rooms'[s] # Absent => PlayersIn(s)' # {}
  <1> DEFINE old == playerRooms[p]
             left == IF old \in {NoRoom, r} THEN rooms
                     ELSE removePlayer(rooms, old, p)
             made == ensureRoom(left, r)
  <1>1. rooms \in RoomMap /\ rooms' = [made EXCEPT ![r] = with(made[r], p)]
    BY DEF TypeOK, RoomMap, join
  <1>2. /\ left \in RoomMap
        /\ left[r] = rooms[r]
        /\ \A s \in Rooms \ {r} :
             \/ left[s] = rooms[s] /\ p \notin PlayersIn(s)
             \/ left[s] = Absent /\ PlayersIn(s) \ {p} = {}
             \/ /\ rooms[s] # Absent /\ rooms[s] \in RoomState
                /\ left[s] = without(rooms[s], p)
                /\ PlayersIn(s) \ {p} # {}
    <2>1. CASE old \in {NoRoom, r}
      BY <1>1, <2>1, RoomAssumption DEF MapsAgree, TypeOK
    <2>2. CASE old \notin {NoRoom, r}
      <3>1. old \in Rooms /\ left = removePlayer(rooms, old, p)
        BY <2>2 DEF TypeOK
      <3>2. \A s \in Rooms : p \in PlayersIn(s) <=> s = old
        BY DEF MapsAgree
      <3> HIDE DEF left, old
      <3>3. left \in RoomMap /\ \A s \in Rooms \ {old} : left[s] = rooms[s]
        BY <1>1, <3>1, RemovePlayer
      <3>4. \/ left[old] = Absent /\ PlayersIn(old) \ {p} = {}
            \/ /\ rooms[old] # Absent /\ rooms[old] \in RoomState
               /\ left[old] = without(rooms[old], p)
               /\ PlayersIn(old) \ {p} # {}
        BY <1>1, <3>1, RemovePlayer DEF PlayersIn
      <3>5. old # r
        BY <2>2 DEF old
      <3>6. QED BY <3>1, <3>2, <3>3, <3>4, <3>5
    <2>3. QED BY <2>1, <2>2
  <1> HIDE DEF left, old
  <1>3. /\ made \in RoomMap /\ made[r] \in RoomState
        /\ rooms[r] # Absent => made[r] = rooms[r]
        /\ rooms[r] = Absent => made[r] = FreshRoom
        /\ \A s \in Rooms \ {r} : made[s] = left[s]
    BY <1>2, EnsureRoom
  <1> HIDE DEF made
  <1>4. with(made[r], p) \in RoomState
    BY <1>3, RoomUpdates
  <1>5. /\ rooms' \in RoomMap /\ rooms'[r] = with(made[r], p)
        /\ \A s \in Rooms \ {r} : rooms'[s] = left[s]
    BY <1>1, <1>3, <1>4 DEF RoomMap
  <1>6. rooms'[r] # Absent
    BY <1>4, <1>5, RoomAssumption
  <1>7. /\ PlayersIn(r)' = PlayersIn(r) \cup {p}
        /\ ReadyIn(r)' = ReadyIn(r)
        /\ Started(r)' <=> Started(r)
    <2>1. /\ with(made[r], p).players = made[r].players \cup {p}
          /\ with(made[r], p).readyPlayers = made[r].readyPlayers
          /\ with(made[r], p).started <=> made[r].started
      BY <1>3, RoomUpdates
    <2>2. CASE rooms[r] = Absent
      BY <1>3, <1>5, <1>6, <2>1, <2>2
         DEF PlayersIn, ReadyIn, Started, FreshRoom
    <2>3. CASE rooms[r] # Absent
      BY <1>3, <1>5, <1>6, <2>1, <2>3 DEF PlayersIn, ReadyIn, Started
    <2>4. QED BY <2>2, <2>3
  <1>8. ASSUME NEW s \in Rooms \ {r}
        PROVE  /\ PlayersIn(s)' = PlayersIn(s) \ {p}
               /\ ReadyIn(s)' = ReadyIn(s) \ {p}
               /\ Started(s)' <=> Started(s) /\ PlayersIn(s) \ {p} # {}
               /\ rooms'[s] # Absent => PlayersIn(s)' # {}
    <2>1. CASE left[s] = rooms[s] /\ p \notin PlayersIn(s)
      <3>1. ReadyIn(s) \subseteq PlayersIn(s)
            /\ (rooms[s] # Absent => PlayersIn(s) # {})
        BY DEF MapsAgree
      <3>2. QED BY <1>5, <2>1, <3>1 DEF PlayersIn, ReadyIn, Started
    <2>2. CASE left[s] = Absent /\ PlayersIn(s) \ {p} = {}
      <3>1. ReadyIn(s) \subseteq PlayersIn(s)
        BY DEF MapsAgree
      <3>2. QED BY <1>5, <2>2, <3>1 DEF PlayersIn, ReadyIn, Started
    <2>3. CASE /\ rooms[s] # Absent /\ rooms[s] \in RoomState
               /\ left[s] = without(rooms[s], p)
               /\ PlayersIn(s) \ {p} # {}
      <3>1. without(rooms[s], p) # Absent
        <4>1. without(rooms[s], p) \in RoomState
          BY <2>3, RoomUpdates
        <4>2. QED BY <4>1, RoomAssumption
      <3>2. /\ without(rooms[s], p).players = rooms[s].players \ {p}
            /\ without(rooms[s], p).readyPlayers = rooms[s].readyPlayers \ {p}
            /\ without(rooms[s], p).started <=> rooms[s].started
        BY <2>3, RoomUpdates
      <3>3. QED BY <1>5, <2>3, <3>1, <3>2 DEF PlayersIn, ReadyIn, Started
    <2>4. QED BY <1>2, <2>1, <2>2, <2>3
  <1>9. QED BY <1>5, <1>7, <1>8

\* A ready marks one player, and may start the room.
LEMMA ReadyEffect ==
  ASSUME TypeOK, MapsAgree, NEW r \in Rooms, NEW p \in Players, ready(r, p)
  PROVE  /\ rooms' \in RoomMap /\ p \in PlayersIn(r)
         /\ \A s \in Rooms :
              /\ PlayersIn(s)' = PlayersIn(s)
              /\ ReadyIn(s)' = IF s = r THEN ReadyIn(s) \cup {p} ELSE ReadyIn(s)
              /\ Started(s)' <=>
                   \/ Started(s)
                   \/ /\ s = r
                      /\ ReadyIn(s) \cup {p} = PlayersIn(s)
                      /\ \E a, b \in PlayersIn(s) : a # b
              /\ rooms'[s] # Absent => PlayersIn(s)' # {}
  <1> DEFINE room == markReady(rooms[r], p)
  <1>1. rooms[r] \in RoomState /\ rooms[r] # Absent /\ p \in rooms[r].players
    BY DEF TypeOK, ready
  <1>2. room \in RoomState /\ start(room) \in RoomState
    BY <1>1, RoomUpdates
  <1>3. /\ rooms' \in RoomMap /\ rooms'[r] = start(room)
        /\ \A s \in Rooms \ {r} : rooms'[s] = rooms[s]
    BY <1>2 DEF ready, TypeOK, RoomMap
  <1>4. rooms'[r] # Absent
    BY <1>2, <1>3, RoomAssumption
  <1>5. /\ room.players = rooms[r].players
        /\ room.readyPlayers = rooms[r].readyPlayers \cup {p}
        /\ room.started <=> rooms[r].started
    BY <1>1, RoomUpdates
  <1>6. /\ start(room).players = room.players
        /\ start(room).readyPlayers = room.readyPlayers
        /\ start(room).started <=> room.started \/ AllReady(room)
    BY <1>2, RoomUpdates
  <1> HIDE DEF room
  <1>7. /\ PlayersIn(r)' = PlayersIn(r) /\ p \in PlayersIn(r)
        /\ ReadyIn(r)' = ReadyIn(r) \cup {p}
        /\ Started(r)' <=>
             \/ Started(r)
             \/ /\ ReadyIn(r) \cup {p} = PlayersIn(r)
                /\ \E a, b \in PlayersIn(r) : a # b
    <2>1. /\ PlayersIn(r)' = rooms[r].players
          /\ ReadyIn(r)' = rooms[r].readyPlayers \cup {p}
          /\ PlayersIn(r) = rooms[r].players
          /\ ReadyIn(r) = rooms[r].readyPlayers
      BY <1>1, <1>3, <1>4, <1>5, <1>6 DEF PlayersIn, ReadyIn
    <2>2. Started(r)' <=> rooms[r].started \/ AllReady(room)
      BY <1>3, <1>4, <1>5, <1>6 DEF Started
    <2>3. AllReady(room) <=> /\ ReadyIn(r) \cup {p} = PlayersIn(r)
                             /\ \E a, b \in PlayersIn(r) : a # b
      BY <1>5, <2>1 DEF AllReady
    <2>4. QED BY <1>1, <2>1, <2>2, <2>3 DEF Started
  <1>8. ASSUME NEW s \in Rooms \ {r}
        PROVE  /\ PlayersIn(s)' = PlayersIn(s) /\ ReadyIn(s)' = ReadyIn(s)
               /\ Started(s)' <=> Started(s)
               /\ rooms'[s] # Absent => PlayersIn(s)' # {}
    BY <1>3 DEF PlayersIn, ReadyIn, Started, MapsAgree
  <1>9. QED BY <1>3, <1>7, <1>8

\* A leave takes the player out of the room it names, if he is in it.
LEMMA LeaveEffect ==
  ASSUME TypeOK, MapsAgree, NEW r \in Rooms, NEW p \in Players, leave(r, p)
  PROVE  /\ rooms' \in RoomMap
         /\ \A s \in Rooms :
              /\ PlayersIn(s)' = IF s = r THEN PlayersIn(s) \ {p} ELSE PlayersIn(s)
              /\ ReadyIn(s)' = IF s = r THEN ReadyIn(s) \ {p} ELSE ReadyIn(s)
              /\ Started(s)' <=> /\ Started(s)
                                 /\ s # r \/ PlayersIn(s) \ {p} # {}
              /\ rooms'[s] # Absent => PlayersIn(s)' # {}
  <1>1. rooms \in RoomMap /\ rooms' = removePlayer(rooms, r, p)
    BY DEF leave, TypeOK, RoomMap
  <1>2. rooms' \in RoomMap /\ \A s \in Rooms \ {r} : rooms'[s] = rooms[s]
    BY <1>1, RemovePlayer
  <1>3. ReadyIn(r) \subseteq PlayersIn(r)
    BY DEF MapsAgree
  <1>4. /\ PlayersIn(r)' = PlayersIn(r) \ {p} /\ ReadyIn(r)' = ReadyIn(r) \ {p}
        /\ Started(r)' <=> Started(r) /\ PlayersIn(r) \ {p} # {}
        /\ rooms'[r] # Absent => PlayersIn(r)' # {}
    <2>1. CASE rooms[r] = Absent \/ rooms[r].players \subseteq {p}
      <3>1. rooms'[r] = Absent
        BY <1>1, <2>1, RemovePlayer
      <3>2. QED BY <1>3, <2>1, <3>1 DEF PlayersIn, ReadyIn, Started
    <2>2. CASE rooms[r] # Absent /\ ~(rooms[r].players \subseteq {p})
      <3>1. rooms[r] \in RoomState /\ rooms'[r] = without(rooms[r], p)
        BY <1>1, <2>2, RemovePlayer
      <3>2. without(rooms[r], p) # Absent
        <4>1. without(rooms[r], p) \in RoomState
          BY <3>1, RoomUpdates
        <4>2. QED BY <4>1, RoomAssumption
      <3>3. QED BY <2>2, <3>1, <3>2, RoomUpdates DEF PlayersIn, ReadyIn, Started
    <2>3. QED BY <2>1, <2>2
  <1>5. ASSUME NEW s \in Rooms \ {r}
        PROVE  /\ PlayersIn(s)' = PlayersIn(s) /\ ReadyIn(s)' = ReadyIn(s)
               /\ Started(s)' <=> Started(s)
               /\ rooms'[s] # Absent => PlayersIn(s)' # {}
    BY <1>2 DEF PlayersIn, ReadyIn, Started, MapsAgree
  <1>6. QED BY <1>2, <1>4, <1>5

-----------------------------------------------------------------------------
(* The invariants.                                                         *)

\* The empty server is well typed and its maps agree.
LEMMA InvInit == Init => TypeOK /\ MapsAgree
  BY RoomAssumption DEF Init, TypeOK, MapsAgree, PlayersIn, ReadyIn

\* Every request, and a restart, keeps the maps well typed and in agreement.
LEMMA InvStep == TypeOK /\ MapsAgree /\ [Next]_vars => TypeOK' /\ MapsAgree'
  <1> SUFFICES ASSUME TypeOK, MapsAgree, [Next]_vars PROVE TypeOK' /\ MapsAgree'
    OBVIOUS
  <1>1. ASSUME NEW r \in Rooms, NEW p \in Players, join(r, p)
        PROVE  TypeOK' /\ MapsAgree'
    <2>1. playerRooms' = [playerRooms EXCEPT ![p] = r]
      BY <1>1 DEF join
    <2>2. TypeOK'
      BY <1>1, <2>1, JoinEffect DEF TypeOK, RoomMap
    <2>3. ASSUME NEW s \in Rooms, NEW q \in Players
          PROVE  q \in PlayersIn(s)' <=> playerRooms'[q] = s
      BY <1>1, <2>1, JoinEffect DEF TypeOK, MapsAgree
    <2>4. ASSUME NEW s \in Rooms
          PROVE  /\ rooms'[s] # Absent => PlayersIn(s)' # {}
                 /\ ReadyIn(s)' \subseteq PlayersIn(s)'
      <3>1. ReadyIn(s) \subseteq PlayersIn(s)
        BY DEF MapsAgree
      <3>2. QED BY <1>1, <3>1, JoinEffect
    <2>5. QED BY <2>2, <2>3, <2>4 DEF MapsAgree
  <1>2. ASSUME NEW r \in Rooms, NEW p \in Players, ready(r, p)
        PROVE  TypeOK' /\ MapsAgree'
    <2>1. playerRooms' = playerRooms
      BY <1>2 DEF ready
    <2>2. TypeOK'
      BY <1>2, <2>1, ReadyEffect DEF TypeOK, RoomMap
    <2>3. ASSUME NEW s \in Rooms, NEW q \in Players
          PROVE  q \in PlayersIn(s)' <=> playerRooms'[q] = s
      BY <1>2, <2>1, ReadyEffect DEF MapsAgree
    <2>4. ASSUME NEW s \in Rooms
          PROVE  /\ rooms'[s] # Absent => PlayersIn(s)' # {}
                 /\ ReadyIn(s)' \subseteq PlayersIn(s)'
      <3>1. ReadyIn(s) \subseteq PlayersIn(s)
        BY DEF MapsAgree
      <3>2. QED BY <1>2, <3>1, ReadyEffect
    <2>5. QED BY <2>2, <2>3, <2>4 DEF MapsAgree
  <1>3. ASSUME NEW r \in Rooms, NEW p \in Players, leave(r, p)
        PROVE  TypeOK' /\ MapsAgree'
    <2>1. playerRooms' = forgetRoom(r, p)
      BY <1>3 DEF leave
    <2>2. TypeOK'
      BY <1>3, <2>1, LeaveEffect DEF TypeOK, RoomMap, forgetRoom
    <2>3. ASSUME NEW s \in Rooms, NEW q \in Players
          PROVE  q \in PlayersIn(s)' <=> playerRooms'[q] = s
      <3>1. q \in PlayersIn(s) <=> playerRooms[q] = s
        BY DEF MapsAgree
      <3>2. QED BY <1>3, <2>1, <3>1, LeaveEffect, RoomAssumption
                DEF TypeOK, forgetRoom
    <2>4. ASSUME NEW s \in Rooms
          PROVE  /\ rooms'[s] # Absent => PlayersIn(s)' # {}
                 /\ ReadyIn(s)' \subseteq PlayersIn(s)'
      <3>1. ReadyIn(s) \subseteq PlayersIn(s)
        BY DEF MapsAgree
      <3>2. QED BY <1>3, <3>1, LeaveEffect
    <2>5. QED BY <2>2, <2>3, <2>4 DEF MapsAgree
  <1>4. CASE Restart
    BY <1>4, RoomAssumption DEF Restart, TypeOK, MapsAgree, PlayersIn, ReadyIn
  <1>5. CASE UNCHANGED vars
    BY <1>5 DEF vars, TypeOK, MapsAgree, PlayersIn, ReadyIn
  <1>6. QED BY <1>1, <1>2, <1>3, <1>4, <1>5 DEF Next

\* The invariant that the other theorems rest on: types, and maps that agree.
THEOREM Consistent == Spec => [](TypeOK /\ MapsAgree)
  BY InvInit, InvStep, PTL DEF Spec

\* rooms and playerRooms of the server never disagree about where a player is,
\* and no empty room is kept (join, leave, removePlayerLocked).
THEOREM RoomMapsAgree == Spec => []MapsAgree
  BY Consistent, PTL

-----------------------------------------------------------------------------
(* RoomServer implements Lobby.                                            *)

Members == {e \in Players \X Rooms : e[1] \in PlayersIn(e[2])}
Prepared == {p \in Players : \E r \in Rooms : p \in ReadyIn(r)}
Playing == {r \in Rooms : Started(r)}

\* Who is in a room by Lobby's account is who is in it by the server's.
LEMMA MembersIn ==
  ASSUME TypeOK, NEW r \in Rooms
  PROVE  /\ \A p \in Players : <<p, r>> \in Members <=> p \in PlayersIn(r)
         /\ Promise!In(r, Members) = PlayersIn(r)
  <1>1. PlayersIn(r) \subseteq Players
    BY DEF TypeOK, RoomState, PlayersIn
  <1>2. \A p \in Players : <<p, r>> \in Members <=> p \in PlayersIn(r)
    BY DEF Members
  <1>3. QED BY <1>1, <1>2 DEF Promise!In

\* A ready player is prepared, and is so in the room he is in.
LEMMA PreparedIn ==
  ASSUME TypeOK, MapsAgree, NEW r \in Rooms, NEW p \in PlayersIn(r)
  PROVE  p \in Prepared <=> p \in ReadyIn(r)
  <1>1. p \in Players
    BY DEF TypeOK, RoomState, PlayersIn
  <1>2. \A s \in Rooms : p \in ReadyIn(s) => s = r
    BY <1>1 DEF MapsAgree
  <1>3. QED BY <1>1, <1>2 DEF Prepared

\* A join is Lobby's Enter.
LEMMA JoinEnters ==
  ASSUME TypeOK, MapsAgree, TypeOK', NEW r \in Rooms, NEW p \in Players, join(r, p)
  PROVE  Promise!Enter(p, r)
  <1>1. /\ \A s \in Rooms : PlayersIn(s) \subseteq Players
        /\ \A s \in Rooms : ReadyIn(s) \subseteq PlayersIn(s)
        /\ \A s, u \in Rooms : \A q \in Players :
             q \in PlayersIn(s) /\ q \in PlayersIn(u) => s = u
    BY DEF TypeOK, RoomState, PlayersIn, MapsAgree
  <1>2. Members' = {e \in Members : e[1] # p} \cup {<<p, r>>}
    BY JoinEffect DEF Members
  <1>3. Prepared' = IF <<p, r>> \in Members THEN Prepared ELSE Prepared \ {p}
    <2>1. CASE p \in PlayersIn(r)
      <3>1. \A s \in Rooms : ReadyIn(s)' = ReadyIn(s)
        <4>1. \A s \in Rooms : s # r => p \notin ReadyIn(s)
          BY <1>1, <2>1
        <4>2. QED BY <4>1, JoinEffect
      <3>2. QED BY <2>1, <3>1, MembersIn DEF Prepared
    <2>2. CASE p \notin PlayersIn(r)
      <3>1. \A s \in Rooms : ReadyIn(s)' = ReadyIn(s) \ {p}
        BY <1>1, <2>2, JoinEffect
      <3>2. QED BY <2>2, <3>1, MembersIn DEF Prepared
    <2>3. QED BY <2>1, <2>2
  <1>4. Playing' = Promise!Occupied(Playing, {e \in Members : e[1] # p \/ e[2] = r})
    <2> DEFINE Rest == {e \in Members : e[1] # p \/ e[2] = r}
    <2>1. ASSUME NEW s \in Rooms
          PROVE  Promise!In(s, Rest) = IF s = r THEN PlayersIn(s)
                                                ELSE PlayersIn(s) \ {p}
      <3>1. \A q \in Players : <<q, s>> \in Rest
              <=> q \in PlayersIn(s) /\ (q # p \/ s = r)
        BY MembersIn
      <3>2. QED BY <1>1, <3>1 DEF Promise!In
    <2>2. ASSUME NEW s \in Rooms
          PROVE  s \in Playing' <=> s \in Playing /\ Promise!In(s, Rest) # {}
      <3>1. Started(r) => PlayersIn(r) # {}
        BY DEF MapsAgree, Started
      <3>2. QED BY <2>1, <3>1, JoinEffect DEF Playing
    <2> HIDE DEF Rest
    <2>3. QED BY <2>2 DEF Playing, Promise!Occupied, Rest
  <1>5. QED BY <1>2, <1>3, <1>4 DEF Promise!Enter, Members, Prepared, Playing

\* A ready is Lobby's SayReady.
LEMMA ReadySays ==
  ASSUME TypeOK, MapsAgree, TypeOK', NEW r \in Rooms, NEW p \in Players, ready(r, p)
  PROVE  Promise!SayReady(p, r)
  <1>1. <<p, r>> \in Members
    BY ReadyEffect, MembersIn
  <1>2. Members' = Members
    BY ReadyEffect DEF Members
  <1>3. Prepared' = Prepared \cup {p}
    BY ReadyEffect DEF Prepared
  <1>4. Promise!In(r, Members) \subseteq Prepared'
          <=> ReadyIn(r) \cup {p} = PlayersIn(r)
    <2>1. Promise!In(r, Members) = PlayersIn(r) /\ p \in PlayersIn(r)
      BY MembersIn, ReadyEffect
    <2>2. \A q \in PlayersIn(r) : q \in Prepared <=> q \in ReadyIn(r)
      BY PreparedIn
    <2>3. ReadyIn(r) \subseteq PlayersIn(r)
      BY DEF MapsAgree
    <2>4. QED BY <1>3, <2>1, <2>2, <2>3
  <1>5. (\E a, b \in PlayersIn(r) : a # b)
          <=> \E q \in Promise!In(r, Members) : q # p
    BY MembersIn, ReadyEffect
  <1>6. Playing' = IF /\ Promise!In(r, Members) \subseteq Prepared'
                      /\ \E q \in Promise!In(r, Members) : q # p
                     THEN Playing \cup {r} ELSE Playing
    <2>1. \A s \in Rooms : s \in Playing' <=>
            \/ s \in Playing
            \/ /\ s = r
               /\ ReadyIn(r) \cup {p} = PlayersIn(r)
               /\ \E a, b \in PlayersIn(r) : a # b
      BY ReadyEffect DEF Playing
    <2>2. Playing' \subseteq Rooms /\ Playing \subseteq Rooms
      BY DEF Playing
    <2>3. QED BY <1>4, <1>5, <2>1, <2>2
  <1>7. QED BY <1>1, <1>2, <1>3, <1>6
          DEF Promise!SayReady, Members, Prepared, Playing

\* A leave of the room the player is in is Lobby's Exit; any other is nothing.
LEMMA LeaveExits ==
  ASSUME TypeOK, MapsAgree, TypeOK', NEW r \in Rooms, NEW p \in Players, leave(r, p)
  PROVE  Promise!Exit(p, r) \/ UNCHANGED <<Members, Prepared, Playing>>
  <1>1. \A s \in Rooms : ReadyIn(s) \subseteq PlayersIn(s)
    BY DEF MapsAgree
  <1>2. CASE p \notin PlayersIn(r)
    <2>1. \A s \in Rooms : PlayersIn(s)' = PlayersIn(s) /\ ReadyIn(s)' = ReadyIn(s)
      BY <1>1, <1>2, LeaveEffect
    <2>2. \A s \in Rooms : Started(s)' <=> Started(s)
      <3>1. Started(r) => PlayersIn(r) # {}
        BY DEF MapsAgree, Started
      <3>2. QED BY <1>2, <3>1, LeaveEffect
    <2>3. QED BY <2>1, <2>2 DEF Members, Prepared, Playing
  <1>3. CASE p \in PlayersIn(r)
    <2>1. <<p, r>> \in Members
      BY <1>3, MembersIn
    <2>2. Members' = Members \ {<<p, r>>}
      BY LeaveEffect DEF Members
    <2>3. Prepared' = Prepared \ {p}
      <3>1. \A s \in Rooms : s # r => p \notin PlayersIn(s)
        BY <1>3 DEF MapsAgree
      <3>2. \A s \in Rooms : ReadyIn(s)' = ReadyIn(s) \ {p}
        BY <1>1, <3>1, LeaveEffect
      <3>3. QED BY <3>2 DEF Prepared
    <2>4. Playing' = Promise!Occupied(Playing, Members')
      <3>1. \A s \in Rooms : Promise!In(s, Members') = PlayersIn(s)'
        <4>1. ASSUME NEW s \in Rooms
              PROVE  Promise!In(s, Members') = PlayersIn(s)'
          <5>1. PlayersIn(s)' \subseteq Players
            BY DEF TypeOK, RoomState, PlayersIn
          <5>2. \A q \in Players : <<q, s>> \in Members' <=> q \in PlayersIn(s)'
            BY DEF Members
          <5>3. QED BY <5>1, <5>2 DEF Promise!In
        <4>2. QED BY <4>1
      <3>2. \A s \in Rooms : Started(s) => PlayersIn(s) # {}
        BY DEF MapsAgree, Started
      <3>3. \A s \in Rooms : s \in Playing' <=> s \in Playing /\ PlayersIn(s)' # {}
        BY <3>2, LeaveEffect DEF Playing
      <3>4. QED BY <3>1, <3>3 DEF Playing, Promise!Occupied
    <2>5. QED BY <2>1, <2>2, <2>3, <2>4
            DEF Promise!Exit, Members, Prepared, Playing
  <1>4. QED BY <1>2, <1>3

\* The room server keeps Lobby's promise: whatever requests arrive, in whatever
\* order and for whichever rooms, each is one of Lobby's steps or none.
THEOREM LobbyImplemented == Spec => KeepsPromise
  <1>1. Init => Promise!Init
    BY DEF Init, Promise!Init, PlayersIn, ReadyIn, Started
  <1>2. TypeOK /\ MapsAgree /\ TypeOK' /\ [Next]_vars => [Promise!Next]_(Promise!vars)
    <2> SUFFICES ASSUME TypeOK, MapsAgree, TypeOK', [Next]_vars
                 PROVE  [Promise!Next]_(Promise!vars)
      OBVIOUS
    <2>1. ASSUME NEW r \in Rooms, NEW p \in Players, join(r, p)
          PROVE  Promise!Next
      BY <2>1, JoinEnters DEF Promise!Next
    <2>2. ASSUME NEW r \in Rooms, NEW p \in Players, ready(r, p)
          PROVE  Promise!Next
      BY <2>2, ReadySays DEF Promise!Next
    <2>3. ASSUME NEW r \in Rooms, NEW p \in Players, leave(r, p)
          PROVE  Promise!Next \/ UNCHANGED Promise!vars
      <3>1. CASE Promise!Exit(p, r)
        BY <3>1 DEF Promise!Next
      <3>2. CASE UNCHANGED <<Members, Prepared, Playing>>
        BY <3>2 DEF Promise!vars, Members, Prepared, Playing
      <3>3. QED BY <2>3, <3>1, <3>2, LeaveExits
    <2>4. CASE Restart
      <3>1. Promise!Reset
        BY <2>4 DEF Restart, Promise!Reset, PlayersIn, ReadyIn, Started
      <3>2. QED BY <3>1 DEF Promise!Next
    <2>5. CASE UNCHANGED vars
      BY <2>5 DEF vars, Promise!vars, PlayersIn, ReadyIn, Started
    <2>6. QED BY <2>1, <2>2, <2>3, <2>4, <2>5 DEF Next
  <1>3. QED BY <1>1, <1>2, Consistent, PTL DEF Spec, KeepsPromise, Promise!Spec

-----------------------------------------------------------------------------
(* When a room of ready players is not started.                            *)

Complete(r) ==
  /\ rooms[r] # Absent
  /\ ReadyIn(r) = PlayersIn(r)
  /\ \E a, b \in PlayersIn(r) : a # b

\* A step that leaves a complete room unstarted found it so, or is a departure.
LEMMA MissedStart ==
  ASSUME TypeOK, MapsAgree, [Next]_vars, NEW s \in Rooms,
         Complete(s)', ~Started(s)'
  PROVE  \/ Complete(s) /\ ~Started(s)
         \/ \E p \in PlayersIn(s) : p \notin PlayersIn(s)'
  <1>1. ReadyIn(s) \subseteq PlayersIn(s)
    BY DEF MapsAgree
  <1>2. PlayersIn(s) # {} => rooms[s] # Absent
    BY DEF PlayersIn
  <1>3. Started(s) => PlayersIn(s) # {}
    BY DEF MapsAgree, Started
  <1>4. ASSUME NEW r \in Rooms, NEW p \in Players, join(r, p)
        PROVE  \/ Complete(s) /\ ~Started(s)
               \/ \E q \in PlayersIn(s) : q \notin PlayersIn(s)'
    <2>1. CASE s = r
      BY <1>1, <1>2, <1>4, <2>1, JoinEffect DEF Complete
    <2>2. CASE s # r /\ p \in PlayersIn(s)
      BY <1>4, <2>2, JoinEffect
    <2>3. CASE s # r /\ p \notin PlayersIn(s)
      <3>1. /\ PlayersIn(s)' = PlayersIn(s) /\ ReadyIn(s)' = ReadyIn(s)
            /\ Started(s)' <=> Started(s)
        BY <1>1, <1>3, <1>4, <2>3, JoinEffect
      <3>2. QED BY <1>2, <3>1 DEF Complete
    <2>4. QED BY <2>1, <2>2, <2>3
  <1>5. ASSUME NEW r \in Rooms, NEW p \in Players, ready(r, p)
        PROVE  Complete(s) /\ ~Started(s)
    <2>1. CASE s = r
      BY <1>5, <2>1, ReadyEffect DEF Complete
    <2>2. CASE s # r
      BY <1>2, <1>5, <2>2, ReadyEffect DEF Complete
    <2>3. QED BY <2>1, <2>2
  <1>6. ASSUME NEW r \in Rooms, NEW p \in Players, leave(r, p)
        PROVE  \/ Complete(s) /\ ~Started(s)
               \/ \E q \in PlayersIn(s) : q \notin PlayersIn(s)'
    <2>1. CASE s = r /\ p \in PlayersIn(s)
      BY <1>6, <2>1, LeaveEffect
    <2>2. CASE ~(s = r /\ p \in PlayersIn(s))
      <3>1. /\ PlayersIn(s)' = PlayersIn(s) /\ ReadyIn(s)' = ReadyIn(s)
            /\ Started(s)' <=> Started(s)
        BY <1>1, <1>3, <1>6, <2>2, LeaveEffect
      <3>2. QED BY <1>2, <3>1 DEF Complete
    <2>3. QED BY <2>1, <2>2
  <1>7. CASE Restart
    BY <1>7 DEF Restart, Complete
  <1>8. CASE UNCHANGED vars
    BY <1>8 DEF vars, Complete, Started, PlayersIn, ReadyIn
  <1>9. QED BY <1>4, <1>5, <1>6, <1>7, <1>8 DEF Next

\* Every ready that completes a room announces its start: a room of at least
\* two ready players that is not started has been left by somebody.
THEOREM StartsAreAnnounced == Spec => StartMissedOnlyByDeparture
  <1> DEFINE A == \A r \in Rooms :
                    /\ rooms'[r] # Absent
                    /\ AllReady(rooms'[r])
                    /\ ~rooms'[r].started
                    => \/ rooms[r] # Absent /\ AllReady(rooms[r]) /\ ~rooms[r].started
                       \/ \E p \in PlayersIn(r) : p \notin rooms'[r].players
  <1>1. TypeOK /\ MapsAgree /\ [Next]_vars => [A]_vars
    <2> SUFFICES ASSUME TypeOK, MapsAgree, [Next]_vars, NEW r \in Rooms,
                        rooms'[r] # Absent, AllReady(rooms'[r]),
                        ~rooms'[r].started
                 PROVE  \/ /\ rooms[r] # Absent /\ AllReady(rooms[r])
                           /\ ~rooms[r].started
                        \/ \E p \in PlayersIn(r) : p \notin rooms'[r].players
      OBVIOUS
    <2>1. Complete(r)' /\ ~Started(r)'
      BY DEF Complete, Started, AllReady, PlayersIn, ReadyIn
    <2>2. \/ Complete(r) /\ ~Started(r)
          \/ \E p \in PlayersIn(r) : p \notin PlayersIn(r)'
      BY <2>1, MissedStart
    <2>3. QED BY <2>2 DEF Complete, Started, AllReady, PlayersIn, ReadyIn
  <1> HIDE DEF A
  <1>2. Spec => [][A]_vars
    BY <1>1, Consistent, PTL DEF Spec
  <1>3. QED BY <1>2 DEF A, StartMissedOnlyByDeparture
=============================================================================
