------------------------------ MODULE RoomHost ------------------------------
(***************************************************************************)
(* One process of cmd/roomserver and the registry it reports to.  The      *)
(* process registers, sends a first heartbeat, and then serves players     *)
(* while a goroutine sends a heartbeat at every tick.  A request of it is  *)
(* run by a handler of RoomRegistry: the process waits for the answer, but *)
(* not longer than httpRequestTimeout, after which the handler may go on   *)
(* or be cut off.  Meanwhile matches reserve slots, and an operator may    *)
(* drain the server with a heartbeat of his own.                           *)
(*                                                                         *)
(* A request that fails before a handler runs, or that is refused, changes *)
(* nothing while the process serves and is no action then.  A TCP          *)
(* connection that is closed changes nothing either: its player keeps his  *)
(* seat until a leave is sent for him.                                     *)
(***************************************************************************)
EXTENDS RoomRegistry

CONSTANTS
  Self,       \* the server id of the process
  NoHandler,  \* the process is not waiting for an answer
  Players, Rooms, NoRoom, Absent   \* see RoomServer

ASSUME SelfAssumption == Self \in Servers /\ NoHandler \notin Handlers
ASSUME SeatAssumption == IsFiniteSet(Players)

\* The process may register again and sends heartbeats.
ASSUME ReportAssumption == {"heartbeat", "reregister"} \subseteq Env

VARIABLES
  rooms, playerRooms,  \* the state of RoomServer
  phase,               \* how far main is
  waiting              \* the handler of the request it waits for

Room == INSTANCE RoomServer

ASSUME RoomAssumption == NoRoom \notin Rooms /\ Absent \notin Room!RoomState

seatVars == <<rooms, playerRooms>>
hostVars == <<seatVars, phase, waiting>>
allVars == <<vars, hostVars>>

HostTypeOK ==
  /\ TypeOK
  /\ Room!TypeOK
  /\ phase \in {"off", "register", "beat", "serve"}
  /\ waiting \in Handlers \cup {NoHandler}
  /\ phase = "off" => waiting = NoHandler

HostInit == Init /\ Room!Init /\ phase = "off" /\ waiting = NoHandler

\* currentLoad: the players that some connection has joined and none has left.
Seats == Cardinality({p \in Players : playerRooms[p] # NoRoom})

-----------------------------------------------------------------------------
(* Slips: definitions below with one plausible bug each, for the mutants.  *)

\* A stopped process is still taken for the one that waits.
SlipKeepsWaiting == waiting

\* main goes on although CoreRank did not accept the request.
SlipIgnoresFailure(ok) == IF phase = "register" THEN "beat" ELSE "serve"

\* The load counts the players of started rooms only.
SlipCountsStarted ==
  Cardinality({p \in Players : \E r \in Rooms : Room!Started(r) /\ playerRooms[p] = r})

\* The load is cut down to the capacity, so that it is never refused.
SlipCapped == IF Seats <= capacity[Self] THEN Seats ELSE capacity[Self]

-----------------------------------------------------------------------------
(* main and the requests of the process.                                   *)

Reported == Seats

\* Where main is after the answer to its request: a failure ends it before it
\* serves, and is only logged afterwards.
After(ok) ==
  IF phase = "serve" THEN "serve"
  ELSE IF ~ok THEN "off"
  ELSE IF phase = "register" THEN "beat" ELSE "serve"

Answer(h, ok) ==
  IF waiting = h
    THEN phase' = After(ok) /\ waiting' = NoHandler
    ELSE UNCHANGED <<phase, waiting>>

Launch ==
  /\ phase = "off"
  /\ phase' = "register"
  /\ UNCHANGED <<vars, seatVars, waiting>>

\* The mode and the capacity are those that this process was started with.
Register(h, x) ==
  /\ phase = "register"
  /\ waiting = NoHandler
  /\ RegisterGameServer(h, Self)
  /\ job'[h].mode = x /\ job'[h].load = Reported /\ job'[h].status = "active"
  /\ waiting' = h
  /\ UNCHANGED <<seatVars, phase>>

\* Nothing happens if the load is refused, being above the capacity.
Heartbeat(h) ==
  /\ phase \in {"beat", "serve"}
  /\ waiting = NoHandler
  /\ HeartbeatGameServer(h, Self)
  /\ job'[h].load = Reported /\ job'[h].status = "active"
  /\ waiting' = h
  /\ UNCHANGED <<seatVars, phase>>

\* httpRequestTimeout passes, or the connection breaks: the handler goes on.
GiveUp ==
  /\ waiting # NoHandler
  /\ Answer(waiting, FALSE)
  /\ UNCHANGED <<vars, seatVars>>

WaitingAfterStop == NoHandler

\* The process is stopped, or ends because CoreRank cannot be reached; its
\* players and rooms are gone, and the registry is not told.
Stop ==
  /\ phase # "off"
  /\ phase' = "off"
  /\ waiting' = WaitingAfterStop
  /\ Room!Restart
  /\ UNCHANGED vars

\* Serve is started after the first heartbeat.
Serve ==
  /\ phase = "serve"
  /\ \E r \in Rooms, p \in Players :
       Room!join(r, p) \/ Room!ready(r, p) \/ Room!leave(r, p)
  /\ UNCHANGED <<vars, phase, waiting>>

-----------------------------------------------------------------------------
(* The registry.                                                           *)

Write(h) == WriteInfo(h) /\ UNCHANGED hostVars
List(h) == ListServer(h) /\ UNCHANGED hostVars
Succeed(h) == UpdateServerLoad(h) /\ Answer(h, TRUE) /\ UNCHANGED seatVars
Fail(h) == HandlerCut(h) /\ Answer(h, FALSE) /\ UNCHANGED seatVars

\* An operator drains the server; his heartbeat carries no load.
Drain(h) ==
  /\ HeartbeatGameServer(h, Self)
  /\ job'[h].load = load[Self] /\ job'[h].status = "draining"
  /\ UNCHANGED hostVars

Allocate(m) ==
  /\ \/ \E x \in Modes : ListByLoad(m, x)
     \/ \E s \in Servers : GetGameServer(m, s)
     \/ Reserve(m) \/ ReserveRefused(m) \/ NoAvailableRoomServer(m)
     \/ AllocationCut(m) \/ ReleaseRoomServer(m)
  /\ UNCHANGED hostVars

GrowOld == Age(Self) /\ UNCHANGED hostVars

HostNext ==
  \/ Launch \/ GiveUp \/ Stop \/ Serve \/ GrowOld
  \/ \E h \in Handlers :
       \/ \E x \in Modes : Register(h, x)
       \/ Heartbeat(h) \/ Write(h) \/ List(h) \/ Succeed(h) \/ Fail(h) \/ Drain(h)
  \/ \E m \in Matches : Allocate(m)

HostSpec == HostInit /\ [][HostNext]_allVars

\* The ticker and the goroutines go on, time passes, and requests are not cut
\* off for ever.  Nobody has to join, to leave, to start or to stop anything.
HostFairness ==
  /\ WF_allVars(\E h \in Handlers : Heartbeat(h))
  /\ WF_allVars(GrowOld)
  /\ \A h \in Handlers :
       /\ SF_allVars(Write(h)) /\ SF_allVars(List(h)) /\ SF_allVars(Succeed(h))

HostFairSpec == HostSpec /\ HostFairness

-----------------------------------------------------------------------------
(* Properties.                                                             *)

\* A process that serves players, or is about to, can be found by the
\* allocator and by ListGameServers, whichever of its requests were given up,
\* cut off or answered late, in this life or in an earlier one.
ServesOnlyRegistered ==
  phase \in {"beat", "serve"} =>
    Self \in listed /\ \E x \in Modes : Self \in index[x]

\* From now on n players stay, and nobody drains the server.
Settled(n) ==
  phase = "serve" /\ Seats = n /\ \A h \in Handlers : job[h].status = "active"

\* The registry says that the server has n players, and is active.
Converged(n) ==
  /\ load[Self] = n /\ status[Self] = "active"
  /\ \E x \in Modes :
       /\ mode[Self] = x /\ Self \in index[x]
       /\ score[x][Self] = [load |-> n, capacity |-> capacity[Self]]

\* The slots of matches that ended, or whose players never came, are not
\* released by anybody: it is the heartbeats that bring the load back to the
\* players who are there, once these settle, whatever a reservation, a release
\* or a late handler wrote -- unless they are more than the capacity that the
\* registry has of the server, which may be that of an earlier process.  So does
\* the load index, and the server is active.
LoadsConverge ==
  \A n \in 0 .. Cardinality(Players) :
    <>[](Settled(n) /\ n <= capacity[Self]) => <>[]Converged(n)

\* join does not look at the capacity: while a server has more players than the
\* registry has a capacity of it, its heartbeats are refused and it goes stale, so
\* that no match is sent to it.
OverfullGoesStale ==
  (\E n \in 0 .. Cardinality(Players) : <>[](Settled(n) /\ n > capacity[Self]))
    => <>[](Self \notin fresh)
=============================================================================
