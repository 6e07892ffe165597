---------------------------- MODULE RoomRegistry ----------------------------
(***************************************************************************)
(* The registry of room servers that CoreRank keeps in Redis, and the two  *)
(* kinds of goroutines that use it: HTTP handlers that register a server or*)
(* process its heartbeat, and matches that allocate a room and may have to *)
(* release it.  As in MatchTickets one Redis command (or script) is one    *)
(* action, and what was read may be stale when it is used.                 *)
(*                                                                         *)
(* Abstracted: addresses, regions and server types; the clock (a server is *)
(* fresh until its last heartbeat is too old); server:index:{mode}, which  *)
(* nothing reads; room:assignment:{match}, which is written only.  Requests*)
(* refused by validation change nothing and are no actions.                *)
(***************************************************************************)
EXTENDS Integers, FiniteSets

CONSTANTS
  Servers,    \* server ids
  Modes,      \* match modes
  Matches,    \* matches that want a room, each allocated by one goroutine
  Handlers,   \* concurrent registry requests, each a goroutine
  NoServer, NoMode,
  Capacities, \* the capacities that a registration of each server may bring
  Slots,      \* len(PlayerIDs), the players of a match
  Env         \* which of Hazards may happen

Hazards == {"heartbeat", "reregister", "drain", "age", "cut"}

ASSUME NameAssumption == NoServer \notin Servers /\ NoMode \notin Modes
ASSUME SizeAssumption == Capacities \in [Servers -> SUBSET (Nat \ {0})] /\ Slots \in Nat \ {0}
ASSUME MatchAssumption == IsFiniteSet(Matches)
ASSUME HazardAssumption == Env \subseteq Hazards

VARIABLES
  mode, capacity, load, status,  \* server:info:{id}; mode is NoMode, and the
                                 \* capacity 1, before it exists
  fresh,     \* servers whose last_heartbeat_at is recent
  listed,    \* members of server:heartbeat
  index,     \* members of server:load:{mode}, ...
  score,     \* ... and what each member's score was computed from
  pc, want,  \* of each match: the step of its allocation, the mode it asks for
  left,      \* the servers of its ZRANGE it still has to try, ...
  seen,      \* ... and the scores they had in it
  aged,      \* the servers whose heartbeat is too old by its clock
  look,      \* the server it has read and will try to reserve
  assigned,  \* the server that holds its room
  hpc, job,  \* of each handler: its step, and the values it will write
  avail      \* history: servers that could have taken the match all along

infoVars == <<mode, capacity, load, status, fresh>>
indexVars == <<listed, index, score>>
matchVars == <<pc, want, left, seen, aged, look, assigned>>
handlerVars == <<hpc, job>>
vars == <<infoVars, indexVars, matchVars, handlerVars, avail>>

\* "unhealthy" has the effect of "draining" everywhere and stands with it.
Statuses == {"active", "draining"}
Sent == IF "drain" \in Env THEN Statuses ELSE {"active"}

\* What a handler is about to write.
Job == [server : Servers \cup {NoServer}, mode : Modes \cup {NoMode},
        capacity : Nat \ {0}, load : Int, status : Statuses]
NoJob == [server |-> NoServer, mode |-> NoMode, capacity |-> 1, load |-> 0,
          status |-> "active"]

\* A score of the load index: load / capacity.
Ratio == [load : Int, capacity : Nat \ {0}]

TypeOK ==
  /\ mode \in [Servers -> Modes \cup {NoMode}]
  /\ capacity \in [Servers -> Nat \ {0}]
  /\ load \in [Servers -> Int]
  /\ status \in [Servers -> Statuses]
  /\ fresh \subseteq Servers
  /\ listed \subseteq Servers
  /\ index \in [Modes -> SUBSET Servers]
  /\ score \in [Modes -> [Servers -> Ratio]]
  /\ pc \in [Matches -> {"new", "scan", "reserve", "reserved", "failed", "released"}]
  /\ want \in [Matches -> Modes \cup {NoMode}]
  /\ left \in [Matches -> SUBSET Servers]
  /\ seen \in [Matches -> [Servers -> Ratio]]
  /\ aged \in [Matches -> SUBSET Servers]
  /\ look \in [Matches -> Servers \cup {NoServer}]
  /\ assigned \in [Matches -> Servers \cup {NoServer}]
  /\ hpc \in [Handlers -> {"idle", "info", "list", "index"}]
  /\ job \in [Handlers -> Job]
  /\ avail \in [Matches -> SUBSET Servers]

NoScores == [s \in Servers |-> [load |-> 0, capacity |-> 1]]

Init ==
  /\ mode = [s \in Servers |-> NoMode]
  /\ capacity = [s \in Servers |-> 1]
  /\ load = [s \in Servers |-> 0]
  /\ status = [s \in Servers |-> "active"]
  /\ fresh = {} /\ listed = {}
  /\ index = [x \in Modes |-> {}]
  /\ score = [x \in Modes |-> NoScores]
  /\ pc = [m \in Matches |-> "new"]
  /\ want = [m \in Matches |-> NoMode]
  /\ left = [m \in Matches |-> {}]
  /\ seen = [m \in Matches |-> NoScores]
  /\ aged = [m \in Matches |-> {}]
  /\ look = [m \in Matches |-> NoServer]
  /\ assigned = [m \in Matches |-> NoServer]
  /\ hpc = [h \in Handlers |-> "idle"]
  /\ job = [h \in Handlers |-> NoJob]
  /\ avail = [m \in Matches |-> {}]

Registered == {s \in Servers : mode[s] # NoMode}

-----------------------------------------------------------------------------
(* Slips: definitions below with one plausible bug each, for the mutants.  *)

SlipNoFloor(s) == load[s] - Slots                \* the load goes below zero
SlipTriesOne(m, s) == {}                         \* only the first server is tried
SlipOnlyUpdates(s) == listed                     \* ZADD XX
SlipAnyOrder(m, s) == s \in left[m]              \* not by load

-----------------------------------------------------------------------------
(* The conditions and values of the two scripts.                           *)

\* By the scores f, server a comes before b, or ties with it.
LoadedNoMore(f, a, b) == f[a].load * f[b].capacity <= f[b].load * f[a].capacity

Fits(s) == load[s] + Slots <= capacity[s]
LoadReserved(s) == load[s] + Slots
LoadReleased(s) == IF load[s] < Slots THEN 0 ELSE load[s] - Slots

Reservable(m, s) ==
  /\ mode[s] # NoMode
  /\ status[s] = "active"
  /\ s \notin aged[m]
  /\ Fits(s)

\* Servers that would take match m now.
Takers(m) ==
  {s \in Servers : s \in index[want[m]] /\ mode[s] = want[m] /\ Reservable(m, s)}

\* ZADD of server s with score n / c to the load index of mode x.
IndexLoad(x, s, n, c) ==
  /\ index' = [index EXCEPT ![x] = index[x] \cup {s}]
  /\ score' = [score EXCEPT ![x] =
                 [score[x] EXCEPT ![s] = [load |-> n, capacity |-> c]]]

Goto(m, step) == pc' = [pc EXCEPT ![m] = step]

\* History: from the ZRANGE of m until it ends, the servers that have been
\* ready to take it the whole time.  A conjunct of every action.
Watch ==
  avail' = [m \in Matches |->
              IF pc'[m] \notin {"scan", "reserve"} THEN {}
              ELSE IF pc[m] = "new" THEN Takers(m)'
              ELSE avail[m] \cap Takers(m)']

-----------------------------------------------------------------------------
(* AllocateRoomServer, called for match m with the mode of the match.      *)

\* ZRANGE of the load index; the clock that heartbeats are compared with was
\* read just before.
ListByLoad(m, x) ==
  /\ pc[m] = "new"
  /\ want' = [want EXCEPT ![m] = x]
  /\ left' = [left EXCEPT ![m] = index[x]]
  /\ seen' = [seen EXCEPT ![m] = score[x]]
  /\ aged' = [aged EXCEPT ![m] = Servers \ fresh]
  /\ Goto(m, "scan")
  /\ UNCHANGED <<infoVars, indexVars, look, assigned, handlerVars>>
  /\ Watch

\* The next server by the scores of the ZRANGE.
NextLeft(m, s) ==
  /\ s \in left[m]
  /\ \A t \in left[m] : LoadedNoMore(seen[m], s, t)

Remaining(m, s) == left[m] \ {s}

\* GetGameServer of the next server; one that is registered in another mode
\* by now is skipped.
GetGameServer(m, s) ==
  /\ pc[m] = "scan"
  /\ NextLeft(m, s)
  /\ left' = [left EXCEPT ![m] = Remaining(m, s)]
  /\ IF mode[s] = want[m]
       THEN look' = [look EXCEPT ![m] = s] /\ Goto(m, "reserve")
       ELSE UNCHANGED <<look, pc>>
  /\ UNCHANGED <<infoVars, indexVars, want, seen, aged, assigned, handlerVars>>
  /\ Watch

\* ReserveRoomServerScript returns 1.  It updates the load index of the mode
\* read before, and does not look at the mode again.
Reserve(m) ==
  /\ pc[m] = "reserve"
  /\ LET s == look[m] IN
       /\ Reservable(m, s)
       /\ load' = [load EXCEPT ![s] = LoadReserved(s)]
       /\ IndexLoad(want[m], s, LoadReserved(s), capacity[s])
       /\ assigned' = [assigned EXCEPT ![m] = s]
  /\ Goto(m, "reserved")
  /\ left' = [left EXCEPT ![m] = {}]
  /\ seen' = [seen EXCEPT ![m] = NoScores]
  /\ aged' = [aged EXCEPT ![m] = {}]
  /\ look' = [look EXCEPT ![m] = NoServer]
  /\ UNCHANGED <<mode, capacity, status, fresh, listed, want, handlerVars>>
  /\ Watch

\* ReserveRoomServerScript returns 0 and the scan goes on.
ReserveRefused(m) ==
  /\ pc[m] = "reserve"
  /\ ~Reservable(m, look[m])
  /\ look' = [look EXCEPT ![m] = NoServer]
  /\ Goto(m, "scan")
  /\ UNCHANGED <<infoVars, indexVars, want, left, seen, aged, assigned,
                 handlerVars>>
  /\ Watch

\* ErrNoAvailableRoomServer.
NoAvailableRoomServer(m) ==
  /\ pc[m] = "scan"
  /\ left[m] = {}
  /\ seen' = [seen EXCEPT ![m] = NoScores]
  /\ aged' = [aged EXCEPT ![m] = {}]
  /\ Goto(m, "failed")
  /\ UNCHANGED <<infoVars, indexVars, want, left, look, assigned, handlerVars>>
  /\ Watch

\* The request is cancelled, or the server stopped, between two commands.
AllocationCut(m) ==
  /\ "cut" \in Env
  /\ pc[m] \in {"scan", "reserve"}
  /\ left' = [left EXCEPT ![m] = {}]
  /\ seen' = [seen EXCEPT ![m] = NoScores]
  /\ aged' = [aged EXCEPT ![m] = {}]
  /\ look' = [look EXCEPT ![m] = NoServer]
  /\ Goto(m, "failed")
  /\ UNCHANGED <<infoVars, indexVars, want, assigned, handlerVars>>
  /\ Watch

\* ReleaseRoomServerScript, when the match is not completed after all.
ReleaseRoomServer(m) ==
  /\ pc[m] = "reserved"
  /\ LET s == assigned[m] IN
       /\ load' = [load EXCEPT ![s] = LoadReleased(s)]
       /\ IndexLoad(want[m], s, LoadReleased(s), capacity[s])
  /\ assigned' = [assigned EXCEPT ![m] = NoServer]
  /\ Goto(m, "released")
  /\ UNCHANGED <<mode, capacity, status, fresh, listed, want, left, seen, aged, look,
                 handlerVars>>
  /\ Watch

-----------------------------------------------------------------------------
(* RegisterGameServer and HeartbeatGameServer.                             *)

Start(h, s, x, c, n, st) ==
  /\ hpc[h] = "idle"
  /\ job' = [job EXCEPT ![h] = [server |-> s, mode |-> x, capacity |-> c,
                               load |-> n, status |-> st]]
  /\ hpc' = [hpc EXCEPT ![h] = "info"]
  /\ UNCHANGED <<infoVars, indexVars, matchVars>>
  /\ Watch

RegisterGameServer(h, s) ==
  /\ \/ "reregister" \in Env
     \/ mode[s] = NoMode /\ \A g \in Handlers : job[g].server # s
  /\ \E x \in Modes, c \in Capacities[s], st \in Sent :
       \E n \in 0 .. c : Start(h, s, x, c, n, st)

KeptStatus(s) == status[s]

\* The heartbeat reads the whole hash and will write it back, with the status
\* and the load of the request if it has any.
HeartbeatGameServer(h, s) ==
  /\ "heartbeat" \in Env
  /\ mode[s] # NoMode
  /\ \E n \in {load[s]} \cup 0 .. capacity[s], st \in {KeptStatus(s)} \cup Sent :
       Start(h, s, mode[s], capacity[s], n, st)

\* HSET of the whole hash; its last_heartbeat_at is now.
WriteInfo(h) ==
  /\ hpc[h] = "info"
  /\ LET s == job[h].server IN
       /\ mode' = [mode EXCEPT ![s] = job[h].mode]
       /\ capacity' = [capacity EXCEPT ![s] = job[h].capacity]
       /\ load' = [load EXCEPT ![s] = job[h].load]
       /\ status' = [status EXCEPT ![s] = job[h].status]
       /\ fresh' = fresh \cup {s}
       /\ aged' = [m \in Matches |-> aged[m] \ {s}]
  /\ hpc' = [hpc EXCEPT ![h] = "list"]
  /\ UNCHANGED <<indexVars, pc, want, left, seen, look, assigned, job>>
  /\ Watch

\* ZADD to server:heartbeat.
Listing(s) == listed \cup {s}

ListServer(h) ==
  /\ hpc[h] = "list"
  /\ listed' = Listing(job[h].server)
  /\ hpc' = [hpc EXCEPT ![h] = "index"]
  /\ UNCHANGED <<infoVars, index, score, matchVars, job>>
  /\ Watch

\* updateServerLoad, with the load and the capacity the handler knows of.
UpdateServerLoad(h) ==
  /\ hpc[h] = "index"
  /\ IndexLoad(job[h].mode, job[h].server, job[h].load, job[h].capacity)
  /\ hpc' = [hpc EXCEPT ![h] = "idle"]
  /\ job' = [job EXCEPT ![h] = NoJob]
  /\ UNCHANGED <<infoVars, listed, matchVars>>
  /\ Watch

HandlerCut(h) ==
  /\ "cut" \in Env
  /\ hpc[h] # "idle"
  /\ hpc' = [hpc EXCEPT ![h] = "idle"]
  /\ job' = [job EXCEPT ![h] = NoJob]
  /\ UNCHANGED <<infoVars, indexVars, matchVars>>
  /\ Watch

\* The last heartbeat of s becomes older than defaultServerHeartbeatAge.
Age(s) ==
  /\ "age" \in Env
  /\ s \in fresh
  /\ fresh' = fresh \ {s}
  /\ UNCHANGED <<mode, capacity, load, status, indexVars, matchVars, handlerVars>>
  /\ Watch

-----------------------------------------------------------------------------
Next ==
  \/ \E m \in Matches :
       \/ \E x \in Modes : ListByLoad(m, x)
       \/ \E s \in Servers : GetGameServer(m, s)
       \/ Reserve(m) \/ ReserveRefused(m) \/ NoAvailableRoomServer(m)
       \/ AllocationCut(m) \/ ReleaseRoomServer(m)
  \/ \E h \in Handlers :
       \/ \E s \in Servers : RegisterGameServer(h, s) \/ HeartbeatGameServer(h, s)
       \/ WriteInfo(h) \/ ListServer(h) \/ UpdateServerLoad(h) \/ HandlerCut(h)
  \/ \E s \in Servers : Age(s)

Spec == Init /\ [][Next]_vars

-----------------------------------------------------------------------------
(* Properties.                                                             *)

\* The load of a server stays between 0 and its capacity: through reserves and
\* releases of other goroutines between a heartbeat's read and its write, and
\* releases of rooms reserved before the load, or the capacity, was overwritten.
LoadWithinCapacity == \A s \in Servers : load[s] \in 0 .. capacity[s]

\* A match is told that there is no available room server only if no server
\* was ready to take it during the whole of its scan, however the registry
\* changed meanwhile.
NoFalseRefusal == \A m \in Matches : pc[m] = "scan" /\ left[m] = {} => avail[m] = {}

\* A match gets the least loaded server: of those that were ready to take it
\* during the whole of its scan, none had less load for its capacity in the list
\* that the scan goes through, however the index changed meanwhile.
LeastLoadedIsChosen ==
  [][\A m \in Matches :
       Reserve(m) => \A s \in avail[m] : LoadedNoMore(seen[m], look[m], s)]_vars

\* A server that the allocator can choose is known to ListGameServers, also
\* when a registration is cut short.
AllocatableIsListed == \A x \in Modes : index[x] \subseteq listed \cap Registered

\* As long as loads change by reservations only, the registry never books more
\* players on a server than its capacity, and books each match once.
Booking == INSTANCE RoomBooking WITH
  capacity <- [s \in Servers |-> IF mode[s] = NoMode THEN 0 ELSE capacity[s]]
Books == Booking!Spec
=============================================================================
