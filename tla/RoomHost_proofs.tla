--------------------------- MODULE RoomHost_proofs ---------------------------
(* Proofs about RoomHost: a room server beside the registry is a registry   *)
(* and a room server, so that what is proved of them alone holds here too.  *)
EXTENDS RoomHost, RoomRegistry_proofs

-----------------------------------------------------------------------------
(* The registry.                                                           *)

\* Every step of the process, of its requests and of the others is a step of
\* the registry, or leaves it alone.
LEMMA HostStepIsRegistryStep == [HostNext]_allVars => [Next]_vars
  <1> SUFFICES ASSUME [HostNext]_allVars PROVE [Next]_vars
    OBVIOUS
  <1>1. CASE UNCHANGED allVars
    BY <1>1 DEF allVars
  <1>2. CASE Launch \/ GiveUp \/ Stop \/ Serve
    BY <1>2 DEF Launch, GiveUp, Stop, Serve
  <1>3. CASE GrowOld
    BY <1>3, SelfAssumption DEF GrowOld, Next
  <1>4. ASSUME NEW h \in Handlers, NEW x \in Modes, Register(h, x)
        PROVE  Next
    BY <1>4, SelfAssumption DEF Register, Next
  <1>5. ASSUME NEW h \in Handlers, Heartbeat(h) \/ Drain(h)
        PROVE  Next
    BY <1>5, SelfAssumption DEF Heartbeat, Drain, Next
  <1>6. ASSUME NEW h \in Handlers, Write(h) \/ List(h) \/ Succeed(h) \/ Fail(h)
        PROVE  Next
    BY <1>6 DEF Write, List, Succeed, Fail, Next
  <1>7. ASSUME NEW m \in Matches, Allocate(m)
        PROVE  Next
    BY <1>7 DEF Allocate, Next
  <1>8. QED
    BY <1>1, <1>2, <1>3, <1>4, <1>5, <1>6, <1>7 DEF HostNext

\* The registry does not tell this process from other clients: every behaviour
\* of the composition is one of RoomRegistry.
THEOREM HostIsARegistryClient == HostSpec => Spec
  <1>1. HostInit => Init
    BY DEF HostInit
  <1>2. QED BY <1>1, HostStepIsRegistryStep, PTL DEF HostSpec, Spec

\* Loads stay between zero and the capacity, although the server itself may
\* hold more players than that.
THEOREM HostLoadWithinCapacity == HostSpec => []LoadWithinCapacity
  BY HostIsARegistryClient, LoadsStayWithinCapacity, PTL

-----------------------------------------------------------------------------
(* The room server.                                                        *)

\* The players' maps change by requests and stops only.
LEMMA HostStepIsRoomStep == [HostNext]_allVars => [Room!Next]_(Room!vars)
  <1> SUFFICES ASSUME [HostNext]_allVars PROVE [Room!Next]_(Room!vars)
    OBVIOUS
  <1>1. CASE UNCHANGED seatVars
    BY <1>1 DEF seatVars, Room!vars
  <1>2. CASE Serve
    BY <1>2 DEF Serve, Room!Next
  <1>3. CASE Stop
    BY <1>3 DEF Stop, Room!Next
  <1>4. QED
    BY <1>1, <1>2, <1>3
       DEF HostNext, allVars, hostVars, Launch, GiveUp, GrowOld, Register,
           Heartbeat, Write, List, Succeed, Fail, Drain, Allocate

\* Every behaviour of the composition is one of RoomServer.
THEOREM HostIsARoomServer == HostSpec => Room!Spec
  <1>1. HostInit => Room!Init
    BY DEF HostInit
  <1>2. QED BY <1>1, HostStepIsRoomStep, PTL DEF HostSpec, Room!Spec

-----------------------------------------------------------------------------
(* The phases of main.                                                     *)

\* The request that main waits for is its own and is being handled.
WaitsForItself ==
  waiting # NoHandler => hpc[waiting] # "idle" /\ job[waiting].server = Self

Indexed == \E x \in Modes : Self \in index[x]

PhaseInv ==
  /\ phase \in {"off", "register", "beat", "serve"}
  /\ waiting \in Handlers \cup {NoHandler}
  /\ phase = "off" => waiting = NoHandler
  /\ phase \in {"beat", "serve"} => Indexed
  /\ WaitsForItself

\* Servers are never taken off a load index.
LEMMA IndexedStays ==
  ASSUME Sound, [Next]_vars, Indexed
  PROVE  Indexed'
  <1>1. PICK x \in Modes : Self \in index[x]
    BY DEF Indexed
  <1>2. SUFFICES \A y \in Modes : index[y] \subseteq index'[y]
    BY <1>1, <1>2 DEF Indexed
  <1>3. ASSUME NEW y \in Modes, NEW s, NEW n, NEW c, IndexLoad(y, s, n, c)
        PROVE  \A z \in Modes : index[z] \subseteq index'[z]
    BY <1>3 DEF IndexLoad, Sound, TypeOK
  <1>4. CASE UNCHANGED index
    BY <1>4
  <1>5. ASSUME NEW m \in Matches, Reserve(m) \/ ReleaseRoomServer(m)
        PROVE  \A z \in Modes : index[z] \subseteq index'[z]
    <2>1. want[m] \in Modes
      BY <1>5 DEF Reserve, ReleaseRoomServer, Sound, AllocationsInUse
    <2>2. QED BY <1>3, <1>5, <2>1 DEF Reserve, ReleaseRoomServer
  <1>6. ASSUME NEW h \in Handlers, UpdateServerLoad(h)
        PROVE  \A z \in Modes : index[z] \subseteq index'[z]
    <2>1. job[h].mode \in Modes
      BY <1>6 DEF UpdateServerLoad, Sound, JobsInUse
    <2>2. QED BY <1>3, <1>6, <2>1 DEF UpdateServerLoad
  <1>7. QED
    BY <1>4, <1>5, <1>6
       DEF Next, vars, indexVars, ListByLoad, GetGameServer, ReserveRefused,
           NoAvailableRoomServer, AllocationCut, RegisterGameServer,
           HeartbeatGameServer, Start, WriteInfo, ListServer, HandlerCut, Age

\* Handlers other than h stay as they are.
OthersStay(h) ==
  \A g \in Handlers \ {h} : hpc'[g] = hpc[g] /\ job'[g] = job[g]

\* A handler that starts was free, so main does not wait for it yet.
LEMMA StartEffect ==
  ASSUME Sound, NEW h \in Handlers, NEW s, NEW x, NEW c, NEW n, NEW st,
         Start(h, s, x, c, n, st)
  PROVE  /\ hpc[h] = "idle" /\ hpc'[h] # "idle" /\ job'[h].server = s
         /\ OthersStay(h)
  BY DEF Start, OthersStay, Sound, TypeOK

\* What the four steps of a handler do to the request that main waits for.
LEMMA HandlerEffect ==
  ASSUME Sound, NEW h \in Handlers
  PROVE  /\ WriteInfo(h) \/ ListServer(h) =>
              hpc'[h] # "idle" /\ job'[h] = job[h] /\ OthersStay(h)
         /\ UpdateServerLoad(h) \/ HandlerCut(h) => hpc[h] # "idle" /\ OthersStay(h)
  <1>1. WriteInfo(h) \/ ListServer(h) =>
          hpc'[h] # "idle" /\ job'[h] = job[h] /\ OthersStay(h)
    BY DEF WriteInfo, ListServer, OthersStay, Sound, TypeOK
  <1>2. UpdateServerLoad(h) \/ HandlerCut(h) => hpc[h] # "idle" /\ OthersStay(h)
    BY DEF UpdateServerLoad, HandlerCut, OthersStay, Sound, TypeOK
  <1>3. QED BY <1>1, <1>2

\* The handler that finishes has put its server into the index.
LEMMA SuccessIndexes ==
  ASSUME Sound, NEW h \in Handlers, UpdateServerLoad(h), job[h].server = Self
  PROVE  Indexed'
  <1>1. job[h].mode \in Modes
    BY DEF UpdateServerLoad, Sound, JobsInUse
  <1>2. IndexLoad(job[h].mode, Self, job[h].load, job[h].capacity)
    BY DEF UpdateServerLoad
  <1>3. Self \in index'[job[h].mode]
    BY <1>1, <1>2 DEF IndexLoad, Sound, TypeOK
  <1>4. QED BY <1>1, <1>3 DEF Indexed

LEMMA PhaseNext ==
  ASSUME Sound, PhaseInv, [HostNext]_allVars
  PROVE  PhaseInv'
  <1>1. Indexed => Indexed'
    BY HostStepIsRegistryStep, IndexedStays
  <1>2. NoHandler \notin Handlers
    BY SelfAssumption
  <1>3. CASE UNCHANGED <<hpc, job, phase, waiting>>
    BY <1>1, <1>3 DEF PhaseInv, WaitsForItself
  <1>4. CASE Launch \/ Stop
    BY <1>1, <1>2, <1>4 DEF Launch, Stop, WaitingAfterStop, PhaseInv, WaitsForItself
  <1>5. CASE GiveUp
    BY <1>1, <1>2, <1>5 DEF GiveUp, Answer, After, PhaseInv, WaitsForItself
  <1>6. ASSUME NEW h \in Handlers, NEW x \in Modes, Register(h, x)
        PROVE  PhaseInv'
    <2>1. hpc'[h] # "idle" /\ job'[h].server = Self
      BY <1>6, StartEffect DEF Register, RegisterGameServer
    <2>2. QED BY <1>1, <1>6, <2>1 DEF Register, PhaseInv, WaitsForItself
  <1>7. ASSUME NEW h \in Handlers, Heartbeat(h)
        PROVE  PhaseInv'
    <2>1. hpc'[h] # "idle" /\ job'[h].server = Self
      BY <1>7, StartEffect DEF Heartbeat, HeartbeatGameServer
    <2>2. QED BY <1>1, <1>7, <2>1 DEF Heartbeat, PhaseInv, WaitsForItself
  <1>8. ASSUME NEW h \in Handlers, Drain(h)
        PROVE  PhaseInv'
    <2>1. hpc[h] = "idle" /\ OthersStay(h)
      BY <1>8, StartEffect DEF Drain, HeartbeatGameServer
    <2>2. UNCHANGED <<phase, waiting>>
      BY <1>8 DEF Drain, hostVars
    <2>3. QED BY <1>1, <2>1, <2>2 DEF PhaseInv, WaitsForItself, OthersStay
  <1>9. ASSUME NEW h \in Handlers, Write(h) \/ List(h)
        PROVE  PhaseInv'
    <2>1. hpc'[h] # "idle" /\ job'[h] = job[h] /\ OthersStay(h)
      BY <1>9, HandlerEffect DEF Write, List
    <2>2. UNCHANGED <<phase, waiting>>
      BY <1>9 DEF Write, List, hostVars
    <2>3. QED BY <1>1, <2>1, <2>2 DEF PhaseInv, WaitsForItself, OthersStay
  <1>10. ASSUME NEW h \in Handlers, Succeed(h) \/ Fail(h)
         PROVE  PhaseInv'
    <2>1. hpc[h] # "idle" /\ OthersStay(h)
      BY <1>10, HandlerEffect DEF Succeed, Fail
    <2>2. CASE waiting # h
      <3>1. UNCHANGED <<phase, waiting>>
        BY <1>10, <2>2 DEF Succeed, Fail, Answer
      <3>2. QED BY <1>1, <2>1, <2>2, <3>1 DEF PhaseInv, WaitsForItself, OthersStay
    <2>3. CASE waiting = h /\ Succeed(h)
      <3>1. Indexed'
        BY <1>2, <2>3, SuccessIndexes DEF Succeed, PhaseInv, WaitsForItself
      <3>2. phase' = After(TRUE) /\ waiting' = NoHandler
        BY <2>3 DEF Succeed, Answer
      <3>3. phase # "off"
        BY <1>2, <2>3 DEF PhaseInv
      <3>4. QED BY <3>1, <3>2, <3>3 DEF After, PhaseInv, WaitsForItself
    <2>4. CASE waiting = h /\ Fail(h)
      <3>1. phase' = After(FALSE) /\ waiting' = NoHandler
        BY <2>4 DEF Fail, Answer
      <3>2. QED BY <1>1, <3>1 DEF After, PhaseInv, WaitsForItself
    <2>5. QED BY <1>10, <2>2, <2>3, <2>4
  <1>11. CASE Serve
    BY <1>3, <1>11 DEF Serve, vars, handlerVars
  <1>12. CASE GrowOld \/ \E m \in Matches : Allocate(m)
    BY <1>3, <1>12
       DEF GrowOld, Age, Allocate, hostVars, handlerVars, ListByLoad, GetGameServer,
           Reserve, ReserveRefused, NoAvailableRoomServer, AllocationCut,
           ReleaseRoomServer
  <1>13. CASE UNCHANGED allVars
    BY <1>3, <1>13 DEF allVars, vars, handlerVars, hostVars
  <1>14. QED
    BY <1>4, <1>5, <1>6, <1>7, <1>8, <1>9, <1>10, <1>11, <1>12, <1>13 DEF HostNext

LEMMA PhaseInit ==
  ASSUME HostInit
  PROVE  PhaseInv
  BY SelfAssumption DEF HostInit, PhaseInv, WaitsForItself

\* For any number of handlers, and any requests cut off, given up or answered
\* late: main goes on to serve only when the allocator can find the server.
THEOREM ServersAreRegistered == HostSpec => []ServesOnlyRegistered
  <1>1. HostInit => Sound /\ ListedInv /\ PhaseInv
    BY SoundInit, ListedInit, PhaseInit DEF HostInit
  <1>2. Sound /\ ListedInv /\ PhaseInv /\ [HostNext]_allVars
          => Sound' /\ ListedInv' /\ PhaseInv'
    BY HostStepIsRegistryStep, SoundNext, ListedNext, PhaseNext
  <1>3. ListedInv /\ PhaseInv => ServesOnlyRegistered
    BY DEF ListedInv, AllocatableIsListed, PhaseInv, Indexed, ServesOnlyRegistered
  <1>4. QED BY <1>1, <1>2, <1>3, PTL DEF HostSpec

-----------------------------------------------------------------------------
(* The players' maps in the composition.                                   *)

RoomProof == INSTANCE RoomServer_proofs

\* The instance that the proofs are about is the one of RoomHost.
LEMMA SameRoomServer ==
  /\ Room!Init <=> RoomProof!Init
  /\ Room!Next <=> RoomProof!Next
  /\ Room!vars = RoomProof!vars
  /\ Room!TypeOK <=> RoomProof!TypeOK
  /\ Room!MapsAgree <=> RoomProof!MapsAgree
  <1>1. Room!Init <=> RoomProof!Init
    BY DEF Room!Init, RoomProof!Init
  <1>2. Room!TypeOK <=> RoomProof!TypeOK
    BY DEF Room!TypeOK, RoomProof!TypeOK, Room!RoomState, RoomProof!RoomState
  <1>3. Room!MapsAgree <=> RoomProof!MapsAgree
    BY DEF Room!MapsAgree, RoomProof!MapsAgree, Room!PlayersIn, RoomProof!PlayersIn,
           Room!ReadyIn, RoomProof!ReadyIn
  <1>4. Room!vars = RoomProof!vars
    BY DEF Room!vars, RoomProof!vars
  <1>5. ASSUME NEW r, NEW p
        PROVE  /\ Room!join(r, p) <=> RoomProof!join(r, p)
               /\ Room!ready(r, p) <=> RoomProof!ready(r, p)
               /\ Room!leave(r, p) <=> RoomProof!leave(r, p)
    BY DEF Room!join, RoomProof!join, Room!ready, RoomProof!ready, Room!leave,
           RoomProof!leave, Room!removePlayer, RoomProof!removePlayer,
           Room!without, RoomProof!without, Room!with, RoomProof!with,
           Room!ensureRoom, RoomProof!ensureRoom, Room!FreshRoom,
           RoomProof!FreshRoom, Room!start, RoomProof!start, Room!markReady,
           RoomProof!markReady, Room!AllReady, RoomProof!AllReady,
           Room!forgetRoom, RoomProof!forgetRoom
  <1>6. Room!Restart <=> RoomProof!Restart
    BY DEF Room!Restart, RoomProof!Restart
  <1>7. Room!Next <=> RoomProof!Next
    BY <1>5, <1>6 DEF Room!Next, RoomProof!Next
  <1>8. QED BY <1>1, <1>2, <1>3, <1>4, <1>7

\* The maps of the room server agree also in the composition.
THEOREM HostMapsAgree == HostSpec => [](Room!TypeOK /\ Room!MapsAgree)
  <1>0. NoRoom \notin Rooms /\ Absent \notin RoomProof!RoomState
    BY RoomAssumption DEF Room!RoomState, RoomProof!RoomState
  <1>1. Room!Init => Room!TypeOK /\ Room!MapsAgree
    BY <1>0, RoomProof!InvInit, SameRoomServer
  <1>2. Room!TypeOK /\ Room!MapsAgree /\ [Room!Next]_(Room!vars)
          => (Room!TypeOK /\ Room!MapsAgree)'
    <2>1. (Room!TypeOK /\ Room!MapsAgree)' <=> (RoomProof!TypeOK /\ RoomProof!MapsAgree)'
      BY SameRoomServer, PTL
    <2>2. Room!TypeOK /\ Room!MapsAgree /\ [Room!Next]_(Room!vars)
            => RoomProof!TypeOK /\ RoomProof!MapsAgree /\ [RoomProof!Next]_(RoomProof!vars)
      BY SameRoomServer DEF Room!vars, RoomProof!vars
    <2>3. QED BY <1>0, <2>1, <2>2, RoomProof!InvStep
  <1>3. QED
    BY <1>1, <1>2, HostStepIsRoomStep, PTL DEF HostSpec, HostInit

\* Every reachable state of the composition is well typed.
THEOREM HostTypeCorrect == HostSpec => []HostTypeOK
  <1>1. HostInit => Sound /\ PhaseInv
    BY SoundInit, PhaseInit DEF HostInit
  <1>2. Sound /\ PhaseInv /\ [HostNext]_allVars => Sound' /\ PhaseInv'
    BY HostStepIsRegistryStep, SoundNext, PhaseNext
  <1>3. Sound /\ PhaseInv /\ Room!TypeOK => HostTypeOK
    BY DEF Sound, PhaseInv, HostTypeOK
  <1>4. QED BY <1>1, <1>2, <1>3, HostMapsAgree, PTL DEF HostSpec
=============================================================================
