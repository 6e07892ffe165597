------------------------ MODULE RoomRegistry_proofs ------------------------
(* Proofs about RoomRegistry, for any servers, modes, matches and handlers. *)
EXTENDS RoomRegistry, FiniteSetTheorems, TLAPS

-----------------------------------------------------------------------------
(* Types, the values that goroutines hold, and the loads.                  *)

\* What a handler will write is a valid server with a load it can have.
JobsInUse ==
  \A h \in Handlers : hpc[h] # "idle" =>
    /\ job[h].server \in Servers
    /\ job[h].mode \in Modes
    /\ job[h].load \in 0 .. job[h].capacity

\* Which variables of an allocation are in use at which step.
AllocationsInUse ==
  \A m \in Matches :
    /\ pc[m] # "new" => want[m] \in Modes
    /\ look[m] # NoServer <=> pc[m] = "reserve"
    /\ assigned[m] # NoServer <=> pc[m] = "reserved"

Sound == TypeOK /\ JobsInUse /\ AllocationsInUse /\ LoadWithinCapacity

\* A ZADD to the load index adds one member.
LEMMA IndexLoadEffect ==
  ASSUME TypeOK, NEW x \in Modes, NEW s \in Servers, NEW n \in Int,
         NEW c \in Nat \ {0}, IndexLoad(x, s, n, c)
  PROVE  /\ index' \in [Modes -> SUBSET Servers]
         /\ score' \in [Modes -> [Servers -> Ratio]]
         /\ \A y \in Modes : index'[y] = IF y = x THEN index[y] \cup {s} ELSE index[y]
  <1>1. [score[x] EXCEPT ![s] = [load |-> n, capacity |-> c]] \in [Servers -> Ratio]
    BY DEF TypeOK, Ratio
  <1>2. QED BY <1>1 DEF IndexLoad, TypeOK

\* The history is of servers.
LEMMA WatchType ==
  ASSUME TypeOK, Watch
  PROVE  avail' \in [Matches -> SUBSET Servers]
  <1>1. \A m \in Matches : Takers(m)' \subseteq Servers
    BY DEF Takers
  <1>2. QED BY <1>1 DEF Watch, TypeOK

\* The loads that the two scripts write.
LEMMA ScriptLoads ==
  ASSUME Sound, NEW s \in Servers
  PROVE  /\ LoadReleased(s) \in 0 .. capacity[s]
         /\ Fits(s) => LoadReserved(s) \in 0 .. capacity[s]
         /\ capacity[s] \in Nat \ {0}
  <1>1. load[s] \in 0 .. capacity[s] /\ capacity[s] \in Nat \ {0} /\ Slots \in Nat
    BY SizeAssumption DEF Sound, LoadWithinCapacity, TypeOK
  <1>2. QED BY <1>1 DEF LoadReleased, LoadReserved, Fits

LEMMA SoundInit ==
  ASSUME Init
  PROVE  Sound
  <1>1. NoJob \in Job /\ NoScores \in [Servers -> Ratio]
    BY DEF NoJob, Job, Statuses, NoScores, Ratio
  <1>2. QED
    BY <1>1 DEF Init, Sound, TypeOK, JobsInUse, AllocationsInUse,
                      LoadWithinCapacity, Statuses

LEMMA SoundNext ==
  ASSUME Sound, [Next]_vars
  PROVE  Sound'
  <1> USE DEF Sound
  <1>0. NoScores \in [Servers -> Ratio] /\ NoJob \in Job /\ NoJob.server = NoServer
    BY DEF NoJob, Job, Statuses, NoScores, Ratio
  <1>1. ASSUME NEW m \in Matches, NEW x \in Modes, ListByLoad(m, x)
        PROVE  Sound'
    <2>1. TypeOK'
      BY <1>1, WatchType DEF ListByLoad, Goto, TypeOK, infoVars, indexVars, handlerVars
    <2>2. QED
      BY <1>1, <2>1 DEF ListByLoad, Goto, TypeOK, JobsInUse, AllocationsInUse,
                        LoadWithinCapacity, infoVars, indexVars, handlerVars
  <1>2. ASSUME NEW m \in Matches, NEW s \in Servers, GetGameServer(m, s)
        PROVE  Sound'
    <2>1. TypeOK'
      BY <1>2, WatchType DEF GetGameServer, Remaining, Goto, TypeOK, infoVars,
                             indexVars, handlerVars
    <2>2. QED
      BY <1>2, <2>1, NameAssumption
         DEF GetGameServer, Goto, TypeOK, JobsInUse, AllocationsInUse,
             LoadWithinCapacity, infoVars, indexVars, handlerVars
  <1>3. ASSUME NEW m \in Matches, Reserve(m)
        PROVE  Sound'
    <2>1. /\ look[m] \in Servers /\ want[m] \in Modes /\ Fits(look[m])
          /\ load' = [load EXCEPT ![look[m]] = LoadReserved(look[m])]
          /\ IndexLoad(want[m], look[m], LoadReserved(look[m]), capacity[look[m]])
          /\ capacity' = capacity
          /\ assigned' = [assigned EXCEPT ![m] = look[m]]
      BY <1>3 DEF Reserve, Reservable, AllocationsInUse, TypeOK
    <2>2. /\ LoadReserved(look[m]) \in 0 .. capacity[look[m]]
          /\ capacity[look[m]] \in Nat \ {0}
      BY <2>1, ScriptLoads
    <2>3. /\ index' \in [Modes -> SUBSET Servers]
          /\ score' \in [Modes -> [Servers -> Ratio]]
      BY <2>1, <2>2, IndexLoadEffect
    <2>4. TypeOK'
      BY <1>0, <1>3, <2>1, <2>2, <2>3, WatchType DEF Reserve, Goto, TypeOK, handlerVars
    <2>5. LoadWithinCapacity'
      BY <2>1, <2>2 DEF TypeOK, LoadWithinCapacity
    <2>6. QED
      BY <1>3, <2>1, <2>4, <2>5, NameAssumption
         DEF Reserve, Goto, TypeOK, JobsInUse, AllocationsInUse, handlerVars
  <1>4. ASSUME NEW m \in Matches, ReserveRefused(m)
        PROVE  Sound'
    <2>1. TypeOK'
      BY <1>4, WatchType DEF ReserveRefused, Goto, TypeOK, infoVars, indexVars,
                             handlerVars
    <2>2. QED
      BY <1>4, <2>1 DEF ReserveRefused, Goto, TypeOK, JobsInUse, AllocationsInUse,
                        LoadWithinCapacity, infoVars, indexVars, handlerVars
  <1>5. ASSUME NEW m \in Matches, NoAvailableRoomServer(m) \/ AllocationCut(m)
        PROVE  Sound'
    <2>1. TypeOK'
      <3>1. CASE NoAvailableRoomServer(m)
        BY <1>0, <3>1, WatchType DEF NoAvailableRoomServer, Goto, TypeOK, infoVars,
                                     indexVars, handlerVars
      <3>2. CASE AllocationCut(m)
        BY <1>0, <3>2, WatchType DEF AllocationCut, Goto, TypeOK, infoVars, indexVars,
                                     handlerVars
      <3>3. QED BY <1>5, <3>1, <3>2
    <2>2. JobsInUse' /\ LoadWithinCapacity'
      BY <1>5 DEF NoAvailableRoomServer, AllocationCut, JobsInUse, LoadWithinCapacity,
                  infoVars, handlerVars
    <2>3. AllocationsInUse'
      <3>1. /\ pc' = [pc EXCEPT ![m] = "failed"]
            /\ UNCHANGED <<want, assigned>>
            /\ pc[m] # "new" /\ pc[m] # "reserved"
        BY <1>5 DEF NoAvailableRoomServer, AllocationCut, Goto
      <3>2. /\ look'[m] = NoServer
            /\ \A n \in Matches \ {m} : look'[n] = look[n]
        BY <1>5 DEF NoAvailableRoomServer, AllocationCut, AllocationsInUse, TypeOK
      <3>3. QED BY <3>1, <3>2 DEF AllocationsInUse, TypeOK
    <2>4. QED BY <2>1, <2>2, <2>3
  <1>6. ASSUME NEW m \in Matches, ReleaseRoomServer(m)
        PROVE  Sound'
    <2>1. /\ assigned[m] \in Servers /\ want[m] \in Modes
          /\ load' = [load EXCEPT ![assigned[m]] = LoadReleased(assigned[m])]
          /\ IndexLoad(want[m], assigned[m], LoadReleased(assigned[m]),
                       capacity[assigned[m]])
          /\ capacity' = capacity
      BY <1>6 DEF ReleaseRoomServer, AllocationsInUse, TypeOK
    <2>2. /\ LoadReleased(assigned[m]) \in 0 .. capacity[assigned[m]]
          /\ capacity[assigned[m]] \in Nat \ {0}
      BY <2>1, ScriptLoads
    <2>3. /\ index' \in [Modes -> SUBSET Servers]
          /\ score' \in [Modes -> [Servers -> Ratio]]
      BY <2>1, <2>2, IndexLoadEffect
    <2>4. TypeOK'
      BY <1>6, <2>1, <2>2, <2>3, WatchType DEF ReleaseRoomServer, Goto, TypeOK,
                                               handlerVars
    <2>5. LoadWithinCapacity'
      BY <2>1, <2>2 DEF TypeOK, LoadWithinCapacity
    <2>6. QED
      BY <1>6, <2>4, <2>5 DEF ReleaseRoomServer, Goto, TypeOK, JobsInUse,
                              AllocationsInUse, handlerVars
  <1>7. ASSUME NEW h \in Handlers, NEW s \in Servers,
               NEW x \in Modes, NEW c \in Nat \ {0}, NEW n \in 0 .. c,
               NEW st \in Statuses, Start(h, s, x, c, n, st)
        PROVE  Sound'
    <2>1. [server |-> s, mode |-> x, capacity |-> c, load |-> n, status |-> st] \in Job
      BY DEF Job
    <2>2. TypeOK'
      BY <1>7, <2>1, WatchType DEF Start, TypeOK, infoVars, indexVars, matchVars
    <2>3. QED
      BY <1>7, <2>2 DEF Start, TypeOK, JobsInUse, AllocationsInUse,
                        LoadWithinCapacity, infoVars, indexVars, matchVars
  <1>8. ASSUME NEW h \in Handlers, NEW s \in Servers,
               RegisterGameServer(h, s) \/ HeartbeatGameServer(h, s)
        PROVE  Sound'
    <2>1. Sent \subseteq Statuses /\ KeptStatus(s) \in Statuses
      BY DEF Sent, Statuses, KeptStatus, TypeOK
    <2>2. /\ load[s] \in 0 .. capacity[s] /\ capacity[s] \in Nat \ {0}
          /\ Capacities[s] \subseteq Nat \ {0}
      BY SizeAssumption DEF LoadWithinCapacity, TypeOK
    <2>3. HeartbeatGameServer(h, s) => mode[s] \in Modes
      BY DEF HeartbeatGameServer, TypeOK
    <2>4. QED
      BY <1>7, <1>8, <2>1, <2>2, <2>3 DEF RegisterGameServer, HeartbeatGameServer
  <1>9. ASSUME NEW h \in Handlers, WriteInfo(h)
        PROVE  Sound'
    <2>1. /\ job[h].server \in Servers /\ job[h].mode \in Modes
          /\ job[h].load \in 0 .. job[h].capacity /\ job[h].capacity \in Nat \ {0}
          /\ job[h].load \in Int /\ job[h].status \in Statuses
      BY <1>9 DEF WriteInfo, JobsInUse, TypeOK, Job
    <2>2. TypeOK'
      BY <1>9, <2>1, WatchType DEF WriteInfo, TypeOK, indexVars
    <2>3. LoadWithinCapacity'
      BY <1>9, <2>1 DEF WriteInfo, TypeOK, LoadWithinCapacity
    <2>4. QED
      BY <1>9, <2>2, <2>3 DEF WriteInfo, TypeOK, JobsInUse, AllocationsInUse
  <1>10. ASSUME NEW h \in Handlers, ListServer(h)
         PROVE  Sound'
    <2>1. job[h].server \in Servers
      BY <1>10 DEF ListServer, JobsInUse
    <2>2. TypeOK'
      BY <1>10, <2>1, WatchType DEF ListServer, Listing, TypeOK, infoVars, matchVars
    <2>3. QED
      BY <1>10, <2>2 DEF ListServer, TypeOK, JobsInUse, AllocationsInUse,
                         LoadWithinCapacity, infoVars, matchVars
  <1>11. ASSUME NEW h \in Handlers, UpdateServerLoad(h)
         PROVE  Sound'
    <2>1. /\ job[h].server \in Servers /\ job[h].mode \in Modes
          /\ job[h].load \in Int /\ job[h].capacity \in Nat \ {0}
      BY <1>11 DEF UpdateServerLoad, JobsInUse, TypeOK, Job
    <2>2. /\ index' \in [Modes -> SUBSET Servers]
          /\ score' \in [Modes -> [Servers -> Ratio]]
      BY <1>11, <2>1, IndexLoadEffect DEF UpdateServerLoad
    <2>3. TypeOK'
      BY <1>0, <1>11, <2>2, WatchType DEF UpdateServerLoad, TypeOK, infoVars, matchVars
    <2>4. QED
      BY <1>11, <2>3 DEF UpdateServerLoad, TypeOK, JobsInUse, AllocationsInUse,
                         LoadWithinCapacity, infoVars, matchVars
  <1>12. ASSUME NEW h \in Handlers, HandlerCut(h)
         PROVE  Sound'
    <2>1. TypeOK'
      BY <1>0, <1>12, WatchType DEF HandlerCut, TypeOK, infoVars, indexVars, matchVars
    <2>2. QED
      BY <1>12, <2>1 DEF HandlerCut, TypeOK, JobsInUse, AllocationsInUse,
                         LoadWithinCapacity, infoVars, indexVars, matchVars
  <1>13. ASSUME NEW s \in Servers, Age(s)
         PROVE  Sound'
    <2>1. TypeOK'
      BY <1>13, WatchType DEF Age, TypeOK, indexVars, matchVars, handlerVars
    <2>2. QED
      BY <1>13, <2>1 DEF Age, TypeOK, JobsInUse, AllocationsInUse, LoadWithinCapacity,
                         indexVars, matchVars, handlerVars
  <1>14. CASE UNCHANGED vars
    BY <1>14 DEF vars, infoVars, indexVars, matchVars, handlerVars, TypeOK, JobsInUse,
                 AllocationsInUse, LoadWithinCapacity
  <1>15. QED
    BY <1>1, <1>2, <1>3, <1>4, <1>5, <1>6, <1>8, <1>9, <1>10, <1>11, <1>12, <1>13,
       <1>14 DEF Next

-----------------------------------------------------------------------------
(* Listed servers.                                                         *)

Known == listed \cap Registered

\* Whatever an allocation refers to is registered and listed; handlers come to
\* the index only after they have written the hash and the list.
ListedInv ==
  /\ AllocatableIsListed
  /\ \A m \in Matches :
       /\ left[m] \subseteq Known
       /\ look[m] # NoServer => look[m] \in Known
       /\ assigned[m] # NoServer => assigned[m] \in Known
  /\ \A h \in Handlers :
       /\ hpc[h] = "list" => job[h].server \in Registered
       /\ hpc[h] = "index" => job[h].server \in Known

\* No server is ever taken off the list or loses its mode.
LEMMA KnownGrows ==
  ASSUME Sound, [Next]_vars
  PROVE  Known \subseteq Known' /\ Registered \subseteq Registered'
  <1>1. CASE UNCHANGED <<mode, listed>>
    BY <1>1 DEF Known, Registered
  <1>2. ASSUME NEW h \in Handlers, WriteInfo(h)
        PROVE  Known \subseteq Known' /\ Registered \subseteq Registered'
    <2>1. job[h].mode # NoMode
      BY <1>2, NameAssumption DEF WriteInfo, Sound, JobsInUse
    <2>2. QED
      BY <1>2, <2>1 DEF WriteInfo, indexVars, Known, Registered, Sound, TypeOK
  <1>3. ASSUME NEW h \in Handlers, ListServer(h)
        PROVE  Known \subseteq Known' /\ Registered \subseteq Registered'
    BY <1>3 DEF ListServer, Listing, infoVars, Known, Registered
  <1>4. QED
    BY <1>1, <1>2, <1>3
       DEF Next, vars, infoVars, indexVars, ListByLoad, GetGameServer, Reserve,
           ReserveRefused, NoAvailableRoomServer, AllocationCut, ReleaseRoomServer,
           RegisterGameServer, HeartbeatGameServer, Start, UpdateServerLoad,
           HandlerCut, Age, IndexLoad

LEMMA ListedInit ==
  ASSUME Init
  PROVE  ListedInv
  BY DEF Init, ListedInv, AllocatableIsListed

LEMMA ListedNext ==
  ASSUME Sound, ListedInv, [Next]_vars
  PROVE  ListedInv'
  <1>1. Known \subseteq Known' /\ Registered \subseteq Registered'
    BY KnownGrows
  <1>2. TypeOK /\ JobsInUse /\ AllocationsInUse
    BY DEF Sound
  <1>3. ASSUME NEW m \in Matches, NEW x \in Modes, ListByLoad(m, x)
        PROVE  ListedInv'
    <2>1. index[x] \subseteq Known
      BY DEF ListedInv, AllocatableIsListed, Known
    <2>2. QED
      BY <1>1, <1>2, <1>3, <2>1 DEF ListByLoad, ListedInv, AllocatableIsListed, Known,
                                    TypeOK, indexVars, handlerVars
  <1>4. ASSUME NEW m \in Matches, NEW s \in Servers, GetGameServer(m, s)
        PROVE  ListedInv'
    <2>1. s \in Known
      BY <1>4 DEF GetGameServer, NextLeft, ListedInv
    <2>2. QED
      BY <1>1, <1>2, <1>4, <2>1
         DEF GetGameServer, Remaining, ListedInv, AllocatableIsListed, Known, TypeOK,
             indexVars, handlerVars
  <1>5. ASSUME NEW m \in Matches, Reserve(m)
        PROVE  ListedInv'
    <2>1. /\ look[m] \in Servers /\ look[m] \in Known /\ want[m] \in Modes
          /\ LoadReserved(look[m]) \in Int /\ capacity[look[m]] \in Nat \ {0}
      <3>1. look[m] # NoServer /\ want[m] \in Modes
        BY <1>2, <1>5 DEF Reserve, AllocationsInUse
      <3>2. look[m] \in Servers /\ Slots \in Int
        BY <1>2, <3>1, SizeAssumption DEF TypeOK
      <3>3. QED BY <1>2, <3>1, <3>2 DEF ListedInv, LoadReserved, TypeOK
    <2>2. \A y \in Modes : index'[y] \subseteq index[y] \cup {look[m]}
      BY <1>2, <1>5, <2>1, IndexLoadEffect DEF Reserve
    <2>3. AllocatableIsListed'
      BY <1>1, <2>1, <2>2 DEF ListedInv, AllocatableIsListed, Known
    <2>4. QED
      BY <1>1, <1>2, <1>5, <2>1, <2>3 DEF Reserve, ListedInv, TypeOK, handlerVars
  <1>6. ASSUME NEW m \in Matches,
               ReserveRefused(m) \/ NoAvailableRoomServer(m) \/ AllocationCut(m)
        PROVE  ListedInv'
    <2>1. /\ UNCHANGED <<infoVars, indexVars, assigned, handlerVars>>
          /\ \A n \in Matches : /\ left'[n] \subseteq left[n]
                                /\ look'[n] = look[n] \/ look'[n] = NoServer
      <3>1. CASE ReserveRefused(m)
        BY <1>2, <3>1 DEF ReserveRefused, TypeOK
      <3>2. CASE NoAvailableRoomServer(m)
        BY <1>2, <3>2 DEF NoAvailableRoomServer, TypeOK
      <3>3. CASE AllocationCut(m)
        BY <1>2, <3>3 DEF AllocationCut, TypeOK
      <3>4. QED BY <1>6, <3>1, <3>2, <3>3
    <2>2. QED
      BY <1>1, <2>1 DEF ListedInv, AllocatableIsListed, Known, indexVars, handlerVars
  <1>7. ASSUME NEW m \in Matches, ReleaseRoomServer(m)
        PROVE  ListedInv'
    <2>1. /\ assigned[m] \in Servers /\ assigned[m] \in Known /\ want[m] \in Modes
          /\ LoadReleased(assigned[m]) \in Int /\ capacity[assigned[m]] \in Nat \ {0}
      <3>1. assigned[m] # NoServer /\ want[m] \in Modes
        BY <1>2, <1>7 DEF ReleaseRoomServer, AllocationsInUse
      <3>2. assigned[m] \in Servers /\ Slots \in Int
        BY <1>2, <3>1, SizeAssumption DEF TypeOK
      <3>3. QED BY <1>2, <3>1, <3>2 DEF ListedInv, LoadReleased, TypeOK
    <2>2. \A y \in Modes : index'[y] \subseteq index[y] \cup {assigned[m]}
      BY <1>2, <1>7, <2>1, IndexLoadEffect DEF ReleaseRoomServer
    <2>3. AllocatableIsListed'
      BY <1>1, <2>1, <2>2 DEF ListedInv, AllocatableIsListed, Known
    <2>4. QED
      BY <1>1, <1>2, <1>7, <2>3 DEF ReleaseRoomServer, ListedInv, TypeOK, handlerVars
  <1>8. ASSUME NEW h \in Handlers, NEW s \in Servers,
               RegisterGameServer(h, s) \/ HeartbeatGameServer(h, s)
        PROVE  ListedInv'
    <2>1. /\ UNCHANGED <<infoVars, indexVars, matchVars>>
          /\ hpc'[h] = "info"
          /\ \A g \in Handlers \ {h} : hpc'[g] = hpc[g] /\ job'[g] = job[g]
      BY <1>2, <1>8 DEF RegisterGameServer, HeartbeatGameServer, Start, TypeOK
    <2>2. QED
      BY <1>1, <2>1 DEF ListedInv, AllocatableIsListed, Known, indexVars, matchVars
  <1>9. ASSUME NEW h \in Handlers, WriteInfo(h)
        PROVE  ListedInv'
    <2>1. job[h].server \in Servers /\ job[h].mode # NoMode
      BY <1>2, <1>9, NameAssumption DEF WriteInfo, JobsInUse
    <2>2. job[h].server \in Registered'
      BY <1>2, <1>9, <2>1 DEF WriteInfo, Registered, TypeOK
    <2>3. /\ UNCHANGED <<indexVars, left, look, assigned, job>>
          /\ hpc'[h] = "list"
          /\ \A g \in Handlers \ {h} : hpc'[g] = hpc[g]
      BY <1>2, <1>9 DEF WriteInfo, TypeOK
    <2>4. QED
      BY <1>1, <2>2, <2>3 DEF ListedInv, AllocatableIsListed, Known, indexVars
  <1>10. ASSUME NEW h \in Handlers, ListServer(h)
         PROVE  ListedInv'
    <2>1. job[h].server \in Known'
      BY <1>10 DEF ListServer, Listing, ListedInv, Known, Registered, infoVars
    <2>2. /\ UNCHANGED <<index, matchVars, job>>
          /\ hpc'[h] = "index"
          /\ \A g \in Handlers \ {h} : hpc'[g] = hpc[g]
      BY <1>2, <1>10 DEF ListServer, TypeOK
    <2>3. QED
      BY <1>1, <2>1, <2>2 DEF ListedInv, AllocatableIsListed, Known, matchVars
  <1>11. ASSUME NEW h \in Handlers, UpdateServerLoad(h)
         PROVE  ListedInv'
    <2>1. /\ job[h].server \in Servers /\ job[h].mode \in Modes
          /\ job[h].load \in Int /\ job[h].capacity \in Nat \ {0}
          /\ job[h].server \in Known
      BY <1>2, <1>11 DEF UpdateServerLoad, JobsInUse, TypeOK, Job, ListedInv
    <2>2. \A y \in Modes : index'[y] \subseteq index[y] \cup {job[h].server}
      <3>1. IndexLoad(job[h].mode, job[h].server, job[h].load, job[h].capacity)
        BY <1>11 DEF UpdateServerLoad
      <3>2. \A y \in Modes :
              index'[y] = IF y = job[h].mode THEN index[y] \cup {job[h].server}
                                             ELSE index[y]
        BY <1>2, <2>1, <3>1, IndexLoadEffect
      <3>3. QED BY <3>2
    <2>3. AllocatableIsListed'
      BY <1>1, <2>1, <2>2 DEF ListedInv, AllocatableIsListed, Known
    <2>4. /\ UNCHANGED matchVars
          /\ hpc'[h] = "idle"
          /\ \A g \in Handlers \ {h} : hpc'[g] = hpc[g] /\ job'[g] = job[g]
      BY <1>2, <1>11 DEF UpdateServerLoad, TypeOK
    <2>5. QED BY <1>1, <2>3, <2>4 DEF ListedInv, matchVars
  <1>12. ASSUME NEW h \in Handlers, HandlerCut(h)
         PROVE  ListedInv'
    <2>1. /\ UNCHANGED <<infoVars, indexVars, matchVars>>
          /\ hpc'[h] = "idle"
          /\ \A g \in Handlers \ {h} : hpc'[g] = hpc[g] /\ job'[g] = job[g]
      BY <1>2, <1>12 DEF HandlerCut, TypeOK
    <2>2. QED
      BY <1>1, <2>1 DEF ListedInv, AllocatableIsListed, Known, indexVars, matchVars
  <1>13. CASE (\E s \in Servers : Age(s)) \/ UNCHANGED vars
    <2>1. UNCHANGED <<indexVars, matchVars, handlerVars>>
      BY <1>13 DEF Age, vars
    <2>2. QED
      BY <1>1, <2>1 DEF ListedInv, AllocatableIsListed, Known, indexVars, matchVars,
                        handlerVars
  <1>14. QED
    BY <1>3, <1>4, <1>5, <1>6, <1>7, <1>8, <1>9, <1>10, <1>11, <1>12, <1>13 DEF Next

-----------------------------------------------------------------------------
(* No false refusals.                                                      *)

\* A server that was ready to take a match all along is still to be tried: it
\* is left over from the ZRANGE, or read and about to be reserved.
StillToTry(m) ==
  IF pc[m] = "scan" THEN left[m]
  ELSE IF pc[m] = "reserve" THEN left[m] \cup {look[m]} ELSE {}

WatchInv == \A m \in Matches : avail[m] \subseteq StillToTry(m)

\* A match that has not listed the servers yet watches none, one that goes on
\* watches no more than before, and a server it gives up is no taker.
LEMMA WatchNarrows ==
  ASSUME WatchInv, Watch, NEW m \in Matches,
         pc[m] # "new" \/ pc'[m] = "new",
         \A s \in StillToTry(m) :
           pc'[m] \notin {"scan", "reserve"} \/ s \in StillToTry(m)' \/ s \notin Takers(m)'
  PROVE  avail'[m] \subseteq StillToTry(m)'
  <1>1. CASE pc'[m] \notin {"scan", "reserve"}
    BY <1>1 DEF Watch
  <1>2. CASE pc'[m] \in {"scan", "reserve"}
    <2>1. avail'[m] = avail[m] \cap Takers(m)'
      BY <1>2 DEF Watch
    <2>2. avail[m] \subseteq StillToTry(m)
      BY DEF WatchInv
    <2>3. QED BY <1>2, <2>1, <2>2
  <1>3. QED BY <1>1, <1>2

\* What a step does not change of a match it does not change of its history.
LEMMA WatchOthers ==
  ASSUME WatchInv, Watch, NEW m \in Matches,
         pc'[m] = pc[m], left'[m] = left[m], look'[m] = look[m]
  PROVE  avail'[m] \subseteq StillToTry(m)'
  <1>1. StillToTry(m)' = StillToTry(m)
    BY DEF StillToTry
  <1>2. CASE pc[m] = "new"
    BY <1>2 DEF Watch
  <1>3. CASE pc[m] # "new"
    BY <1>1, <1>3, WatchNarrows
  <1>4. QED BY <1>2, <1>3

LEMMA WatchNext ==
  ASSUME Sound, WatchInv, [Next]_vars
  PROVE  WatchInv'
  <1>1. TypeOK /\ AllocationsInUse
    BY DEF Sound
  <1>2. ASSUME NEW m \in Matches, Watch,
               \A n \in Matches \ {m} :
                 pc'[n] = pc[n] /\ left'[n] = left[n] /\ look'[n] = look[n],
               avail'[m] \subseteq StillToTry(m)'
        PROVE  WatchInv'
    BY <1>2, WatchOthers DEF WatchInv
  <1>3. ASSUME NEW m \in Matches, NEW x \in Modes, ListByLoad(m, x)
        PROVE  WatchInv'
    <2>1. /\ pc[m] = "new" /\ pc'[m] = "scan" /\ want'[m] = x
          /\ left'[m] = index[x] /\ index' = index /\ Watch
          /\ \A n \in Matches \ {m} :
               pc'[n] = pc[n] /\ left'[n] = left[n] /\ look'[n] = look[n]
      BY <1>1, <1>3 DEF ListByLoad, Goto, TypeOK, indexVars
    <2>2. Takers(m)' \subseteq left'[m]
      BY <2>1 DEF Takers
    <2>3. avail'[m] \subseteq StillToTry(m)'
      BY <2>1, <2>2 DEF Watch, StillToTry
    <2>4. QED BY <1>2, <2>1, <2>3
  <1>4. ASSUME NEW m \in Matches, NEW s \in Servers, GetGameServer(m, s)
        PROVE  WatchInv'
    <2>1. /\ pc[m] = "scan" /\ left'[m] = left[m] \ {s} /\ Watch
          /\ UNCHANGED <<mode, want>>
          /\ \/ pc'[m] = "reserve" /\ look'[m] = s
             \/ pc'[m] = "scan" /\ mode[s] # want[m]
          /\ \A n \in Matches \ {m} :
               pc'[n] = pc[n] /\ left'[n] = left[n] /\ look'[n] = look[n]
      BY <1>1, <1>4 DEF GetGameServer, Remaining, Goto, TypeOK, infoVars
    <2>2. mode[s] # want[m] => s \notin Takers(m)'
      BY <2>1 DEF Takers
    <2>3. avail'[m] \subseteq StillToTry(m)'
      BY <2>1, <2>2, WatchNarrows DEF StillToTry
    <2>4. QED BY <1>2, <2>1, <2>3
  <1>5. ASSUME NEW m \in Matches, ReserveRefused(m)
        PROVE  WatchInv'
    <2>1. /\ pc[m] = "reserve" /\ pc'[m] = "scan" /\ left'[m] = left[m] /\ Watch
          /\ ~Reservable(m, look[m])
          /\ UNCHANGED <<mode, capacity, load, status, aged>>
          /\ \A n \in Matches \ {m} :
               pc'[n] = pc[n] /\ left'[n] = left[n] /\ look'[n] = look[n]
      BY <1>1, <1>5 DEF ReserveRefused, Goto, TypeOK, infoVars
    <2>2. look[m] \notin Takers(m)'
      BY <2>1 DEF Takers, Reservable, Fits
    <2>3. avail'[m] \subseteq StillToTry(m)'
      BY <2>1, <2>2, WatchNarrows DEF StillToTry
    <2>4. QED BY <1>2, <2>1, <2>3
  <1>6. ASSUME NEW m \in Matches,
               \/ Reserve(m) \/ NoAvailableRoomServer(m)
               \/ AllocationCut(m) \/ ReleaseRoomServer(m)
        PROVE  WatchInv'
    <2>1. /\ pc'[m] \in {"reserved", "failed", "released"} /\ Watch
          /\ \A n \in Matches \ {m} :
               pc'[n] = pc[n] /\ left'[n] = left[n] /\ look'[n] = look[n]
      <3>1. CASE Reserve(m)
        BY <1>1, <3>1 DEF Reserve, Goto, TypeOK
      <3>2. CASE NoAvailableRoomServer(m)
        BY <1>1, <3>2 DEF NoAvailableRoomServer, Goto, TypeOK
      <3>3. CASE AllocationCut(m)
        BY <1>1, <3>3 DEF AllocationCut, Goto, TypeOK
      <3>4. CASE ReleaseRoomServer(m)
        BY <1>1, <3>4 DEF ReleaseRoomServer, Goto, TypeOK
      <3>5. QED BY <1>6, <3>1, <3>2, <3>3, <3>4
    <2>2. avail'[m] \subseteq StillToTry(m)'
      BY <2>1 DEF Watch
    <2>3. QED BY <1>2, <2>1, <2>2
  <1>7. CASE Watch /\ UNCHANGED <<pc, left, look>>
    BY <1>7, WatchOthers DEF WatchInv
  <1>8. CASE UNCHANGED vars
    BY <1>8 DEF vars, matchVars, WatchInv, StillToTry
  <1>9. QED
    BY <1>3, <1>4, <1>5, <1>6, <1>7, <1>8
       DEF Next, matchVars, RegisterGameServer, HeartbeatGameServer, Start, WriteInfo,
           ListServer, UpdateServerLoad, HandlerCut, Age

-----------------------------------------------------------------------------
(* The order of the scan.                                                  *)

\* The server about to be reserved had no more load in the listing than any
\* that is left.
ScanInv ==
  \A m \in Matches :
    pc[m] = "reserve" => \A s \in left[m] : LoadedNoMore(seen[m], look[m], s)

LEMMA ScanNext ==
  ASSUME Sound, ScanInv, [Next]_vars
  PROVE  ScanInv'
  <1>1. TypeOK
    BY DEF Sound
  <1>2. ASSUME NEW m \in Matches, NEW s \in Servers, GetGameServer(m, s)
        PROVE  ScanInv'
    <2>1. /\ left'[m] \subseteq left[m] /\ seen' = seen
          /\ pc'[m] = "reserve" => look'[m] = s
          /\ \A t \in left[m] : LoadedNoMore(seen[m], s, t)
          /\ \A n \in Matches \ {m} :
               pc'[n] = pc[n] /\ left'[n] = left[n] /\ look'[n] = look[n]
      BY <1>1, <1>2 DEF GetGameServer, NextLeft, Remaining, Goto, TypeOK
    <2>2. QED BY <2>1 DEF ScanInv, LoadedNoMore
  <1>3. ASSUME NEW m \in Matches, pc'[m] # "reserve",
               \A n \in Matches \ {m} : /\ pc'[n] = pc[n] /\ left'[n] = left[n]
                                         /\ look'[n] = look[n] /\ seen'[n] = seen[n]
        PROVE  ScanInv'
    BY <1>3 DEF ScanInv, LoadedNoMore
  <1>4. ASSUME NEW m \in Matches,
               \/ \E x \in Modes : ListByLoad(m, x)
               \/ Reserve(m) \/ ReserveRefused(m) \/ NoAvailableRoomServer(m)
               \/ AllocationCut(m) \/ ReleaseRoomServer(m)
        PROVE  ScanInv'
    <2>1. pc'[m] # "reserve"
      BY <1>1, <1>4 DEF ListByLoad, Reserve, ReserveRefused, NoAvailableRoomServer,
                        AllocationCut, ReleaseRoomServer, Goto, TypeOK
    <2>2. ASSUME NEW n \in Matches, n # m
          PROVE  /\ pc'[n] = pc[n] /\ left'[n] = left[n]
                 /\ look'[n] = look[n] /\ seen'[n] = seen[n]
      <3>1. CASE \E x \in Modes : ListByLoad(m, x)
        BY <1>1, <2>2, <3>1 DEF ListByLoad, Goto, TypeOK
      <3>2. CASE Reserve(m)
        BY <1>1, <2>2, <3>2 DEF Reserve, Goto, TypeOK
      <3>3. CASE ReserveRefused(m)
        BY <1>1, <2>2, <3>3 DEF ReserveRefused, Goto, TypeOK
      <3>4. CASE NoAvailableRoomServer(m)
        BY <1>1, <2>2, <3>4 DEF NoAvailableRoomServer, Goto, TypeOK
      <3>5. CASE AllocationCut(m)
        BY <1>1, <2>2, <3>5 DEF AllocationCut, Goto, TypeOK
      <3>6. CASE ReleaseRoomServer(m)
        BY <1>1, <2>2, <3>6 DEF ReleaseRoomServer, Goto, TypeOK
      <3>7. QED BY <1>4, <3>1, <3>2, <3>3, <3>4, <3>5, <3>6
    <2>3. QED BY <1>3, <2>1, <2>2
  <1>5. CASE UNCHANGED <<pc, left, seen, look>>
    BY <1>5 DEF ScanInv, LoadedNoMore
  <1>6. QED
    BY <1>2, <1>4, <1>5
       DEF Next, vars, matchVars, RegisterGameServer, HeartbeatGameServer, Start,
           WriteInfo, ListServer, UpdateServerLoad, HandlerCut, Age

\* What is reserved has no more load in the listing than what was ready all along.
LEMMA ReserveIsLeast ==
  ASSUME Sound, WatchInv, ScanInv, NEW m \in Matches, Reserve(m), NEW s \in avail[m]
  PROVE  LoadedNoMore(seen[m], look[m], s)
  <1>1. s \in left[m] \/ s = look[m]
    BY DEF Reserve, WatchInv, StillToTry
  <1>2. look[m] \in Servers
    BY DEF Reserve, Sound, AllocationsInUse, TypeOK
  <1>3. seen[m][look[m]].load * seen[m][look[m]].capacity \in Int
    BY <1>2 DEF Sound, TypeOK, Ratio
  <1>4. LoadedNoMore(seen[m], look[m], look[m])
    BY <1>3 DEF LoadedNoMore
  <1>5. QED BY <1>1, <1>4 DEF Reserve, ScanInv

-----------------------------------------------------------------------------
(* How long an allocation takes.                                           *)

\* At most so many steps are still to come in the scan of match m: a read and
\* a script for each server that is left, the script for the one read, and the
\* error at the end.
StepsLeft(m) ==
  IF pc[m] = "scan" THEN 2 * Cardinality(left[m]) + 1
  ELSE IF pc[m] = "reserve" THEN 2 * Cardinality(left[m]) + 2 ELSE 0

InScan(m) == pc[m] \in {"scan", "reserve"}

\* A scan begins with the servers it has listed, gets shorter with
\* every step of its own, not longer with a step of others, and is never begun again.
ScanAdvances(m) ==
  /\ ~InScan(m) /\ InScan(m)' =>
       pc[m] = "new" /\ StepsLeft(m)' <= 2 * Cardinality(Servers) + 1
  /\ InScan(m) =>
       \/ pc'[m] = pc[m] /\ left'[m] = left[m] /\ look'[m] = look[m]
       \/ StepsLeft(m)' \in 0 .. StepsLeft(m) - 1
  /\ pc'[m] = "new" => pc[m] = "new"

\* As long as a server is left there is one that comes first.
NextIsThere ==
  \A m \in Matches : left[m] # {} => \E s \in left[m] : NextLeft(m, s)

ScansComeToAnEnd == [][\A m \in Matches : ScanAdvances(m)]_vars /\ []NextIsThere

\* The order by load is total, also when capacities differ.
LEMMA LoadOrder ==
  ASSUME NEW f \in [Servers -> Ratio]
  PROVE  /\ \A a, b \in Servers : LoadedNoMore(f, a, b) \/ LoadedNoMore(f, b, a)
         /\ \A a, b, c \in Servers :
              LoadedNoMore(f, a, b) /\ LoadedNoMore(f, b, c) => LoadedNoMore(f, a, c)
  <1>1. ASSUME NEW x \in Int, NEW y \in Int, NEW z \in Int,
               NEW i \in Nat \ {0}, NEW j \in Nat \ {0}, NEW k \in Nat \ {0},
               x * j <= y * i, y * k <= z * j
        PROVE  x * k <= z * i
    <2>1. (x * j) * k <= (y * i) * k
      BY <1>1
    <2>2. (y * k) * i <= (z * j) * i
      BY <1>1
    <2>3. j * (x * k) <= j * (z * i)
      BY <2>1, <2>2
    <2>4. QED BY <2>3
  <1>2. \A a \in Servers : f[a].load \in Int /\ f[a].capacity \in Nat \ {0}
    BY DEF Ratio
  <1>3. ASSUME NEW a \in Servers, NEW b \in Servers
        PROVE  LoadedNoMore(f, a, b) \/ LoadedNoMore(f, b, a)
    <2>1. f[a].load * f[b].capacity \in Int /\ f[b].load * f[a].capacity \in Int
      BY <1>2
    <2>2. QED BY <2>1 DEF LoadedNoMore
  <1>4. ASSUME NEW a \in Servers, NEW b \in Servers, NEW c \in Servers,
               LoadedNoMore(f, a, b), LoadedNoMore(f, b, c)
        PROVE  LoadedNoMore(f, a, c)
    BY <1>1, <1>2, <1>4 DEF LoadedNoMore
  <1>5. QED BY <1>3, <1>4

\* Among finitely many servers there is a least loaded one: the one with the
\* smallest set of servers strictly before it.
LEMMA SomebodyIsLeast ==
  ASSUME NEW f \in [Servers -> Ratio], NEW R \in SUBSET Servers, R # {}, IsFiniteSet(R)
  PROVE  \E s \in R : \A t \in R : LoadedNoMore(f, s, t)
  <1> DEFINE Less(s) == {t \in R : ~LoadedNoMore(f, s, t)}
             T == {Less(s) : s \in R}
             Order == StrictSubsetOrdering(R)
  <1>1. T \subseteq FiniteSubsetsOf(R) /\ T # {}
    <2>1. \A s \in R : Less(s) \in SUBSET R
      OBVIOUS
    <2>2. \A s \in R : IsFiniteSet(Less(s))
      BY <2>1, FS_Subset
    <2>3. QED BY <2>1, <2>2 DEF FiniteSubsetsOf
  <1>2. IsWellFoundedOn(Order, FiniteSubsetsOf(R))
    BY FS_StrictSubsetOrderingWellFounded
  <1> HIDE DEF T, Order
  <1>3. PICK B \in T : \A C \in T : <<C, B>> \notin Order
    BY <1>1, <1>2, WFMin
  <1>4. PICK s \in R : B = Less(s)
    BY <1>3 DEF T
  <1>5. ASSUME NEW t \in R, ~LoadedNoMore(f, s, t)
        PROVE  FALSE
    <2>1. LoadedNoMore(f, t, s) /\ LoadedNoMore(f, t, t)
      BY <1>5, LoadOrder
    <2>2. Less(t) \subseteq Less(s)
      BY <2>1, LoadOrder
    <2>3. t \in Less(s) /\ t \notin Less(t)
      BY <1>5, <2>1
    <2>4. <<Less(t), Less(s)>> \in Order
      <3>1. Less(t) \in SUBSET R /\ Less(s) \in SUBSET R
        OBVIOUS
      <3> HIDE DEF Less
      <3>2. QED BY <2>2, <2>3, <3>1 DEF Order, StrictSubsetOrdering
    <2>5. Less(t) \in T
      BY DEF T
    <2>6. QED BY <1>3, <1>4, <2>4, <2>5
  <1>6. QED BY <1>5

LEMMA LeftHasNext ==
  ASSUME TypeOK, IsFiniteSet(Servers)
  PROVE  NextIsThere
  <1> SUFFICES ASSUME NEW m \in Matches, left[m] # {}
               PROVE  \E s \in left[m] : NextLeft(m, s)
    BY DEF NextIsThere
  <1>1. left[m] \in SUBSET Servers /\ seen[m] \in [Servers -> Ratio]
    BY DEF TypeOK
  <1>2. IsFiniteSet(left[m])
    BY <1>1, FS_Subset
  <1>3. PICK s \in left[m] : \A t \in left[m] : LoadedNoMore(seen[m], s, t)
    BY <1>1, <1>2, SomebodyIsLeast
  <1>4. QED BY <1>3 DEF NextLeft

\* Sizes of what a listing leaves, before and after a server is taken from it.
LEMMA LeftShrinks ==
  ASSUME IsFiniteSet(Servers), NEW L \in SUBSET Servers
  PROVE  /\ Cardinality(L) \in 0 .. Cardinality(Servers)
         /\ \A s \in L : /\ Cardinality(L \ {s}) = Cardinality(L) - 1
                          /\ Cardinality(L \ {s}) \in Nat
  <1>1. IsFiniteSet(L) /\ Cardinality(L) <= Cardinality(Servers)
    BY FS_Subset
  <1>2. Cardinality(L) \in Nat
    BY <1>1, FS_CardinalityType
  <1>3. Cardinality(Servers) \in Nat
    BY FS_CardinalityType
  <1>4. ASSUME NEW s \in L
        PROVE  Cardinality(L \ {s}) = Cardinality(L) - 1 /\ Cardinality(L \ {s}) \in Nat
    <2>1. IsFiniteSet(L \ {s}) /\ Cardinality(L \ {s}) = Cardinality(L) - 1
      BY <1>1, FS_RemoveElement
    <2>2. QED BY <2>1, FS_CardinalityType
  <1>5. QED BY <1>1, <1>2, <1>3, <1>4

LEMMA ScanNextAdvances ==
  ASSUME TypeOK, IsFiniteSet(Servers), [Next]_vars, NEW m \in Matches
  PROVE  ScanAdvances(m)
  <1>0. left[m] \in SUBSET Servers
    BY DEF TypeOK
  <1>1. Cardinality(left[m]) \in Nat
    BY <1>0, LeftShrinks
  <1>2. ASSUME pc'[m] = pc[m], left'[m] = left[m], look'[m] = look[m]
        PROVE  ScanAdvances(m)
    BY <1>2 DEF ScanAdvances, InScan
  <1>3. ASSUME NEW x \in Modes, ListByLoad(m, x)
        PROVE  ScanAdvances(m)
    <2>1. pc[m] = "new" /\ pc'[m] = "scan" /\ left'[m] = index[x]
      BY <1>3 DEF ListByLoad, Goto, TypeOK
    <2>2. Cardinality(index[x]) \in 0 .. Cardinality(Servers)
      BY LeftShrinks DEF TypeOK
    <2>3. Cardinality(Servers) \in Nat
      BY FS_CardinalityType
    <2>4. StepsLeft(m)' <= 2 * Cardinality(Servers) + 1
      BY <2>1, <2>2, <2>3 DEF StepsLeft
    <2>5. QED BY <2>1, <2>4 DEF ScanAdvances, InScan
  <1>4. ASSUME NEW s \in Servers, GetGameServer(m, s)
        PROVE  ScanAdvances(m)
    <2>1. /\ pc[m] = "scan" /\ pc'[m] \in {"scan", "reserve"}
          /\ s \in left[m] /\ left'[m] = left[m] \ {s}
      BY <1>4 DEF GetGameServer, NextLeft, Remaining, Goto, TypeOK
    <2>2. /\ Cardinality(left'[m]) = Cardinality(left[m]) - 1
          /\ Cardinality(left'[m]) \in Nat
      BY <1>0, <2>1, LeftShrinks
    <2>3. StepsLeft(m)' \in 0 .. StepsLeft(m) - 1
      BY <1>1, <2>1, <2>2 DEF StepsLeft
    <2>4. QED BY <2>1, <2>3 DEF ScanAdvances, InScan
  <1>5. ASSUME ReserveRefused(m)
        PROVE  ScanAdvances(m)
    <2>1. pc[m] = "reserve" /\ pc'[m] = "scan" /\ left'[m] = left[m]
      BY <1>5 DEF ReserveRefused, Goto, TypeOK
    <2>2. StepsLeft(m)' \in 0 .. StepsLeft(m) - 1
      BY <1>1, <2>1 DEF StepsLeft
    <2>3. QED BY <2>1, <2>2 DEF ScanAdvances, InScan
  <1>6. ASSUME Reserve(m) \/ NoAvailableRoomServer(m) \/ AllocationCut(m)
        PROVE  ScanAdvances(m)
    <2>1. pc[m] \in {"scan", "reserve"} /\ pc'[m] \in {"reserved", "failed"}
      <3>1. CASE Reserve(m)
        BY <3>1 DEF Reserve, Goto, TypeOK
      <3>2. CASE NoAvailableRoomServer(m)
        BY <3>2 DEF NoAvailableRoomServer, Goto, TypeOK
      <3>3. CASE AllocationCut(m)
        BY <3>3 DEF AllocationCut, Goto, TypeOK
      <3>4. QED BY <1>6, <3>1, <3>2, <3>3
    <2>2. StepsLeft(m)' \in 0 .. StepsLeft(m) - 1
      BY <1>1, <2>1 DEF StepsLeft
    <2>3. QED BY <2>1, <2>2 DEF ScanAdvances, InScan
  <1>7. ASSUME ReleaseRoomServer(m)
        PROVE  ScanAdvances(m)
    BY <1>7 DEF ReleaseRoomServer, Goto, TypeOK, ScanAdvances, InScan
  <1>8. ASSUME NEW n \in Matches, n # m,
               \/ \E x \in Modes : ListByLoad(n, x)
               \/ \E s \in Servers : GetGameServer(n, s)
               \/ Reserve(n) \/ ReserveRefused(n) \/ NoAvailableRoomServer(n)
               \/ AllocationCut(n) \/ ReleaseRoomServer(n)
        PROVE  pc'[m] = pc[m] /\ left'[m] = left[m] /\ look'[m] = look[m]
    <2>1. CASE \E x \in Modes : ListByLoad(n, x)
      BY <1>8, <2>1 DEF ListByLoad, Goto, TypeOK
    <2>2. CASE \E s \in Servers : GetGameServer(n, s)
      BY <1>8, <2>2 DEF GetGameServer, Goto, TypeOK
    <2>3. CASE Reserve(n)
      BY <1>8, <2>3 DEF Reserve, Goto, TypeOK
    <2>4. CASE ReserveRefused(n)
      BY <1>8, <2>4 DEF ReserveRefused, Goto, TypeOK
    <2>5. CASE NoAvailableRoomServer(n)
      BY <1>8, <2>5 DEF NoAvailableRoomServer, Goto, TypeOK
    <2>6. CASE AllocationCut(n)
      BY <1>8, <2>6 DEF AllocationCut, Goto, TypeOK
    <2>7. CASE ReleaseRoomServer(n)
      BY <1>8, <2>7 DEF ReleaseRoomServer, Goto, TypeOK
    <2>8. QED BY <1>8, <2>1, <2>2, <2>3, <2>4, <2>5, <2>6, <2>7
  <1>9. CASE UNCHANGED <<pc, left, look>>
    BY <1>2, <1>9
  <1>10. QED
    BY <1>2, <1>3, <1>4, <1>5, <1>6, <1>7, <1>8, <1>9
       DEF Next, vars, matchVars, RegisterGameServer, HeartbeatGameServer, Start,
           WriteInfo, ListServer, UpdateServerLoad, HandlerCut, Age

-----------------------------------------------------------------------------
(* Bookings, when loads change by reservations only.                       *)

Booked(s) == {m \in Matches : assigned[m] = s}

\* Every booked slot is counted in the load; a server that is being registered
\* has no load yet that the registration could overwrite.
BookInv ==
  /\ \A s \in Servers : Slots * Cardinality(Booked(s)) <= load[s]
  /\ \A h \in Handlers :
       /\ hpc[h] = "idle" => job[h].server = NoServer
       /\ hpc[h] = "info" => mode[job[h].server] = NoMode
       /\ \A g \in Handlers :
            job[g].server = job[h].server /\ job[h].server # NoServer => g = h

LEMMA BookedFinite ==
  ASSUME NEW s
  PROVE  IsFiniteSet(Booked(s)) /\ Cardinality(Booked(s)) \in Nat
  <1>1. IsFiniteSet(Booked(s))
    BY MatchAssumption, FS_Subset DEF Booked
  <1>2. QED BY <1>1, FS_CardinalityType

\* One more booking on a server is one more of its bookings.
LEMMA BookedAdd ==
  ASSUME TypeOK, NEW m \in Matches, NEW s \in Servers, assigned[m] = NoServer,
         assigned' = [assigned EXCEPT ![m] = s]
  PROVE  /\ Cardinality(Booked(s)') = Cardinality(Booked(s)) + 1
         /\ \A t \in Servers \ {s} : Booked(t)' = Booked(t)
  <1>1. Booked(s)' = Booked(s) \cup {m} /\ m \notin Booked(s)
    BY NameAssumption DEF Booked, TypeOK
  <1>2. \A t \in Servers \ {s} : Booked(t)' = Booked(t)
    BY NameAssumption DEF Booked, TypeOK
  <1>3. IsFiniteSet(Booked(s))
    BY BookedFinite
  <1>4. Cardinality(Booked(s) \cup {m}) = Cardinality(Booked(s)) + 1
    BY <1>1, <1>3, FS_AddElement
  <1>5. QED BY <1>1, <1>2, <1>4

\* One booking given back.
LEMMA BookedRemove ==
  ASSUME TypeOK, NEW m \in Matches, NEW s \in Servers, assigned[m] = s,
         assigned' = [assigned EXCEPT ![m] = NoServer]
  PROVE  /\ Cardinality(Booked(s)') = Cardinality(Booked(s)) - 1
         /\ \A t \in Servers \ {s} : Booked(t)' = Booked(t)
  <1>1. Booked(s)' = Booked(s) \ {m} /\ m \in Booked(s)
    BY NameAssumption DEF Booked, TypeOK
  <1>2. \A t \in Servers \ {s} : Booked(t)' = Booked(t)
    BY NameAssumption DEF Booked, TypeOK
  <1>3. IsFiniteSet(Booked(s))
    BY BookedFinite
  <1>4. Cardinality(Booked(s) \ {m}) = Cardinality(Booked(s)) - 1
    BY <1>1, <1>3, FS_RemoveElement
  <1>5. QED BY <1>1, <1>2, <1>4

\* A server that no match refers to has no bookings.
LEMMA NothingBooked ==
  ASSUME TypeOK, ListedInv, NEW s \in Servers, mode[s] = NoMode
  PROVE  Cardinality(Booked(s)) = 0
  <1>1. s # NoServer
    BY NameAssumption
  <1>2. Booked(s) = {}
    BY <1>1 DEF Booked, ListedInv, Known, Registered
  <1>3. QED BY <1>2, FS_EmptySet

LEMMA BookInit ==
  ASSUME Init
  PROVE  BookInv
  <1>1. \A s \in Servers : Booked(s) = {}
    BY NameAssumption DEF Init, Booked
  <1>2. Slots * 0 = 0
    BY SizeAssumption
  <1>3. \A s \in Servers : Slots * Cardinality(Booked(s)) <= load[s]
    <2>1. Cardinality({}) = 0
      BY FS_EmptySet
    <2>2. ASSUME NEW s \in Servers
          PROVE  Slots * Cardinality(Booked(s)) <= load[s]
      <3>1. Cardinality(Booked(s)) = 0
        BY <1>1, <2>1
      <3>2. load[s] = 0
        BY DEF Init
      <3>3. QED BY <1>2, <3>1, <3>2
    <2>3. QED BY <2>2
  <1>4. \A g \in Handlers : job[g].server = NoServer /\ hpc[g] = "idle"
    BY DEF Init, NoJob
  <1>5. QED BY <1>3, <1>4 DEF BookInv

OnlyReservations == Env \cap {"heartbeat", "reregister"} = {}

LEMMA BookNext ==
  ASSUME OnlyReservations, Sound, ListedInv, BookInv, [Next]_vars
  PROVE  BookInv'
  <1>1. TypeOK /\ JobsInUse /\ AllocationsInUse
    BY DEF Sound
  <1>2. Slots \in Nat \ {0}
    BY SizeAssumption
  <1>3. CASE UNCHANGED <<mode, load, assigned, handlerVars>>
    BY <1>3 DEF BookInv, Booked, handlerVars
  <1>4. ASSUME NEW m \in Matches, Reserve(m)
        PROVE  BookInv'
    <2>0. PICK s0 \in Servers : s0 = look[m]
      BY <1>1, <1>4 DEF Reserve, AllocationsInUse, TypeOK
    <2>1. /\ assigned[m] = NoServer
          /\ load' = [load EXCEPT ![s0] = load[s0] + Slots]
          /\ assigned' = [assigned EXCEPT ![m] = s0]
          /\ UNCHANGED <<mode, handlerVars>>
      BY <1>1, <1>4, <2>0 DEF Reserve, LoadReserved, AllocationsInUse, TypeOK
    <2> DEFINE n == Cardinality(Booked(s0))
    <2>2. /\ Cardinality(Booked(s0)') = n + 1
          /\ \A t \in Servers \ {s0} : Booked(t)' = Booked(t)
      BY <1>1, <2>1, BookedAdd
    <2>3. n \in Nat /\ Slots * n <= load[s0]
      BY <2>1, BookedFinite DEF BookInv
    <2> HIDE DEF n
    <2>4. Slots * (n + 1) = Slots * n + Slots /\ Slots * n \in Nat
      BY <1>2, <2>3
    <2>5. load[s0] \in Int
      BY <1>1, <2>1 DEF TypeOK
    <2>6. Slots * (n + 1) <= load[s0] + Slots
      BY <1>2, <2>3, <2>4, <2>5
    <2>7. \A s \in Servers : (Slots * Cardinality(Booked(s)) <= load[s])'
      <3>1. ASSUME NEW s \in Servers
            PROVE  (Slots * Cardinality(Booked(s)) <= load[s])'
        <4>1. CASE s = s0
          BY <1>1, <2>1, <2>2, <2>6, <4>1 DEF TypeOK
        <4>2. CASE s # s0
          <5>1. load'[s] = load[s] /\ Booked(s)' = Booked(s)
            BY <1>1, <2>1, <2>2, <4>2 DEF TypeOK
          <5>2. QED BY <5>1 DEF BookInv
        <4>3. QED BY <4>1, <4>2
      <3>2. QED BY <3>1
    <2>8. QED BY <2>1, <2>7 DEF BookInv, handlerVars
  <1>5. ASSUME NEW m \in Matches, ReleaseRoomServer(m)
        PROVE  BookInv'
    <2>0. PICK s0 \in Servers : s0 = assigned[m]
      BY <1>1, <1>5 DEF ReleaseRoomServer, AllocationsInUse, TypeOK
    <2> DEFINE n == Cardinality(Booked(s0))
    <2>1. /\ load' = [load EXCEPT ![s0] = LoadReleased(s0)]
          /\ assigned' = [assigned EXCEPT ![m] = NoServer]
          /\ UNCHANGED <<mode, handlerVars>>
      BY <1>1, <1>5, <2>0 DEF ReleaseRoomServer, TypeOK
    <2>2. /\ Cardinality(Booked(s0)') = n - 1
          /\ \A t \in Servers \ {s0} : Booked(t)' = Booked(t)
      BY <1>1, <2>0, <2>1, BookedRemove
    <2>3. n \in Nat /\ Slots * n <= load[s0] /\ load[s0] \in Int
      BY <1>1, <2>1, BookedFinite DEF BookInv, TypeOK
    <2>4. n # 0
      <3>1. m \in Booked(s0)
        BY <2>0 DEF Booked
      <3>2. QED BY <3>1, BookedFinite, FS_EmptySet
    <2> HIDE DEF n
    <2>5. Slots * (n - 1) = Slots * n - Slots /\ Slots * n \in Nat
      BY <1>2, <2>3
    <2>6. Slots * (n - 1) <= LoadReleased(s0)
      <3>1. Slots * n >= Slots
        BY <1>2, <2>3, <2>4
      <3>2. QED BY <1>2, <2>3, <2>5, <3>1 DEF LoadReleased
    <2>7. \A s \in Servers : (Slots * Cardinality(Booked(s)) <= load[s])'
      <3>1. ASSUME NEW s \in Servers
            PROVE  (Slots * Cardinality(Booked(s)) <= load[s])'
        <4>1. CASE s = s0
          BY <1>1, <2>1, <2>2, <2>6, <4>1 DEF TypeOK
        <4>2. CASE s # s0
          <5>1. load'[s] = load[s] /\ Booked(s)' = Booked(s)
            BY <1>1, <2>1, <2>2, <4>2 DEF TypeOK
          <5>2. QED BY <5>1 DEF BookInv
        <4>3. QED BY <4>1, <4>2
      <3>2. QED BY <3>1
    <2>8. QED BY <2>1, <2>7 DEF BookInv, handlerVars
  <1>6. ASSUME NEW h \in Handlers, NEW s \in Servers, RegisterGameServer(h, s)
        PROVE  BookInv'
    <2>1. /\ mode[s] = NoMode /\ \A g \in Handlers : job[g].server # s
          /\ hpc[h] = "idle" /\ hpc'[h] = "info" /\ job'[h].server = s
          /\ UNCHANGED <<mode, load, assigned>>
          /\ \A g \in Handlers \ {h} : hpc'[g] = hpc[g] /\ job'[g] = job[g]
      BY <1>1, <1>6 DEF RegisterGameServer, Start, OnlyReservations, TypeOK, infoVars,
                        matchVars
    <2>2. s # NoServer
      BY NameAssumption
    <2>3. QED BY <2>1, <2>2 DEF BookInv, Booked
  <1>7. ASSUME NEW h \in Handlers, WriteInfo(h)
        PROVE  BookInv'
    <2>0. PICK s0 \in Servers : s0 = job[h].server
      BY <1>7 DEF WriteInfo, Sound, JobsInUse
    <2>1. /\ s0 # NoServer /\ mode[s0] = NoMode
          /\ job[h].load \in Nat
      <3>1. job[h].load \in 0 .. job[h].capacity /\ job[h].capacity \in Nat
        BY <1>1, <1>7, <2>0 DEF WriteInfo, JobsInUse, TypeOK, Job
      <3>2. QED
        BY <1>7, <2>0, <3>1, NameAssumption DEF WriteInfo, BookInv
    <2>2. /\ UNCHANGED <<assigned, job>>
          /\ hpc[h] = "info" /\ hpc'[h] = "list"
          /\ load'[s0] = job[h].load
          /\ \A s \in Servers \ {s0} : load'[s] = load[s] /\ mode'[s] = mode[s]
          /\ \A g \in Handlers \ {h} : hpc'[g] = hpc[g]
      BY <1>1, <1>7, <2>0, <2>1 DEF WriteInfo, TypeOK
    <2>3. Slots * Cardinality(Booked(s0)') <= load'[s0]
      <3>1. Cardinality(Booked(s0)') = 0
        <4>1. Cardinality(Booked(s0)) = 0
          BY <1>1, <2>1, NothingBooked
        <4>2. QED BY <2>2, <4>1 DEF Booked
      <3>2. QED BY <1>2, <2>1, <2>2, <3>1
    <2>4. ASSUME NEW g \in Handlers, hpc'[g] = "info"
          PROVE  mode'[job'[g].server] = NoMode
      <3>1. g # h /\ hpc[g] = "info" /\ job'[g] = job[g]
        BY <2>2, <2>4
      <3>2. job[g].server \in Servers /\ mode[job[g].server] = NoMode
        BY <1>1, <3>1 DEF BookInv, JobsInUse
      <3>3. job[g].server # s0
        BY <2>0, <2>1, <3>1 DEF BookInv
      <3>4. QED BY <2>2, <3>1, <3>2, <3>3
    <2>5. \A s \in Servers : (Slots * Cardinality(Booked(s)) <= load[s])'
      <3>1. ASSUME NEW s \in Servers, s # s0
            PROVE  (Slots * Cardinality(Booked(s)) <= load[s])'
        <4>1. load'[s] = load[s] /\ Booked(s)' = Booked(s)
          BY <2>2, <3>1 DEF Booked
        <4>2. QED BY <4>1 DEF BookInv
      <3>2. QED BY <2>3, <3>1
    <2>6. \A g \in Handlers : hpc'[g] = "idle" => job'[g].server = NoServer
      BY <2>2 DEF BookInv
    <2>7. QED BY <2>2, <2>4, <2>5, <2>6 DEF BookInv
  <1>8. ASSUME NEW h \in Handlers, ListServer(h)
        PROVE  BookInv'
    <2>1. /\ UNCHANGED <<mode, load, assigned, job>>
          /\ hpc[h] # "idle" /\ hpc'[h] = "index"
          /\ \A g \in Handlers \ {h} : hpc'[g] = hpc[g]
      BY <1>1, <1>8 DEF ListServer, infoVars, matchVars, TypeOK
    <2>2. QED BY <2>1 DEF BookInv, Booked
  <1>9. ASSUME NEW h \in Handlers, UpdateServerLoad(h) \/ HandlerCut(h)
        PROVE  BookInv'
    <2>1. /\ UNCHANGED <<mode, load, assigned>>
          /\ hpc'[h] = "idle" /\ job'[h].server = NoServer
          /\ \A g \in Handlers \ {h} : hpc'[g] = hpc[g] /\ job'[g] = job[g]
      BY <1>1, <1>9 DEF UpdateServerLoad, HandlerCut, infoVars, matchVars, TypeOK, NoJob
    <2>2. QED BY <2>1 DEF BookInv, Booked
  <1>10. ~\E h \in Handlers, s \in Servers : HeartbeatGameServer(h, s)
    BY DEF OnlyReservations, HeartbeatGameServer
  <1>11. QED
    BY <1>3, <1>4, <1>5, <1>6, <1>7, <1>8, <1>9, <1>10
       DEF Next, ListByLoad, GetGameServer, ReserveRefused, NoAvailableRoomServer,
           AllocationCut, Age, vars, infoVars, matchVars

-----------------------------------------------------------------------------
(* The theorems.                                                           *)

\* Every reachable state is well typed, for any servers, modes, matches,
\* handlers, capacities and match sizes.
THEOREM TypeCorrect == Spec => []TypeOK
  <1>1. Init => Sound
    BY SoundInit
  <1>2. Sound /\ [Next]_vars => Sound'
    BY SoundNext
  <1>3. Sound => TypeOK
    BY DEF Sound
  <1>4. QED BY <1>1, <1>2, <1>3, PTL DEF Spec

\* Reserves, releases, heartbeats and registrations keep each load between zero
\* and the capacity, in any order and with any lost update among them.
THEOREM LoadsStayWithinCapacity == Spec => []LoadWithinCapacity
  <1>1. Init => Sound
    BY SoundInit
  <1>2. Sound /\ [Next]_vars => Sound'
    BY SoundNext
  <1>3. Sound => LoadWithinCapacity
    BY DEF Sound
  <1>4. QED BY <1>1, <1>2, <1>3, PTL DEF Spec

\* The allocator reports ErrNoAvailableRoomServer for a match only if no server
\* was ready to take it during its whole scan.
THEOREM NobodyRefusedFalsely == Spec => []NoFalseRefusal
  <1>1. Init => Sound /\ WatchInv
    BY SoundInit DEF Init, WatchInv
  <1>2. Sound /\ WatchInv /\ [Next]_vars => Sound' /\ WatchInv'
    BY SoundNext, WatchNext
  <1>3. WatchInv => NoFalseRefusal
    BY DEF WatchInv, StillToTry, NoFalseRefusal
  <1>4. QED BY <1>1, <1>2, <1>3, PTL DEF Spec

\* The allocator takes the least loaded of the servers that could have taken the
\* match all along, by the load index as it was listed, for any capacities.
THEOREM LeastLoadedChosen == Spec => LeastLoadedIsChosen
  <1>1. Init => Sound /\ WatchInv /\ ScanInv
    BY SoundInit DEF Init, WatchInv, ScanInv
  <1>2. Sound /\ WatchInv /\ ScanInv /\ [Next]_vars
          => Sound' /\ WatchInv' /\ ScanInv'
    BY SoundNext, WatchNext, ScanNext
  <1>3. Sound /\ WatchInv /\ ScanInv =>
          \A m \in Matches :
            Reserve(m) => \A s \in avail[m] : LoadedNoMore(seen[m], look[m], s)
    BY ReserveIsLeast
  <1>4. QED BY <1>1, <1>2, <1>3, PTL DEF Spec, LeastLoadedIsChosen

\* However many servers there are and however the registry changes, an allocation
\* tries each server it has listed at most once, always finds a next one to try,
\* and is answered after at most two commands for each server.
THEOREM AllocationsEnd ==
  ASSUME IsFiniteSet(Servers)
  PROVE  Spec => ScansComeToAnEnd
  <1>1. Init => Sound
    BY SoundInit
  <1>2. Sound /\ [Next]_vars => Sound'
    BY SoundNext
  <1>3. Sound => TypeOK
    BY DEF Sound
  <1>4. TypeOK => NextIsThere
    BY LeftHasNext
  <1>5. TypeOK /\ [Next]_vars => \A m \in Matches : ScanAdvances(m)
    BY ScanNextAdvances
  <1>6. QED BY <1>1, <1>2, <1>3, <1>4, <1>5, PTL DEF Spec, ScansComeToAnEnd

\* A server in a load index is registered and in the list of servers, whichever
\* registrations and heartbeats are cut off.
THEOREM AllocatableServersAreListed == Spec => []AllocatableIsListed
  <1>1. Init => Sound /\ ListedInv
    BY SoundInit, ListedInit
  <1>2. Sound /\ ListedInv /\ [Next]_vars => Sound' /\ ListedInv'
    BY SoundNext, ListedNext
  <1>3. ListedInv => AllocatableIsListed
    BY DEF ListedInv
  <1>4. QED BY <1>1, <1>2, <1>3, PTL DEF Spec

\* The cardinality of RoomBooking is that of RoomRegistry.
LEMMA SameCardinality ==
  ASSUME NEW S
  PROVE  Booking!Cardinality(S) = Cardinality(S)
  BY DEF Booking!Cardinality, Cardinality

\* The capacity of a server as RoomBooking sees it.
SlotsOf(s) == IF mode[s] = NoMode THEN 0 ELSE capacity[s]

\* A step of the registry books a room, gives one back, writes the hash of a
\* server for the first time, or does none of these.
LEMMA StepIsBooking ==
  ASSUME OnlyReservations, Sound, ListedInv, BookInv, [Next]_vars
  PROVE  [Booking!Next]_<<assigned, [s \in Servers |-> SlotsOf(s)]>>
  <1>1. TypeOK /\ AllocationsInUse /\ JobsInUse
    BY DEF Sound
  <1> DEFINE held == [s \in Servers |-> SlotsOf(s)]
  <1>2. ASSUME NEW m \in Matches, Reserve(m)
        PROVE  Booking!Next
    <2>1. PICK s \in Servers : s = look[m]
      BY <1>1, <1>2 DEF Reserve, AllocationsInUse, TypeOK
    <2>2. /\ assigned[m] = NoServer
          /\ assigned' = [assigned EXCEPT ![m] = s]
          /\ load[s] + Slots <= capacity[s] /\ mode[s] # NoMode
          /\ UNCHANGED <<mode, capacity>>
      BY <1>1, <1>2, <2>1 DEF Reserve, Reservable, Fits, AllocationsInUse
    <2> DEFINE n == Cardinality(Booked(s))
    <2>3. n \in Nat /\ Slots * n <= load[s] /\ load[s] \in Int
      BY <1>1, BookedFinite DEF BookInv, TypeOK
    <2> HIDE DEF n
    <2>4. Slots \in Nat /\ capacity[s] \in Nat
      BY <1>1, SizeAssumption DEF TypeOK
    <2>5. Slots * (n + 1) = Slots * n + Slots /\ Slots * n \in Nat
      BY <2>3, <2>4
    <2>6. Slots * (n + 1) <= capacity[s]
      BY <2>2, <2>3, <2>4, <2>5
    <2>7. Slots * (Booking!Cardinality(Booking!Booked(s)) + 1) <= SlotsOf(s)
      BY <2>2, <2>6, SameCardinality DEF n, Booked, Booking!Booked, SlotsOf
    <2>8. UNCHANGED [t \in Servers |-> SlotsOf(t)]
      BY <2>2 DEF SlotsOf
    <2>9. QED BY <2>2, <2>7, <2>8 DEF Booking!Next, Booking!Book, SlotsOf
  <1>3. ASSUME NEW m \in Matches, ReleaseRoomServer(m)
        PROVE  Booking!Next
    <2>1. /\ assigned[m] # NoServer /\ assigned' = [assigned EXCEPT ![m] = NoServer]
          /\ UNCHANGED <<mode, capacity>>
      BY <1>1, <1>3 DEF ReleaseRoomServer, AllocationsInUse
    <2>2. QED BY <2>1 DEF Booking!Next, Booking!GiveBack
  <1>4. ASSUME NEW h \in Handlers, WriteInfo(h)
        PROVE  Booking!Next
    <2>1. PICK s0 \in Servers, c \in Nat \ {0} : s0 = job[h].server /\ c = job[h].capacity
      BY <1>1, <1>4 DEF WriteInfo, JobsInUse, TypeOK, Job
    <2>2. mode[s0] = NoMode /\ job[h].mode # NoMode
      BY <1>1, <1>4, <2>1, NameAssumption DEF WriteInfo, BookInv, JobsInUse
    <2>3. /\ mode' = [mode EXCEPT ![s0] = job[h].mode]
          /\ capacity' = [capacity EXCEPT ![s0] = c]
          /\ UNCHANGED assigned
      BY <1>4, <2>1 DEF WriteInfo
    <2>4. \A t \in Servers : SlotsOf(t)' = IF t = s0 THEN c ELSE SlotsOf(t)
      BY <1>1, <2>2, <2>3 DEF SlotsOf, TypeOK
    <2>5. held' = [held EXCEPT ![s0] = c] /\ held[s0] = 0
      BY <2>2, <2>4 DEF SlotsOf
    <2>6. QED BY <2>1, <2>3, <2>5 DEF Booking!Next, Booking!Open, SlotsOf
  <1>5. ASSUME UNCHANGED <<assigned, mode, capacity>>
        PROVE  UNCHANGED <<assigned, held>>
    BY <1>5 DEF SlotsOf
  <1>6. ~\E h \in Handlers, s \in Servers : HeartbeatGameServer(h, s)
    BY DEF OnlyReservations, HeartbeatGameServer
  <1>7. QED
    BY <1>2, <1>3, <1>4, <1>5, <1>6
       DEF Next, ListByLoad, GetGameServer, ReserveRefused, NoAvailableRoomServer,
           AllocationCut, RegisterGameServer, Start, ListServer, UpdateServerLoad,
           HandlerCut, Age, vars, infoVars, matchVars

\* While loads change by reservations, releases and first registrations only,
\* the registry never books more players on a server than it has slots, and
\* books a match once: it implements RoomBooking.
THEOREM BookingImplemented ==
  ASSUME Env \cap {"heartbeat", "reregister"} = {}
  PROVE  Spec => Books
  <1>1. OnlyReservations
    BY DEF OnlyReservations
  <1>2. Init => Sound /\ ListedInv /\ BookInv
    BY SoundInit, ListedInit, BookInit
  <1>3. Sound /\ ListedInv /\ BookInv /\ [Next]_vars
          => Sound' /\ ListedInv' /\ BookInv'
    BY <1>1, SoundNext, ListedNext, BookNext
  <1>4. Init => Booking!Init
    BY DEF Init, Booking!Init
  <1>5. Sound /\ ListedInv /\ BookInv /\ [Next]_vars
          => [Booking!Next]_<<assigned, [s \in Servers |-> SlotsOf(s)]>>
    BY <1>1, StepIsBooking
  <1>6. QED BY <1>2, <1>3, <1>4, <1>5, PTL DEF Spec, Books, Booking!Spec, SlotsOf
=============================================================================
