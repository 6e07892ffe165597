------------------------ MODULE MatchTickets_proofs ------------------------
(* Proofs that the safety properties of MatchTickets hold for any number   *)
(* of players, tickets, matches and requests: those of the first parts in   *)
(* every environment, those of the last when only matches end tickets.      *)
EXTENDS MatchTickets, FiniteSetTheorems, TLAPS

-----------------------------------------------------------------------------
(* Types.                                                                  *)

\* What Finish leaves behind is well typed.
LEMMA FinishType ==
  ASSUME TypeOK, NEW r \in Procs, Finish(r)
  PROVE  /\ pc' \in [Procs -> Steps]
         /\ own' \in [Procs -> Tickets \cup {NoTicket}]
         /\ held' \in [Procs -> SUBSET Players]
         /\ todo' \in [Procs -> SUBSET Players]
         /\ look' \in [Procs -> Tickets \cup {NoTicket}]
         /\ found' \in [Procs -> SUBSET Tickets]
         /\ match' \in [Procs -> Matches \cup {NoMatch}]
         /\ scan' \in 0 .. Buckets
         /\ gone' \subseteq Requests
  BY BoundAssumption DEF TypeOK, Finish, Goto, Steps

\* Every step keeps the variables well typed.
LEMMA TypeStep == ASSUME TypeOK, RefsCreated, LocalsInUse, [Next]_vars PROVE TypeOK'
  <1> USE DEF ticketVars, indexVars, matchVars, envVars, localVars, Goto
  <1>1. ASSUME NEW r \in Requests, NEW p \in Players, NEW t \in Tickets,
               CreateMatchTicket(r, p, t) PROVE TypeOK'
    BY <1>1 DEF TypeOK, CreateMatchTicket, Procs, Steps, CreateSteps
  <1>2. ASSUME NEW r \in Requests, WriteTicketHash(r) PROVE TypeOK'
    BY <1>2 DEF TypeOK, WriteTicketHash, Procs, Steps, CreateSteps, Statuses, RefsCreated, LocalsInUse, InUse
  <1>3. ASSUME NEW r \in Requests, SetTicketTTL(r) PROVE TypeOK'
    BY <1>3 DEF TypeOK, SetTicketTTL, Procs, Steps, CreateSteps, RefsCreated, LocalsInUse, InUse
  <1>4. ASSUME NEW r \in Requests, AddPlayerToPool(r) PROVE TypeOK'
    BY <1>4 DEF TypeOK, AddPlayerToPool, Procs, Steps, CreateSteps, RefsCreated, LocalsInUse, InUse
  <1>5. ASSUME NEW r \in Requests, IndexDeadline(r) PROVE TypeOK'
    BY <1>5 DEF TypeOK, IndexDeadline, Procs, Steps, CreateSteps, RefsCreated, LocalsInUse, InUse
  <1>6. ASSUME NEW r \in Requests, RollbackPool(r) PROVE TypeOK'
    BY <1>6, FinishType DEF TypeOK, RollbackPool, Procs
  <1>7. ASSUME NEW r \in Requests, CancelMatchTicket(r) PROVE TypeOK'
    BY <1>7, FinishType DEF TypeOK, CancelMatchTicket, Procs, Statuses, Unlock
  <1>8. ASSUME NEW r \in Requests, CancelFails(r) PROVE TypeOK'
    BY <1>8, FinishType DEF TypeOK, CancelFails, Procs
  <1>9. ASSUME NEW r \in Requests, Disconnect(r) PROVE TypeOK'
    BY <1>9 DEF TypeOK, Disconnect, Procs, Steps, CreateSteps
  <1>10. ASSUME NEW r \in Requests, RollbackCreate(r) PROVE TypeOK'
    <2>1. ASSUME pc[r] # "expiry" PROVE TypeOK'
      BY <1>10, <2>1, FinishType DEF TypeOK, RollbackCreate, Procs, Statuses, Unlock
    <2>2. ASSUME pc[r] = "expiry" PROVE TypeOK'
      BY <1>10, <2>2 DEF TypeOK, RollbackCreate, Procs, Steps, CreateSteps, Statuses, Unlock
    <2>3. QED BY <2>1, <2>2
  <1>11. ASSUME NEW r \in Requests, NEW t \in Tickets, ReadTicketToCancel(r, t) PROVE TypeOK'
    BY <1>11 DEF TypeOK, ReadTicketToCancel, Procs, Steps
  <1>12. ASSUME NEW r \in Procs, SearchAndPickTicketPlayers(r) PROVE TypeOK'
    BY <1>12 DEF TypeOK, SearchAndPickTicketPlayers, Procs, Steps, MatchSteps, RequeueSteps
  <1>13. ASSUME NEW r \in Procs, PickNobody(r) PROVE TypeOK'
    BY <1>13, FinishType DEF TypeOK, PickNobody, Procs
  <1>14. ASSUME NEW r \in Procs, AllocateRoomFails(r) PROVE TypeOK'
    BY <1>14 DEF TypeOK, AllocateRoomFails, Procs, Steps, MatchSteps, RequeueSteps
  <1>4a. ASSUME NEW r \in Procs, ReadTicketToMatch(r) PROVE TypeOK'
    BY <1>4a DEF TypeOK, ReadTicketToMatch, Procs, Steps, MatchSteps, RequeueSteps, LocalsInUse, InUse
  <1>16. ASSUME NEW r \in Procs, CompleteMatchFails(r) PROVE TypeOK'
    BY <1>16 DEF TypeOK, CompleteMatchFails, Procs, Steps, MatchSteps, RequeueSteps
  <1>17. ASSUME NEW r \in Procs, ReleaseRoom(r) PROVE TypeOK'
    BY <1>17 DEF TypeOK, ReleaseRoom, Procs, Steps, MatchSteps, RequeueSteps, Released
  <1>18. ASSUME NEW r \in Procs, ReadTicketToRequeue(r) PROVE TypeOK'
    BY <1>18 DEF TypeOK, ReadTicketToRequeue, Procs, Steps, MatchSteps, RequeueSteps
  <1>19. ASSUME NEW r \in Procs, RequeuePlayer(r) PROVE TypeOK'
    BY <1>19 DEF TypeOK, RequeuePlayer, Procs, Steps, MatchSteps, RequeueSteps, RefsCreated, LocalsInUse, InUse
  <1>20. ASSUME NEW r \in Procs, RequeueReturns(r) PROVE TypeOK'
    BY <1>20, FinishType DEF TypeOK, RequeueReturns, Procs
  <1>21. ASSUME NEW r \in Procs, CompleteMatch(r) PROVE TypeOK'
    <2>1. found[r] \subseteq Tickets /\ match[r] \in Matches \cup {NoMatch}
      BY DEF TypeOK
    <2>2. Owners(found[r]) \subseteq Players
      BY <2>1 DEF TypeOK, Owners, RefsCreated
    <2>3. status' \in [Tickets -> Statuses]
      BY <1>21 DEF TypeOK, CompleteMatch, Statuses
    <2>4. matchOf' \in [Tickets -> Matches \cup {NoMatch}]
      BY <1>21, <2>1 DEF TypeOK, CompleteMatch
    <2>5. key' \in [Players -> Tickets \cup {NoTicket}]
      BY <1>21 DEF TypeOK, CompleteMatch, Unlock
    <2>6. result' \in [Matches -> SUBSET Players]
      BY <1>21, <2>2 DEF TypeOK, CompleteMatch
    <2>7. QED
      BY <1>21, <2>3, <2>4, <2>5, <2>6, FinishType DEF TypeOK, CompleteMatch
  <1>22. ASSUME NEW r \in Procs, NEW m \in Matches, AllocateRoom(r, m) PROVE TypeOK'
    BY <1>22 DEF TypeOK, AllocateRoom, Procs, Steps, MatchSteps
  <1>23. ASSUME NEW r \in Procs, NEW p \in Players, GetPlayerTicketID(r, p) PROVE TypeOK'
    BY <1>23 DEF TypeOK, GetPlayerTicketID, Procs, Steps, MatchSteps, RequeueSteps
  <1>24. ASSUME TimeoutExpiredMatchTickets PROVE TypeOK'
    BY <1>24 DEF TypeOK, TimeoutExpiredMatchTickets, Procs, Steps
  <1>25. ASSUME NEW t \in Tickets, TimeoutMatchTicket(t) PROVE TypeOK'
    BY <1>25 DEF TypeOK, TimeoutMatchTicket, Statuses, Unlock
  <1>26. ASSUME ScanAllBuckets PROVE TypeOK'
    BY <1>26, BoundAssumption DEF TypeOK, ScanAllBuckets, Procs, Steps
  <1>27. ASSUME NEW t \in Tickets, Deadline(t) PROVE TypeOK'
    BY <1>27 DEF TypeOK, Deadline
  <1>28. ASSUME NEW p \in Players, LapseLock(p) PROVE TypeOK'
    BY <1>28 DEF TypeOK, LapseLock
  <1>29. ASSUME NEW t \in Tickets, LapseTicket(t) PROVE TypeOK'
    BY <1>29 DEF TypeOK, LapseTicket, Statuses
  <1>29a. ASSUME NEW m \in Matches, LapseResult(m) PROVE TypeOK'
    BY <1>29a DEF TypeOK, LapseResult
  <1>30. ASSUME NEW S, S \subseteq Procs, Restart(S) PROVE TypeOK'
    BY <1>30, BoundAssumption DEF TypeOK, Restart, Procs, Steps
  <1>31. ASSUME UNCHANGED vars PROVE TypeOK'
    BY <1>31 DEF TypeOK, vars
  <1>32. QED
    BY <1>1, <1>2, <1>3, <1>4, <1>5, <1>6, <1>7, <1>8, <1>9, <1>10, <1>11, <1>12, <1>13, <1>14, <1>4a, <1>16, <1>17, <1>18, <1>19, <1>20, <1>21, <1>22, <1>23, <1>24, <1>25, <1>26, <1>27, <1>28, <1>29, <1>29a, <1>30, <1>31
    DEF Next, Arrive, RequestStep, CreateStep, MatchStep, CancelStep,
        WorkerStep, SweepStep, Environment, Shutdown, Crash, Procs

-----------------------------------------------------------------------------
(* Frames: which steps can change which part of the state.                 *)

\* The steps that touch a ticket, a lock or the deadline index: all others
\* leave those keys as they are.
LEMMA TicketFrame ==
  ASSUME [Next]_vars
  PROVE  \/ UNCHANGED <<ticketVars, key, expiry>>
         \/ \E r \in Requests, p \in Players, t \in Tickets :
              CreateMatchTicket(r, p, t)
         \/ \E r \in Requests :
              \/ WriteTicketHash(r) \/ SetTicketTTL(r) \/ IndexDeadline(r)
              \/ RollbackCreate(r) \/ CancelMatchTicket(r)
         \/ \E r \in Procs : CompleteMatch(r)
         \/ \E t \in Tickets : TimeoutMatchTicket(t) \/ LapseTicket(t)
         \/ \E p \in Players : LapseLock(p)
  <1> USE DEF ticketVars, indexVars
  <1>1. ASSUME NEW r \in Requests, Arrive(r)
        PROVE  \/ UNCHANGED <<ticketVars, key, expiry>>
               \/ \E p \in Players, u \in Tickets : CreateMatchTicket(r, p, u)
    BY <1>1 DEF Arrive, ReadTicketToCancel
  <1>2. ASSUME NEW r \in Procs, MatchStep(r), ~CompleteMatch(r)
        PROVE  UNCHANGED <<ticketVars, key, expiry>>
    BY <1>2 DEF MatchStep, SearchAndPickTicketPlayers, PickNobody, AllocateRoom,
         AllocateRoomFails, GetPlayerTicketID, ReadTicketToMatch,
         CompleteMatchFails, ReleaseRoom, ReadTicketToRequeue, RequeuePlayer,
         RequeueReturns
  <1>3. ASSUME NEW r \in Requests, CreateStep(r)
        PROVE  \/ UNCHANGED <<ticketVars, key, expiry>>
               \/ WriteTicketHash(r) \/ SetTicketTTL(r) \/ IndexDeadline(r)
               \/ RollbackCreate(r)
    BY <1>3 DEF CreateStep, AddPlayerToPool, RollbackPool
  <1>4. ASSUME NEW r \in Requests, CancelStep(r), ~CancelMatchTicket(r)
        PROVE  UNCHANGED <<ticketVars, key, expiry>>
    BY <1>4 DEF CancelStep, CancelFails
  <1>5. ASSUME SweepStep
        PROVE  \/ UNCHANGED <<ticketVars, key, expiry>>
               \/ \E t \in Tickets : TimeoutMatchTicket(t)
    BY <1>5 DEF SweepStep, TimeoutExpiredMatchTickets, ScanAllBuckets
  <1>6. ASSUME Environment
        PROVE  \/ UNCHANGED <<ticketVars, key, expiry>>
               \/ \E t \in Tickets : LapseTicket(t)
               \/ \E p \in Players : LapseLock(p)
    BY <1>6 DEF Environment, Deadline, Disconnect, LapseResult, Shutdown,
       Crash, Restart
  <1>7. QED
    BY <1>1, <1>2, <1>3, <1>4, <1>5, <1>6
    DEF Next, RequestStep, WorkerStep, Procs, vars, Arrive, ReadTicketToCancel

\* A goroutine's step is seen by itself alone: for any goroutine s, a step of
\* the system leaves s alone, clears its variables, moves it on with its
\* variables unchanged, or is one of the eight that change them.
Locals(s) == <<own[s], held[s], todo[s], look[s], found[s], match[s]>>

Same(s) == pc'[s] = pc[s] /\ Locals(s)' = Locals(s)

Cleared(s) ==
  /\ pc'[s] \in {"idle", "pick"}
  /\ own'[s] = NoTicket /\ held'[s] = {} /\ todo'[s] = {}
  /\ look'[s] = NoTicket /\ found'[s] = {} /\ match'[s] = NoMatch

Moves(s) ==
  /\ Locals(s)' = Locals(s)
  /\ \/ /\ pc[s] \in CreateSteps
        /\ pc'[s] \in (CreateSteps \ {"hset"}) \cup {"unpool", "pick"}
     \/ pc[s] \in {"getkey", "getticket"} /\ pc'[s] = "release"
     \/ pc[s] = "reqticket" /\ pc'[s] \in {"requeue", "reqkey"}
     \/ pc[s] = "requeue" /\ pc'[s] = "reqkey"
     \/ pc[s] \in {"idle", "sweep"} /\ pc'[s] \in {"sweep", "pick"}

Acts(s) ==
  \/ s \in Requests /\ \E p \in Players, t \in Tickets : CreateMatchTicket(s, p, t)
  \/ s \in Requests /\ \E t \in Tickets : ReadTicketToCancel(s, t)
  \/ SearchAndPickTicketPlayers(s)
  \/ \E m \in Matches : AllocateRoom(s, m)
  \/ AllocateRoomFails(s)
  \/ \E p \in Players : GetPlayerTicketID(s, p)
  \/ ReadTicketToMatch(s)
  \/ ReleaseRoom(s)

\* A goroutine that returns clears its own locals and nobody else's.
LEMMA FinishLocal ==
  ASSUME TypeOK, NEW r \in Procs, Finish(r), NEW s \in Procs
  PROVE  IF s = r THEN Cleared(s) ELSE Same(s)
  BY DEF TypeOK, Finish, Goto, Cleared, Same, Locals

\* What a step of the system does to the locals of one goroutine: nothing, a
\* return or restart, a move to its next command, or one of its own actions.
LEMMA LocalFrame ==
  ASSUME TypeOK, [Next]_vars, NEW s \in Procs
  PROVE  Same(s) \/ Cleared(s) \/ Moves(s) \/ Acts(s)
  <1> USE DEF localVars, Goto, TypeOK
  <1>1. ASSUME NEW r \in Requests, Arrive(r) PROVE Same(s) \/ Acts(s)
    <2>1. CASE \E p \in Players, t \in Tickets : CreateMatchTicket(r, p, t)
      <3>1. CASE s = r
        BY <2>1, <3>1 DEF Acts
      <3>2. CASE s # r
        BY <2>1, <3>2 DEF CreateMatchTicket, Same, Locals
      <3>3. QED BY <3>1, <3>2
    <2>2. CASE \E t \in Tickets : ReadTicketToCancel(r, t)
      <3>1. CASE s = r
        BY <2>2, <3>1 DEF Acts
      <3>2. CASE s # r
        BY <2>2, <3>2 DEF ReadTicketToCancel, Same, Locals
      <3>3. QED BY <3>1, <3>2
    <2>3. QED BY <1>1, <2>1, <2>2 DEF Arrive
  <1>2. ASSUME NEW r \in Requests, CreateStep(r)
        PROVE  Same(s) \/ Cleared(s) \/ Moves(s)
    <2>1. CASE WriteTicketHash(r)
      BY <2>1 DEF WriteTicketHash, Same, Moves, Locals, CreateSteps, Procs
    <2>2. CASE SetTicketTTL(r)
      BY <2>2 DEF SetTicketTTL, Same, Moves, Locals, CreateSteps, Procs
    <2>3. CASE AddPlayerToPool(r)
      BY <2>3 DEF AddPlayerToPool, Same, Moves, Locals, CreateSteps, Procs
    <2>4. CASE IndexDeadline(r)
      BY <2>4 DEF IndexDeadline, Same, Moves, Locals, CreateSteps, Procs
    <2>5. CASE RollbackCreate(r)
      <3>1. CASE pc[r] = "expiry"
        BY <2>5, <3>1 DEF RollbackCreate, Same, Moves, Locals, CreateSteps, Procs
      <3>2. CASE pc[r] # "expiry"
        BY <2>5, <3>2, FinishLocal DEF RollbackCreate, Procs
      <3>3. QED BY <3>1, <3>2
    <2>6. CASE RollbackPool(r)
      BY <2>6, FinishLocal DEF RollbackPool, Procs
    <2>7. QED BY <1>2, <2>1, <2>2, <2>3, <2>4, <2>5, <2>6 DEF CreateStep
  <1>3. ASSUME NEW r \in Procs, MatchStep(r)
        PROVE  Same(s) \/ Cleared(s) \/ Moves(s) \/ Acts(s)
    <2>1. CASE PickNobody(r) \/ CompleteMatch(r) \/ RequeueReturns(r)
      BY <2>1, FinishLocal DEF PickNobody, CompleteMatch, RequeueReturns
    <2>2. CASE CompleteMatchFails(r)
      BY <2>2 DEF CompleteMatchFails, Same, Moves, Locals
    <2>3. CASE ReadTicketToRequeue(r)
      BY <2>3 DEF ReadTicketToRequeue, Same, Moves, Locals
    <2>4. CASE RequeuePlayer(r)
      BY <2>4 DEF RequeuePlayer, Same, Moves, Locals
    <2>5. CASE SearchAndPickTicketPlayers(r)
      BY <2>5 DEF SearchAndPickTicketPlayers, Same, Acts, Locals
    <2>6. CASE \E m \in Matches : AllocateRoom(r, m)
      BY <2>6 DEF AllocateRoom, Same, Acts, Locals
    <2>7. CASE AllocateRoomFails(r)
      BY <2>7 DEF AllocateRoomFails, Same, Acts, Locals
    <2>8. CASE \E p \in Players : GetPlayerTicketID(r, p)
      <3>1. CASE s = r
        BY <2>8, <3>1 DEF Acts
      <3>2. CASE s # r
        BY <2>8, <3>2 DEF GetPlayerTicketID, Same, Locals
      <3>3. QED BY <3>1, <3>2
    <2>9. CASE ReadTicketToMatch(r)
      <3>1. CASE s = r
        BY <2>9, <3>1 DEF Acts
      <3>2. CASE s # r
        BY <2>9, <3>2 DEF ReadTicketToMatch, Same, Locals
      <3>3. QED BY <3>1, <3>2
    <2>10. CASE ReleaseRoom(r)
      BY <2>10 DEF ReleaseRoom, Same, Acts, Locals
    <2>11. QED
      BY <1>3, <2>1, <2>2, <2>3, <2>4, <2>5, <2>6, <2>7, <2>8, <2>9, <2>10
      DEF MatchStep
  <1>4. ASSUME NEW r \in Requests, CancelStep(r) PROVE Same(s) \/ Cleared(s)
    BY <1>4, FinishLocal DEF CancelStep, CancelMatchTicket, CancelFails, Procs
  <1>5. ASSUME SweepStep PROVE Same(s) \/ Moves(s)
    BY <1>5 DEF SweepStep, TimeoutExpiredMatchTickets, TimeoutMatchTicket,
         ScanAllBuckets, Same, Moves, Locals, Procs
  <1>6. ASSUME Environment PROVE Same(s) \/ Cleared(s)
    BY <1>6 DEF Environment, Deadline, Disconnect, LapseLock, LapseTicket, LapseResult,
         Shutdown, Crash, Restart, Same, Cleared, Locals
  <1>7. ASSUME UNCHANGED vars PROVE Same(s)
    BY <1>7 DEF vars, Same, Locals
  <1>8. QED
    BY <1>1, <1>2, <1>3, <1>4, <1>5, <1>6, <1>7
    DEF Next, RequestStep, WorkerStep, Procs

-----------------------------------------------------------------------------
(* The inductive invariant, part by part.                                  *)

\* A ticket's owner never changes.
LEMMA OwnerStable ==
  ASSUME TypeOK, [Next]_vars, NEW t \in Tickets, owner[t] # NoPlayer
  PROVE  owner'[t] = owner[t]
  <1>1. ASSUME NEW r \in Requests, NEW p \in Players, NEW u \in Tickets,
               CreateMatchTicket(r, p, u)
        PROVE  owner'[t] = owner[t]
    BY <1>1 DEF TypeOK, CreateMatchTicket
  <1>2. QED
    BY <1>1, TicketFrame
    DEF ticketVars, WriteTicketHash, SetTicketTTL, IndexDeadline,
        RollbackCreate, CancelMatchTicket, CompleteMatch, TimeoutMatchTicket,
        LapseTicket, LapseLock

\* Every step keeps each goroutine's locals in use exactly at its steps.
LEMMA LocalsInUseStep ==
  ASSUME TypeOK, LocalsInUse, [Next]_vars
  PROVE  LocalsInUse'
  <1> USE DEF CreateSteps, MatchSteps, RequeueSteps, Procs
  <1> SUFFICES ASSUME NEW s \in Procs PROVE InUse(s)'
    BY DEF LocalsInUse
  <1> USE DEF InUse
  <1>1. CASE Same(s)
    BY <1>1 DEF LocalsInUse, Same, Locals
  <1>2. CASE Cleared(s)
    BY <1>2 DEF Cleared
  <1>3. CASE Moves(s)
    BY <1>3 DEF LocalsInUse, Moves, Locals
  <1>4. CASE Acts(s)
    <2> USE DEF TypeOK, LocalsInUse, Goto
    <2>1. ASSUME NEW p \in Players, NEW t \in Tickets, CreateMatchTicket(s, p, t)
          PROVE  InUse(s)'
      BY <2>1, IdAssumption DEF CreateMatchTicket
    <2>2. ASSUME NEW t \in Tickets, ReadTicketToCancel(s, t) PROVE InUse(s)'
      BY <2>2, IdAssumption DEF ReadTicketToCancel
    <2>3. CASE SearchAndPickTicketPlayers(s)
      BY <2>3 DEF SearchAndPickTicketPlayers
    <2>4. ASSUME NEW m \in Matches, AllocateRoom(s, m) PROVE InUse(s)'
      BY <2>4, IdAssumption DEF AllocateRoom
    <2>5. CASE AllocateRoomFails(s)
      BY <2>5 DEF AllocateRoomFails
    <2>6. ASSUME NEW p \in Players, GetPlayerTicketID(s, p) PROVE InUse(s)'
      BY <2>6 DEF GetPlayerTicketID
    <2>7. CASE ReadTicketToMatch(s)
      BY <2>7 DEF ReadTicketToMatch
    <2>8. CASE ReleaseRoom(s)
      BY <2>8 DEF ReleaseRoom
    <2>9. QED
      BY <1>4, <2>1, <2>2, <2>3, <2>4, <2>5, <2>6, <2>7, <2>8 DEF Acts
  <1>5. QED BY <1>1, <1>2, <1>3, <1>4, LocalFrame

\* Every step keeps the tickets that goroutines refer to among those created.
LEMMA RefsCreatedStep ==
  ASSUME TypeOK, LocalsInUse, RefsCreated, LockOnlyForOpenTicket, [Next]_vars
  PROVE  RefsCreated'
  <1>1. ASSUME NEW t \in Tickets, owner'[t] = NoPlayer PROVE status'[t] = "none"
    <2>1. owner[t] = NoPlayer /\ status[t] = "none"
      BY <1>1, OwnerStable DEF RefsCreated
    <2>2. ASSUME NEW r \in Requests, NEW p \in Players, NEW u \in Tickets,
                 CreateMatchTicket(r, p, u)
          PROVE  status'[t] = "none"
      BY <2>1, <2>2 DEF CreateMatchTicket
    <2>3. ASSUME NEW r \in Requests,
                 WriteTicketHash(r) \/ CancelMatchTicket(r) \/ RollbackCreate(r)
          PROVE  status'[t] = "none"
      <3>1. own[r] # NoTicket /\ own[r] # t
        BY <2>1, <2>3 DEF RefsCreated, LocalsInUse, InUse, Procs, CreateSteps,
           WriteTicketHash, CancelMatchTicket, RollbackCreate
      <3>2. QED
        BY <2>1, <2>3, <3>1 DEF TypeOK, WriteTicketHash, CancelMatchTicket,
           RollbackCreate
    <2>4. ASSUME NEW r \in Procs, CompleteMatch(r) PROVE status'[t] = "none"
      BY <2>1, <2>4 DEF CompleteMatch, RefsCreated
    <2>5. ASSUME NEW u \in Tickets, TimeoutMatchTicket(u) \/ LapseTicket(u)
          PROVE  status'[t] = "none"
      BY <2>1, <2>5 DEF TypeOK, TimeoutMatchTicket, LapseTicket
    <2>6. QED
      BY <2>1, <2>2, <2>3, <2>4, <2>5, TicketFrame
      DEF ticketVars, SetTicketTTL, IndexDeadline, LapseLock
  <1>2. ASSUME NEW s \in Procs
        PROVE  /\ own'[s] # NoTicket => owner'[own'[s]] # NoPlayer
               /\ look'[s] # NoTicket => owner'[look'[s]] # NoPlayer
               /\ \A t \in found'[s] : owner'[t] # NoPlayer
    <2> DEFINE Created(t) == owner'[t] # NoPlayer
    <2>1. \A t \in Tickets : owner[t] # NoPlayer => Created(t)
      BY OwnerStable
    <2>2. /\ own[s] # NoTicket => Created(own[s])
          /\ look[s] # NoTicket => Created(look[s])
          /\ \A t \in found[s] : Created(t)
      BY <2>1 DEF RefsCreated, TypeOK
    <2>3. CASE Same(s) \/ Cleared(s) \/ Moves(s)
      BY <2>2, <2>3 DEF Same, Cleared, Moves, Locals
    <2>4. ASSUME NEW p \in Players, NEW t \in Tickets, s \in Requests,
                 CreateMatchTicket(s, p, t)
          PROVE  own'[s] = t /\ Created(t) /\ look' = look /\ found' = found
      BY <2>4, IdAssumption DEF CreateMatchTicket, TypeOK
    <2>5. ASSUME NEW t \in Tickets, ReadTicketToCancel(s, t)
          PROVE  own'[s] = t /\ Created(t) /\ look' = look /\ found' = found
      BY <2>1, <2>5 DEF ReadTicketToCancel, TypeOK, RefsCreated
    <2>6. ASSUME NEW p \in Players, GetPlayerTicketID(s, p)
          PROVE  /\ own' = own /\ found' = found
                 /\ look'[s] # NoTicket => Created(look'[s])
      <3>1. look'[s] = key[p] /\ own' = own /\ found' = found
        BY <2>6 DEF GetPlayerTicketID, TypeOK
      <3>2. key[p] # NoTicket => key[p] \in Tickets /\ owner[key[p]] # NoPlayer
        BY IdAssumption DEF TypeOK, LockOnlyForOpenTicket
      <3>3. QED BY <2>1, <3>1, <3>2
    <2>7. ASSUME ReadTicketToMatch(s)
          PROVE  /\ own' = own /\ look'[s] = NoTicket
                 /\ found'[s] \subseteq found[s] \cup {look[s]}
                 /\ look[s] # NoTicket
      BY <2>7 DEF ReadTicketToMatch, TypeOK, LocalsInUse, InUse
    <2>8. ASSUME \/ SearchAndPickTicketPlayers(s)
                 \/ \E m \in Matches : AllocateRoom(s, m)
                 \/ AllocateRoomFails(s)
          PROVE  own' = own /\ look' = look /\ found' = found
      BY <2>8 DEF SearchAndPickTicketPlayers, AllocateRoom, AllocateRoomFails
    <2>9. ASSUME ReleaseRoom(s)
          PROVE  own' = own /\ look'[s] = NoTicket /\ found'[s] = {}
      BY <2>9 DEF ReleaseRoom, TypeOK
    <2>10. CASE Acts(s)
      BY <2>2, <2>4, <2>5, <2>6, <2>7, <2>8, <2>9, <2>10 DEF Acts
    <2>11. QED BY <2>3, <2>10, LocalFrame
  <1>3. QED BY <1>1, <1>2 DEF RefsCreated

\* No step makes a lock name a finished ticket: SETNX names a fresh one, and
\* whoever ends a ticket deletes its player's lock in the same command.
LEMMA LockStep ==
  ASSUME TypeOK, LocalsInUse, RefsCreated, LockOnlyForOpenTicket, [Next]_vars
  PROVE  LockOnlyForOpenTicket'
  <1> SUFFICES ASSUME NEW p \in Players, NEW t \in Tickets, key'[p] = t
               PROVE  owner'[t] = p /\ status'[t] \in {"none", "queued"}
    BY DEF LockOnlyForOpenTicket
  <1>1. key[p] = t => owner[t] = p /\ status[t] \in {"none", "queued"}
    BY DEF LockOnlyForOpenTicket
  <1>2. key[p] = t => owner'[t] = p
    BY <1>1, OwnerStable, IdAssumption
  <1>3. ASSUME NEW r \in Requests, NEW q \in Players, NEW u \in Tickets,
               CreateMatchTicket(r, q, u)
        PROVE  owner'[t] = p /\ status'[t] \in {"none", "queued"}
    BY <1>1, <1>2, <1>3 DEF CreateMatchTicket, TypeOK, RefsCreated
  <1>4. ASSUME NEW r \in Requests, WriteTicketHash(r) \/ RollbackCreate(r)
        PROVE  owner'[t] = p /\ status'[t] \in {"none", "queued"}
    <2>1. key[p] = t
      BY <1>4, IdAssumption
      DEF WriteTicketHash, RollbackCreate, Unlock, TypeOK, indexVars
    <2>2. status'[t] \in {status[t], "none", "queued"}
      BY <1>4 DEF WriteTicketHash, RollbackCreate, TypeOK
    <2>3. QED BY <1>1, <1>2, <2>1, <2>2
  <1>5. ASSUME NEW r \in Requests, CancelMatchTicket(r)
        PROVE  owner'[t] = p /\ status'[t] \in {"none", "queued"}
    BY <1>1, <1>2, <1>5, IdAssumption DEF CancelMatchTicket, Unlock, TypeOK
  <1>6. ASSUME NEW r \in Procs, CompleteMatch(r)
        PROVE  owner'[t] = p /\ status'[t] \in {"none", "queued"}
    BY <1>1, <1>2, <1>6, IdAssumption DEF CompleteMatch, Unlock, Owners, TypeOK
  <1>7. ASSUME NEW u \in Tickets, TimeoutMatchTicket(u) \/ LapseTicket(u)
        PROVE  owner'[t] = p /\ status'[t] \in {"none", "queued"}
    <2>1. key[p] = t
      BY <1>7, IdAssumption
      DEF TimeoutMatchTicket, LapseTicket, Unlock, TypeOK, indexVars
    <2>2. CASE TimeoutMatchTicket(u)
      BY <1>1, <1>2, <2>1, <2>2, IdAssumption
      DEF TimeoutMatchTicket, Unlock, TypeOK
    <2>3. CASE LapseTicket(u)
      BY <1>1, <1>2, <2>1, <2>3 DEF LapseTicket, TypeOK
    <2>4. QED BY <1>7, <2>2, <2>3
  <1>8. ASSUME NEW q \in Players, LapseLock(q)
        PROVE  owner'[t] = p /\ status'[t] \in {"none", "queued"}
    BY <1>1, <1>2, <1>8, IdAssumption DEF LapseLock, ticketVars, TypeOK
  <1>9. QED
    BY <1>1, <1>2, <1>3, <1>4, <1>5, <1>6, <1>7, <1>8, TicketFrame
    DEF ticketVars, indexVars, SetTicketTTL, IndexDeadline

\* Which steps touch results, rooms and the matches in the making.
LEMMA MatchFrame ==
  ASSUME [Next]_vars
  PROVE  \/ UNCHANGED <<result, reserved>>
         \/ \E r \in Procs, m \in Matches : AllocateRoom(r, m)
         \/ \E r \in Procs : CompleteMatch(r) \/ ReleaseRoom(r)
  <1> USE DEF matchVars
  <1>1. ASSUME NEW r \in Requests, Arrive(r) \/ CreateStep(r) \/ CancelStep(r)
        PROVE  UNCHANGED <<result, reserved>>
    BY <1>1 DEF Arrive, CreateMatchTicket, ReadTicketToCancel, CreateStep,
       WriteTicketHash, SetTicketTTL, AddPlayerToPool, IndexDeadline,
       RollbackCreate, RollbackPool, CancelStep, CancelMatchTicket, CancelFails
  <1>2. ASSUME NEW r \in Procs, MatchStep(r)
        PROVE  \/ UNCHANGED <<result, reserved>>
               \/ \E m \in Matches : AllocateRoom(r, m)
               \/ CompleteMatch(r) \/ ReleaseRoom(r)
    BY <1>2 DEF MatchStep, SearchAndPickTicketPlayers, PickNobody,
       AllocateRoomFails, GetPlayerTicketID, ReadTicketToMatch,
       CompleteMatchFails, ReadTicketToRequeue, RequeuePlayer, RequeueReturns
  <1>3. ASSUME SweepStep PROVE UNCHANGED <<result, reserved>>
    BY <1>3 DEF SweepStep, TimeoutExpiredMatchTickets, TimeoutMatchTicket,
       ScanAllBuckets
  <1>4. ASSUME Environment PROVE UNCHANGED <<result, reserved>>
    BY <1>4 DEF Environment, Deadline, Disconnect, LapseLock, LapseTicket, LapseResult,
       Shutdown, Crash, Restart
  <1>5. QED
    BY <1>1, <1>2, <1>3, <1>4 DEF Next, RequestStep, WorkerStep, Procs, vars

\* A goroutine's match is kept or dropped, or drawn by AllocateRoom.
LEMMA MatchKept ==
  ASSUME TypeOK, [Next]_vars, NEW s \in Procs
  PROVE  \/ match'[s] \in {match[s], NoMatch}
         \/ \E m \in Matches : AllocateRoom(s, m)
  <1>1. CASE Same(s) \/ Cleared(s) \/ Moves(s)
    BY <1>1 DEF Same, Cleared, Moves, Locals
  <1>2. CASE Acts(s)
    BY <1>2 DEF Acts, CreateMatchTicket, ReadTicketToCancel,
       SearchAndPickTicketPlayers, AllocateRoomFails, GetPlayerTicketID,
       ReadTicketToMatch, ReleaseRoom, TypeOK
  <1>3. QED BY <1>1, <1>2, LocalFrame

\* Every step keeps a match in the making with its room, without a result, and
\* with one maker.
LEMMA MatchesInMakingStep ==
  ASSUME TypeOK, MatchesInMaking, LocalsInUse, [Next]_vars
  PROVE  MatchesInMaking'
  <1>1. ASSUME NEW s \in Procs, match'[s] # NoMatch
        PROVE  match'[s] \in reserved' /\ result'[match'[s]] = {}
    <2>1. ASSUME NEW m \in Matches, AllocateRoom(s, m)
          PROVE  match'[s] \in reserved' /\ result'[match'[s]] = {}
      BY <2>1 DEF AllocateRoom, FreshMatch, TypeOK
    <2>2. CASE match'[s] = match[s]
      <3>1. match[s] \in reserved /\ result[match[s]] = {}
        BY <1>1, <2>2 DEF MatchesInMaking
      <3>2. ASSUME NEW r \in Procs, NEW m \in Matches, AllocateRoom(r, m)
            PROVE  match[s] \in reserved' /\ result'[match[s]] = {}
        BY <3>1, <3>2 DEF AllocateRoom
      <3>3. ASSUME NEW r \in Procs, CompleteMatch(r)
            PROVE  match[s] \in reserved' /\ result'[match[s]] = {}
        <4>1. match'[r] = NoMatch /\ match[r] # NoMatch
          BY <3>3 DEF CompleteMatch, Finish, LocalsInUse, InUse, MatchSteps, TypeOK
        <4>2. match[r] # match[s]
          BY <1>1, <2>2, <4>1 DEF MatchesInMaking
        <4>3. QED BY <3>1, <3>3, <4>2 DEF CompleteMatch, TypeOK
      <3>4. ASSUME NEW r \in Procs, ReleaseRoom(r)
            PROVE  match[s] \in reserved' /\ result'[match[s]] = {}
        <4>1. match'[r] = NoMatch /\ match[r] # NoMatch
          BY <3>4 DEF ReleaseRoom, LocalsInUse, InUse, MatchSteps, TypeOK
        <4>2. match[r] # match[s]
          BY <1>1, <2>2, <4>1 DEF MatchesInMaking
        <4>3. QED BY <3>1, <3>4, <4>2 DEF ReleaseRoom, Released
      <3>5. QED
        BY <2>2, <3>1, <3>2, <3>3, <3>4, MatchFrame DEF matchVars
    <2>3. QED BY <1>1, <2>1, <2>2, MatchKept
  <1>2. ASSUME NEW s \in Procs, NEW r \in Procs,
               match'[s] # NoMatch, match'[r] = match'[s]
        PROVE  r = s
    <2>1. ASSUME NEW x \in Procs, NEW y \in Procs, NEW m \in Matches,
                 AllocateRoom(x, m), match'[y] = match'[x]
          PROVE  y = x
      BY <2>1 DEF AllocateRoom, FreshMatch, TypeOK
    <2>2. CASE match'[s] = match[s] /\ match'[r] = match[r]
      BY <1>2, <2>2 DEF MatchesInMaking
    <2>3. QED BY <1>2, <2>1, <2>2, MatchKept
  <1>3. QED BY <1>1, <1>2 DEF MatchesInMaking

\* Two tickets found belong to exactly the two players picked.
LEMMA FoundArePair ==
  ASSUME TypeOK, FoundAmongPicked, NEW r \in Procs, Enough(found[r])
  PROVE  \E p, q \in Players : p # q /\ Owners(found[r]) = {p, q}
  <1>1. PICK a, b \in found[r] : a # b
    BY DEF Enough
  <1>2. owner[a] # owner[b] /\ {owner[a], owner[b]} \subseteq Owners(found[r])
    BY <1>1 DEF FoundAmongPicked, PickedBy, Owners
  <1>3. Owners(found[r]) \subseteq held[r]
    BY DEF FoundAmongPicked, PickedBy
  <1>4. PICK p, q \in Players : p # q /\ held[r] = {p, q}
    BY <1>2, <1>3 DEF FoundAmongPicked, PickedBy
  <1>5. QED BY <1>2, <1>3, <1>4

\* Every step keeps the results about two players with a reserved room.
LEMMA ResultStep ==
  ASSUME TypeOK, LocalsInUse, MatchesInMaking, FoundAmongPicked,
         ResultIsAPairWithRoom, [Next]_vars
  PROVE  ResultIsAPairWithRoom'
  <1> SUFFICES ASSUME NEW m \in Matches, result'[m] # {}
               PROVE  /\ m \in reserved'
                      /\ \E p, q \in Players : p # q /\ result'[m] = {p, q}
    BY DEF ResultIsAPairWithRoom
  <1>1. ASSUME result'[m] = result[m], m \in reserved => m \in reserved'
        PROVE  /\ m \in reserved'
               /\ \E p, q \in Players : p # q /\ result'[m] = {p, q}
    BY <1>1 DEF ResultIsAPairWithRoom
  <1>2. ASSUME NEW r \in Procs, CompleteMatch(r)
        PROVE  /\ m \in reserved'
               /\ \E p, q \in Players : p # q /\ result'[m] = {p, q}
    <2>1. match[r] # NoMatch /\ match[r] \in reserved
      BY <1>2 DEF CompleteMatch, LocalsInUse, InUse, MatchSteps, MatchesInMaking
    <2>2. CASE m = match[r]
      <3>1. result'[m] = Owners(found[r]) /\ Enough(found[r]) /\ m \in reserved'
        BY <1>2, <2>1, <2>2 DEF CompleteMatch, TypeOK
      <3>2. QED BY <3>1, FoundArePair
    <2>3. CASE m # match[r]
      BY <1>1, <1>2, <2>3 DEF CompleteMatch, TypeOK
    <2>4. QED BY <2>2, <2>3
  <1>3. ASSUME NEW r \in Procs, ReleaseRoom(r)
        PROVE  result'[m] = result[m] /\ (m \in reserved => m \in reserved')
    <2>1. match[r] # NoMatch
      BY <1>3 DEF ReleaseRoom, LocalsInUse, InUse, MatchSteps
    <2>2. result[match[r]] = {} /\ result' = result
      BY <1>3, <2>1 DEF ReleaseRoom, MatchesInMaking
    <2>3. QED BY <1>3, <2>2 DEF ReleaseRoom, Released
  <1>4. ASSUME NEW r \in Procs, NEW n \in Matches, AllocateRoom(r, n)
        PROVE  result'[m] = result[m] /\ (m \in reserved => m \in reserved')
    BY <1>4 DEF AllocateRoom
  <1>5. QED BY <1>1, <1>2, <1>3, <1>4, MatchFrame DEF matchVars

\* Every step keeps a matched ticket with a result that names its player.
LEMMA MatchedStep ==
  ASSUME TypeOK, LocalsInUse, RefsCreated, MatchesInMaking, MatchedIsNamed,
         [Next]_vars
  PROVE  MatchedIsNamed'
  <1> DEFINE Good(t) == /\ matchOf'[t] # NoMatch
                        /\ owner'[t] \in result'[matchOf'[t]]
  <1> SUFFICES ASSUME NEW t \in Tickets, status'[t] = "matched" PROVE Good(t)
    BY DEF MatchedIsNamed
  <1>1. ASSUME NEW r \in Procs, CompleteMatch(r) PROVE Good(t)
    <2>1. match[r] # NoMatch /\ match[r] \in Matches /\ result[match[r]] = {}
      BY <1>1 DEF CompleteMatch, LocalsInUse, InUse, MatchSteps,
         MatchesInMaking, TypeOK
    <2>2. CASE t \in found[r]
      <3>1. owner[t] \in Owners(found[r])
        BY <2>2 DEF Owners
      <3>2. matchOf'[t] = match[r] /\ result'[match[r]] = Owners(found[r])
            /\ owner' = owner
        BY <1>1, <2>1, <2>2 DEF CompleteMatch, TypeOK
      <3>3. QED BY <2>1, <3>1, <3>2
    <2>3. CASE t \notin found[r]
      <3>1. status[t] = "matched" /\ matchOf'[t] = matchOf[t] /\ owner' = owner
        BY <1>1, <2>3 DEF CompleteMatch
      <3>2. matchOf[t] # NoMatch /\ owner[t] \in result[matchOf[t]]
        BY <3>1 DEF MatchedIsNamed
      <3>3. matchOf[t] \in Matches /\ matchOf[t] # match[r]
        BY <2>1, <3>2 DEF TypeOK
      <3>4. result'[matchOf[t]] = result[matchOf[t]]
        BY <1>1, <3>3 DEF CompleteMatch, TypeOK
      <3>5. QED BY <3>1, <3>2, <3>4
    <2>4. QED BY <2>2, <2>3
  <1>2. CASE \A r \in Procs : ~CompleteMatch(r)
    <2>1. result' = result
      BY <1>2, MatchFrame DEF matchVars, AllocateRoom, ReleaseRoom
    <2>2. status[t] = "matched" /\ matchOf'[t] = matchOf[t]
      <3>1. ASSUME NEW r \in Requests, WriteTicketHash(r) \/ RollbackCreate(r)
            PROVE  status[t] = "matched" /\ matchOf'[t] = matchOf[t]
        BY <3>1 DEF WriteTicketHash, RollbackCreate, TypeOK
      <3>2. ASSUME NEW r \in Requests, CancelMatchTicket(r)
            PROVE  status[t] = "matched" /\ matchOf'[t] = matchOf[t]
        BY <3>2 DEF CancelMatchTicket, TypeOK
      <3>3. ASSUME NEW u \in Tickets, TimeoutMatchTicket(u)
            PROVE  status[t] = "matched" /\ matchOf'[t] = matchOf[t]
        BY <3>3 DEF TimeoutMatchTicket, TypeOK
      <3>4. ASSUME NEW u \in Tickets, LapseTicket(u)
            PROVE  status[t] = "matched" /\ matchOf'[t] = matchOf[t]
        BY <3>4 DEF LapseTicket, TypeOK
      <3>5. QED
        BY <1>2, <3>1, <3>2, <3>3, <3>4, TicketFrame
        DEF ticketVars, CreateMatchTicket, SetTicketTTL, IndexDeadline, LapseLock
    <2>3. owner'[t] = owner[t]
      BY <2>2, OwnerStable DEF RefsCreated
    <2>4. QED BY <2>1, <2>2, <2>3 DEF MatchedIsNamed
  <1>3. QED BY <1>1, <1>2

\* Every step keeps the tickets found by CompleteMatch among the players picked.
LEMMA FoundAmongPickedStep ==
  ASSUME TypeOK, LocalsInUse, RefsCreated, LockOnlyForOpenTicket,
         FoundAmongPicked, [Next]_vars
  PROVE  FoundAmongPicked'
  <1> SUFFICES ASSUME NEW s \in Procs PROVE PickedBy(s)'
    BY DEF FoundAmongPicked
  <1>1. PickedBy(s) /\ InUse(s)
    BY DEF FoundAmongPicked, LocalsInUse
  <1>2. \A t \in found[s] : owner'[t] = owner[t]
    BY OwnerStable DEF RefsCreated, TypeOK
  <1>3. look[s] # NoTicket => owner'[look[s]] = owner[look[s]]
    BY OwnerStable DEF RefsCreated, TypeOK
  <1>4. CASE Cleared(s)
    BY <1>4 DEF Cleared, PickedBy, Owners
  <1>5. ASSUME held'[s] = held[s], todo'[s] = todo[s], look'[s] = look[s],
               found'[s] = found[s],
               pc'[s] = "getticket" => pc[s] = "getticket"
        PROVE  PickedBy(s)'
    <2>1. Owners(found[s])' = Owners(found[s])
      BY <1>2, <1>5 DEF Owners
    <2>2. pc[s] = "getticket" => owner'[look[s]] = owner[look[s]]
      BY <1>1, <1>3 DEF InUse
    <2>3. QED BY <1>1, <1>2, <1>5, <2>1, <2>2 DEF PickedBy
  <1>6. CASE Same(s) \/ Moves(s)
    BY <1>5, <1>6 DEF Same, Moves, Locals, CreateSteps
  <1>7. CASE Acts(s)
    <2>1. ASSUME NEW p \in Players, NEW t \in Tickets, CreateMatchTicket(s, p, t)
          PROVE  PickedBy(s)'
      BY <1>5, <2>1 DEF CreateMatchTicket, Goto, TypeOK
    <2>2. ASSUME NEW t \in Tickets, ReadTicketToCancel(s, t) PROVE PickedBy(s)'
      BY <1>5, <2>2 DEF ReadTicketToCancel, Goto, TypeOK
    <2>3. ASSUME SearchAndPickTicketPlayers(s) PROVE PickedBy(s)'
      <3>1. found[s] = {} /\ todo[s] = {}
        BY <1>1, <2>3 DEF InUse, SearchAndPickTicketPlayers, MatchSteps,
           RequeueSteps
      <3>2. /\ found'[s] = {} /\ todo'[s] = {} /\ pc'[s] = "alloc"
            /\ \E p, q \in Players : p # q /\ held'[s] = {p, q}
        BY <2>3, <3>1 DEF SearchAndPickTicketPlayers, Goto, TypeOK
      <3>3. QED BY <3>2 DEF PickedBy, Owners
    <2>4. ASSUME \/ \E m \in Matches : AllocateRoom(s, m)
                 \/ AllocateRoomFails(s)
                 \/ ReleaseRoom(s)
          PROVE  PickedBy(s)'
      <3>1. /\ held'[s] = held[s] /\ todo'[s] = held[s]
            /\ pc'[s] # "getticket"
        BY <2>4 DEF AllocateRoom, AllocateRoomFails, ReleaseRoom, Goto, TypeOK
      <3>2. found'[s] = {}
        BY <1>1, <2>4 DEF InUse, AllocateRoom, AllocateRoomFails, ReleaseRoom,
           MatchSteps, TypeOK
      <3>3. QED BY <1>1, <3>1, <3>2 DEF PickedBy, Owners
    <2>5. ASSUME NEW p \in Players, GetPlayerTicketID(s, p) PROVE PickedBy(s)'
      <3>1. /\ held'[s] = held[s] /\ found'[s] = found[s] /\ p \in todo[s]
            /\ todo'[s] = todo[s] \ {p} /\ look'[s] = key[p]
            /\ pc'[s] = "getticket" => key[p] # NoTicket
            /\ owner' = owner
        BY <2>5 DEF GetPlayerTicketID, Goto, TypeOK, ticketVars
      <3>2. key[p] # NoTicket => owner[key[p]] = p
        BY DEF TypeOK, LockOnlyForOpenTicket
      <3>3. Owners(found[s])' = Owners(found[s])
        BY <3>1 DEF Owners
      <3>4. QED BY <1>1, <3>1, <3>2, <3>3 DEF PickedBy
    <2>6. ASSUME ReadTicketToMatch(s) PROVE PickedBy(s)'
      <3>1. /\ held'[s] = held[s] /\ todo'[s] = todo[s] /\ pc'[s] = "getkey"
            /\ found'[s] = found[s] \/ found'[s] = found[s] \cup {look[s]}
            /\ owner' = owner
        BY <2>6 DEF ReadTicketToMatch, Goto, TypeOK, ticketVars
      <3>2. owner[look[s]] \in held[s] \ (todo[s] \cup Owners(found[s]))
        BY <1>1, <2>6 DEF ReadTicketToMatch, PickedBy
      <3>3. CASE found'[s] = found[s]
        <4>1. Owners(found[s])' = Owners(found[s])
          BY <3>1, <3>3 DEF Owners
        <4>2. QED BY <1>1, <3>1, <3>3, <4>1 DEF PickedBy
      <3>4. CASE found'[s] = found[s] \cup {look[s]}
        <4>1. Owners(found[s])' = Owners(found[s]) \cup {owner[look[s]]}
          BY <3>1, <3>4 DEF Owners
        <4>2. \A t \in found[s] : owner[t] # owner[look[s]]
          BY <3>2 DEF Owners
        <4>3. QED BY <1>1, <3>1, <3>2, <3>4, <4>1, <4>2 DEF PickedBy
      <3>5. QED BY <3>1, <3>3, <3>4
    <2>7. QED BY <1>7, <2>1, <2>2, <2>3, <2>4, <2>5, <2>6 DEF Acts
  <1>8. QED BY <1>4, <1>6, <1>7, LocalFrame

\* No step lets a second goroutine learn of a ticket whose hash is not written.
LEMMA UnwrittenIsPrivateStep ==
  ASSUME TypeOK, LocalsInUse, RefsCreated, UnwrittenIsPrivate, [Next]_vars
  PROVE  UnwrittenIsPrivate'
  <1> SUFFICES ASSUME NEW r \in Requests, pc'[r] = "hset"
               PROVE  /\ status'[own'[r]] = "none"
                      /\ \A s \in Procs : /\ own'[r] \notin found'[s]
                                          /\ own'[s] = own'[r] => s = r
    BY DEF UnwrittenIsPrivate
  <1> r \in Procs
    BY DEF Procs
  <1>1. ASSUME NEW p \in Players, NEW t \in Tickets, CreateMatchTicket(r, p, t)
        PROVE  /\ status'[own'[r]] = "none"
               /\ \A s \in Procs : /\ own'[r] \notin found'[s]
                                   /\ own'[s] = own'[r] => s = r
    <2>1. /\ own'[r] = t /\ \A s \in Procs \ {r} : own'[s] = own[s]
          /\ status' = status /\ found' = found /\ owner[t] = NoPlayer
      BY <1>1 DEF CreateMatchTicket, TypeOK
    <2>2. QED BY <2>1, IdAssumption DEF RefsCreated, TypeOK
  <1>2. ASSUME pc[r] = "hset", own'[r] = own[r]
        PROVE  /\ status'[own'[r]] = "none"
               /\ \A s \in Procs : /\ own'[r] \notin found'[s]
                                   /\ own'[s] = own'[r] => s = r
    <2> DEFINE u == own[r]
    <2>1. /\ u \in Tickets /\ status[u] = "none" /\ owner[u] # NoPlayer
          /\ \A s \in Procs : u \notin found[s] /\ (own[s] = u => s = r)
      BY <1>2 DEF UnwrittenIsPrivate, TypeOK, LocalsInUse, InUse, CreateSteps,
         RefsCreated
    <2>2. status'[u] = "none"
      <3>1. ASSUME NEW s \in Requests, WriteTicketHash(s) PROVE s # r
        BY <3>1 DEF WriteTicketHash, Goto, TypeOK
      <3>2. ASSUME NEW s \in Requests,
                   WriteTicketHash(s) \/ CancelMatchTicket(s)
            PROVE  status'[u] = "none"
        BY <1>2, <2>1, <3>1, <3>2
        DEF WriteTicketHash, CancelMatchTicket, TypeOK, Procs
      <3>3. ASSUME NEW s \in Requests, RollbackCreate(s)
            PROVE  status'[u] = "none"
        BY <2>1, <3>3 DEF RollbackCreate, TypeOK
      <3>4. ASSUME NEW s \in Procs, CompleteMatch(s)
            PROVE  status'[u] = "none"
        BY <2>1, <3>4 DEF CompleteMatch
      <3>5. ASSUME NEW t \in Tickets, TimeoutMatchTicket(t) \/ LapseTicket(t)
            PROVE  status'[u] = "none"
        BY <2>1, <3>5 DEF TimeoutMatchTicket, LapseTicket, TypeOK
      <3>6. QED
        BY <2>1, <3>2, <3>3, <3>4, <3>5, TicketFrame
        DEF ticketVars, CreateMatchTicket, SetTicketTTL, IndexDeadline, LapseLock
    <2>3. ASSUME NEW s \in Procs
          PROVE  u \notin found'[s] /\ (own'[s] = u => s = r)
      <3>1. CASE Same(s) \/ Cleared(s) \/ Moves(s)
        BY <2>1, <3>1, IdAssumption DEF Same, Cleared, Moves, Locals
      <3>2. ASSUME NEW p \in Players, NEW t \in Tickets,
                   CreateMatchTicket(s, p, t)
            PROVE  found' = found /\ own'[s] # u
        BY <2>1, <3>2 DEF CreateMatchTicket, TypeOK
      <3>3. ASSUME NEW t \in Tickets, ReadTicketToCancel(s, t)
            PROVE  found' = found /\ own'[s] # u
        BY <2>1, <3>3 DEF ReadTicketToCancel, TypeOK
      <3>4. ASSUME ReadTicketToMatch(s)
            PROVE  u \notin found'[s] /\ own' = own
        BY <2>1, <3>4 DEF ReadTicketToMatch, TypeOK
      <3>5. ASSUME ReleaseRoom(s)
            PROVE  found'[s] = {} /\ own' = own
        BY <3>5 DEF ReleaseRoom, TypeOK
      <3>6. CASE Acts(s)
        BY <2>1, <3>2, <3>3, <3>4, <3>5, <3>6
        DEF Acts, SearchAndPickTicketPlayers, AllocateRoom, AllocateRoomFails,
            GetPlayerTicketID
      <3>7. QED BY <3>1, <3>6, LocalFrame
    <2>4. QED BY <1>2, <2>2, <2>3
  <1>3. \/ pc[r] = "hset" /\ own'[r] = own[r]
        \/ \E p \in Players, t \in Tickets : CreateMatchTicket(r, p, t)
    <2>1. CASE Same(r)
      BY <2>1 DEF Same, Locals
    <2>2. CASE Cleared(r)
      BY <2>2 DEF Cleared
    <2>3. CASE Moves(r)
      BY <2>3 DEF Moves, Locals, CreateSteps
    <2>4. CASE Acts(r)
      BY <2>4 DEF Acts, Goto, TypeOK, ReadTicketToCancel, ReleaseRoom,
         SearchAndPickTicketPlayers, AllocateRoom, AllocateRoomFails,
         GetPlayerTicketID, ReadTicketToMatch
    <2>5. QED BY <2>1, <2>2, <2>3, <2>4, LocalFrame
  <1>4. QED BY <1>1, <1>2, <1>3

-----------------------------------------------------------------------------
(* The theorems.                                                           *)

\* The empty store and idle goroutines satisfy the inductive invariant.
LEMMA IndInvInit == Init => IndInv
  <1> SUFFICES ASSUME Init PROVE IndInv
    OBVIOUS
  <1> USE IdAssumption DEF Init
  <1>1. TypeOK
    BY BoundAssumption DEF TypeOK, Statuses, Steps
  <1>2. LockOnlyForOpenTicket /\ MatchedIsNamed /\ ResultIsAPairWithRoom
    BY DEF LockOnlyForOpenTicket, MatchedIsNamed, ResultIsAPairWithRoom
  <1>3. RefsCreated /\ MatchesInMaking
    BY DEF RefsCreated, MatchesInMaking
  <1>4. LocalsInUse
    BY DEF LocalsInUse, InUse, CreateSteps, MatchSteps, RequeueSteps
  <1>5. FoundAmongPicked
    BY DEF FoundAmongPicked, PickedBy, Owners
  <1>6. UnwrittenIsPrivate
    BY DEF UnwrittenIsPrivate, Procs
  <1>7. QED BY <1>1, <1>2, <1>3, <1>4, <1>5, <1>6 DEF IndInv

\* Every step preserves the inductive invariant.
LEMMA IndInvStep == IndInv /\ [Next]_vars => IndInv'
  BY TypeStep, LocalsInUseStep, RefsCreatedStep, LockStep, MatchesInMakingStep,
     ResultStep, MatchedStep, FoundAmongPickedStep,
     UnwrittenIsPrivateStep DEF IndInv

\* The inductive invariant holds in every reachable state of the ticket keys and
\* the goroutines, for any constants and any environment.
THEOREM Inductive == Spec => []IndInv
  BY IndInvInit, IndInvStep, PTL DEF Spec

\* The state keeps its types in every environment.
THEOREM TypeCorrect == Spec => []TypeOK
  <1>1. IndInv => TypeOK
    BY DEF IndInv
  <1>2. QED BY <1>1, Inductive, PTL

\* No finished ticket holds its player's lock (the DELs of CancelMatchTicket,
\* CompleteMatch and the time-out script), in every environment.
THEOREM LocksAreForOpenTickets == Spec => []LockOnlyForOpenTicket
  <1>1. IndInv => LockOnlyForOpenTicket
    BY DEF IndInv
  <1>2. QED BY <1>1, Inductive, PTL

\* A result is about two different players and its room is still reserved
\* (completePickedPlayers).
THEOREM ResultsArePairsWithRooms == Spec => []ResultIsAPairWithRoom
  <1>1. IndInv => ResultIsAPairWithRoom
    BY DEF IndInv
  <1>2. QED BY <1>1, Inductive, PTL

\* A ticket is queued by nothing but its own creation.
LEMMA QueuedByCreation ==
  ASSUME TypeOK, [Next]_vars, NEW t \in Tickets,
         status[t] # "queued", ~Creating(t)
  PROVE  status'[t] # "queued"
  <1>1. ASSUME NEW r \in Requests, WriteTicketHash(r)
        PROVE  status'[t] # "queued"
    BY <1>1 DEF WriteTicketHash, Creating, CreateSteps, TypeOK
  <1>2. ASSUME NEW r \in Requests, CancelMatchTicket(r) \/ RollbackCreate(r)
        PROVE  status'[t] # "queued"
    BY <1>2 DEF CancelMatchTicket, RollbackCreate, TypeOK
  <1>3. ASSUME NEW r \in Procs, CompleteMatch(r) PROVE status'[t] # "queued"
    BY <1>3 DEF CompleteMatch
  <1>4. ASSUME NEW u \in Tickets, TimeoutMatchTicket(u) \/ LapseTicket(u)
        PROVE  status'[t] # "queued"
    BY <1>4 DEF TimeoutMatchTicket, LapseTicket, TypeOK
  <1>5. QED
    BY <1>1, <1>2, <1>3, <1>4, TicketFrame
    DEF ticketVars, CreateMatchTicket, SetTicketTTL, IndexDeadline, LapseLock

\* A ticket that left the queue, or was rolled back, is never queued again.
THEOREM NoTicketResurrected == Spec => NoResurrection
  <1>1. TypeOK /\ [Next]_vars
          => [\A t \in Tickets :
                status[t] # "queued" /\ owner[t] # NoPlayer /\ ~Creating(t)
                  => status'[t] # "queued"]_vars
    BY QueuedByCreation
  <1>2. QED BY <1>1, TypeCorrect, PTL DEF Spec, NoResurrection

-----------------------------------------------------------------------------
(* What is left of matching in every environment.                          *)

\* A hash that is not there names no match, and only tickets that were taken
\* have a deadline.
HashesInv ==
  /\ \A t \in Tickets : status[t] = "none" => matchOf[t] = NoMatch
  /\ \A t \in due : owner[t] # NoPlayer

\* Every step keeps the absent hashes out of matches and the deadlines of taken
\* tickets.
LEMMA HashesStep ==
  ASSUME TypeOK, LocalsInUse, RefsCreated, HashesInv, [Next]_vars
  PROVE  HashesInv'
  <1>1. ASSUME NEW t \in Tickets, status'[t] = "none"
        PROVE  matchOf'[t] = NoMatch
    <2>1. CASE UNCHANGED <<status, matchOf>>
      BY <1>1, <2>1 DEF HashesInv
    <2>2. ASSUME NEW r \in Requests,
                 WriteTicketHash(r) \/ CancelMatchTicket(r) \/ RollbackCreate(r)
          PROVE  matchOf'[t] = NoMatch
      BY <1>1, <2>2 DEF WriteTicketHash, CancelMatchTicket, RollbackCreate, HashesInv,
                        TypeOK
    <2>3. ASSUME NEW r \in Procs, CompleteMatch(r)
          PROVE  matchOf'[t] = NoMatch
      BY <1>1, <2>3 DEF CompleteMatch, HashesInv
    <2>4. ASSUME NEW u \in Tickets, TimeoutMatchTicket(u) \/ LapseTicket(u)
          PROVE  matchOf'[t] = NoMatch
      BY <1>1, <2>4 DEF TimeoutMatchTicket, LapseTicket, HashesInv, TypeOK
    <2>5. QED
      BY <2>1, <2>2, <2>3, <2>4, TicketFrame
         DEF ticketVars, CreateMatchTicket, SetTicketTTL, IndexDeadline, LapseLock
  <1>2. ASSUME NEW t \in due'
        PROVE  owner'[t] # NoPlayer
    <2>1. due' = due \/ \E u \in Tickets : Deadline(u)
      <3>1. ASSUME NEW r \in Requests, Arrive(r) \/ RequestStep(r)
            PROVE  due' = due
        <4>1. Arrive(r) => due' = due
          BY DEF Arrive, CreateMatchTicket, ReadTicketToCancel, envVars
        <4>2. CreateStep(r) => due' = due
          BY DEF CreateStep, WriteTicketHash, SetTicketTTL, AddPlayerToPool,
                 IndexDeadline, RollbackCreate, RollbackPool, envVars
        <4>3. CancelStep(r) => due' = due
          BY DEF CancelStep, CancelMatchTicket, CancelFails
        <4>4. MatchStep(r) => due' = due
          BY DEF MatchStep, SearchAndPickTicketPlayers, PickNobody, AllocateRoom,
                 AllocateRoomFails, GetPlayerTicketID, ReadTicketToMatch, CompleteMatch,
                 CompleteMatchFails, ReleaseRoom, ReadTicketToRequeue, RequeuePlayer,
                 RequeueReturns, envVars
        <4>5. QED BY <3>1, <4>1, <4>2, <4>3, <4>4 DEF RequestStep
      <3>2. WorkerStep => due' = due
        BY DEF WorkerStep, SweepStep, TimeoutExpiredMatchTickets, TimeoutMatchTicket,
               ScanAllBuckets, MatchStep, SearchAndPickTicketPlayers, PickNobody,
               AllocateRoom, AllocateRoomFails, GetPlayerTicketID, ReadTicketToMatch,
               CompleteMatch, CompleteMatchFails, ReleaseRoom, ReadTicketToRequeue,
               RequeuePlayer, RequeueReturns, envVars
      <3>3. Environment => due' = due \/ \E u \in Tickets : Deadline(u)
        BY DEF Environment, Disconnect, LapseLock, LapseTicket, LapseResult, Shutdown,
               Crash, Restart,
               envVars
      <3>4. UNCHANGED vars => due' = due
        BY DEF vars, envVars
      <3>5. QED BY <3>1, <3>2, <3>3, <3>4 DEF Next
    <2>2. t \in Tickets /\ owner[t] # NoPlayer
      BY <1>2, <2>1 DEF Deadline, HashesInv, TypeOK
    <2>3. QED BY <2>2, OwnerStable DEF TypeOK
  <1>3. QED BY <1>1, <1>2 DEF HashesInv

\* A ticket that has been taken is never created again.
LEMMA CreatedOnce ==
  ASSUME TypeOK, [Next]_vars,
         NEW t \in Tickets, owner[t] # NoPlayer, ~Creating(t)
  PROVE  ~Creating(t)'
  <1>1. ASSUME NEW r \in Requests, own'[r] = t, pc'[r] \in CreateSteps
        PROVE  FALSE
    <2>1. ~(own[r] = t /\ pc[r] \in CreateSteps)
      BY DEF Creating
    <2>2. CASE Same(r) \/ Cleared(r) \/ Moves(r)
      BY <1>1, <2>1, <2>2, IdAssumption
      DEF Same, Cleared, Moves, Locals, CreateSteps
    <2>3. CASE Acts(r)
      BY <1>1, <2>3
      DEF Acts, CreateMatchTicket, ReadTicketToCancel, SearchAndPickTicketPlayers,
          AllocateRoom, AllocateRoomFails, GetPlayerTicketID, ReadTicketToMatch,
          ReleaseRoom, Goto, TypeOK, CreateSteps, Procs
    <2>4. r \in Procs
      BY DEF Procs
    <2>5. QED BY <2>2, <2>3, <2>4, LocalFrame
  <1>2. QED BY <1>1 DEF Creating

\* Results are dropped by their TTL only.
LEMMA DroppedFrame ==
  ASSUME [Next]_vars
  PROVE  dropped' = dropped \/ \E m \in Matches : LapseResult(m)
  <1> USE DEF matchVars
  <1>1. ASSUME NEW r \in Requests, Arrive(r) \/ CreateStep(r) \/ CancelStep(r)
        PROVE  dropped' = dropped
    BY <1>1 DEF Arrive, CreateMatchTicket, ReadTicketToCancel, CreateStep,
       WriteTicketHash, SetTicketTTL, AddPlayerToPool, IndexDeadline,
       RollbackCreate, RollbackPool, CancelStep, CancelMatchTicket, CancelFails
  <1>2. ASSUME NEW r \in Procs, MatchStep(r) PROVE dropped' = dropped
    BY <1>2 DEF MatchStep, SearchAndPickTicketPlayers, PickNobody, AllocateRoom,
       AllocateRoomFails, GetPlayerTicketID, ReadTicketToMatch, CompleteMatch,
       CompleteMatchFails, ReleaseRoom, ReadTicketToRequeue, RequeuePlayer,
       RequeueReturns
  <1>3. ASSUME SweepStep PROVE dropped' = dropped
    BY <1>3 DEF SweepStep, TimeoutExpiredMatchTickets, TimeoutMatchTicket,
       ScanAllBuckets
  <1>4. ASSUME Environment
        PROVE  dropped' = dropped \/ \E m \in Matches : LapseResult(m)
    BY <1>4 DEF Environment, Deadline, Disconnect, LapseLock, LapseTicket,
       Shutdown, Crash, Restart
  <1>5. QED
    BY <1>1, <1>2, <1>3, <1>4 DEF Next, RequestStep, WorkerStep, Procs, vars

\* Every step keeps the dropped results named by no ticket that lives shorter.
LEMMA DroppedStep ==
  ASSUME TypeOK, LocalsInUse, RefsCreated, MatchesInMaking, HashesInv,
         DroppedLate, [Next]_vars
  PROVE  DroppedLate'
  <1>1. ASSUME NEW m \in Matches, LapseResult(m) PROVE DroppedLate'
    <2>1. /\ dropped' = dropped \cup {m} /\ result[m] # {} /\ result' = result
          /\ matchOf' = matchOf /\ volatile' = volatile
          /\ pc' = pc /\ own' = own
      BY <1>1 DEF LapseResult, ticketVars, localVars
    <2>2. \A n \in dropped' : result'[n] # {}
      BY <2>1 DEF DroppedLate
    <2>3. ASSUME NEW t \in Tickets, matchOf[t] \in dropped \cup {m}
          PROVE  ~Creating(t) /\ (t \in volatile => "longwait" \in Env)
      BY <1>1, <2>3 DEF LapseResult, DroppedLate, OutlivesResult
    <2>4. QED BY <2>1, <2>2, <2>3 DEF DroppedLate, OutlivesResult, Creating
  <1>2. ASSUME dropped' = dropped PROVE DroppedLate'
    <2>1. ASSUME NEW m \in dropped PROVE result'[m] # {}
      <3>1. result[m] # {} /\ m \in Matches
        BY <2>1 DEF DroppedLate, TypeOK
      <3>2. ASSUME NEW r \in Procs, CompleteMatch(r) PROVE result'[m] # {}
        <4>1. match[r] # NoMatch
          BY <3>2 DEF CompleteMatch, LocalsInUse, InUse, MatchSteps
        <4>2. match[r] # m
          BY <3>1, <4>1 DEF MatchesInMaking
        <4>3. QED BY <3>1, <3>2, <4>2 DEF CompleteMatch, TypeOK
      <3>3. QED BY <3>1, <3>2, MatchFrame DEF AllocateRoom, ReleaseRoom
    <2>2. ASSUME NEW t \in Tickets, matchOf'[t] \in dropped
          PROVE  matchOf'[t] = matchOf[t]
      <3>1. ASSUME NEW r \in Procs, CompleteMatch(r)
            PROVE  matchOf'[t] = matchOf[t]
        <4>1. match[r] # NoMatch
          BY <3>1 DEF CompleteMatch, LocalsInUse, InUse, MatchSteps
        <4>2. match[r] \notin dropped
          BY <4>1 DEF MatchesInMaking, DroppedLate
        <4>3. QED BY <2>2, <3>1, <4>2 DEF CompleteMatch
      <3>2. NoMatch \notin dropped
        BY IdAssumption DEF TypeOK
      <3>3. ASSUME NEW r \in Requests,
                   RollbackCreate(r) \/ WriteTicketHash(r) \/ CancelMatchTicket(r)
            PROVE  matchOf'[t] = matchOf[t]
        BY <2>2, <3>2, <3>3
        DEF RollbackCreate, WriteTicketHash, CancelMatchTicket, TypeOK
      <3>4. ASSUME NEW u \in Tickets, TimeoutMatchTicket(u) \/ LapseTicket(u)
            PROVE  matchOf'[t] = matchOf[t]
        BY <2>2, <3>2, <3>4 DEF TimeoutMatchTicket, LapseTicket, TypeOK
      <3>5. QED
        BY <3>1, <3>3, <3>4, TicketFrame
        DEF ticketVars, CreateMatchTicket, SetTicketTTL, IndexDeadline, LapseLock
    <2>3. ASSUME NEW t \in Tickets, matchOf'[t] \in dropped
          PROVE  ~Creating(t)' /\ (t \in volatile' => "longwait" \in Env)
      <3>1. /\ matchOf[t] \in dropped /\ matchOf[t] # NoMatch
            /\ ~Creating(t) /\ (t \in volatile => "longwait" \in Env)
        BY <2>2, <2>3, IdAssumption DEF DroppedLate, OutlivesResult, TypeOK
      <3>2. owner[t] # NoPlayer
        BY <3>1 DEF HashesInv, RefsCreated
      <3>3. ~Creating(t)'
        BY <3>1, <3>2, CreatedOnce
      <3>4. t \in volatile' => t \in volatile
        <4>1. ASSUME NEW r \in Requests, SetTicketTTL(r)
              PROVE  t \in volatile' => t \in volatile
          BY <3>1, <4>1 DEF SetTicketTTL, Creating, CreateSteps
        <4>2. ASSUME NEW r \in Requests, RollbackCreate(r)
              PROVE  t \in volatile' => t \in volatile
          BY <4>2 DEF RollbackCreate
        <4>3. QED
          BY <4>1, <4>2, TicketFrame
          DEF ticketVars, CreateMatchTicket, WriteTicketHash, IndexDeadline,
              CancelMatchTicket, CompleteMatch, TimeoutMatchTicket, LapseTicket,
              LapseLock
      <3>5. QED BY <3>1, <3>3, <3>4
    <2>4. QED BY <1>2, <2>1, <2>3 DEF DroppedLate, OutlivesResult
  <1>3. QED BY <1>1, <1>2, DroppedFrame

\* Every step keeps the tickets of a match of its result's players, one of each.
LEMMA PairedOnceStep ==
  ASSUME TypeOK, LocalsInUse, RefsCreated, MatchesInMaking, FoundAmongPicked,
         HashesInv, PairedOnce, [Next]_vars
  PROVE  PairedOnce'
  <1>1. ASSUME NEW t \in Tickets, matchOf[t] # NoMatch
        PROVE  owner'[t] = owner[t]
    BY <1>1, OwnerStable DEF HashesInv, RefsCreated
  <1>2. ASSUME NEW r \in Procs, CompleteMatch(r)
        PROVE  PairedOnce'
    <2> DEFINE m == match[r]
    <2>1. /\ m # NoMatch /\ m \in Matches /\ result[m] = {}
          /\ found[r] \subseteq Tickets
      BY <1>2 DEF CompleteMatch, LocalsInUse, InUse, MatchSteps, MatchesInMaking, TypeOK
    <2>2. /\ owner' = owner
          /\ \A t \in Tickets : matchOf'[t] = IF t \in found[r] THEN m ELSE matchOf[t]
          /\ result' = [result EXCEPT ![m] = Owners(found[r])]
      BY <1>2 DEF CompleteMatch, TypeOK
    <2> HIDE DEF m
    <2>3. ASSUME NEW t \in Tickets, matchOf[t] # NoMatch
          PROVE  /\ matchOf[t] # m /\ matchOf[t] \in Matches
                 /\ owner[t] \in result[matchOf[t]]
      BY <2>1, <2>3 DEF PairedOnce, TypeOK
    <2>4. ASSUME NEW t \in Tickets, matchOf'[t] # NoMatch
          PROVE  owner'[t] \in result'[matchOf'[t]]
      <3>1. CASE t \in found[r]
        <4>1. owner[t] \in Owners(found[r])
          BY <3>1 DEF Owners
        <4>2. QED BY <2>1, <2>2, <3>1, <4>1 DEF TypeOK
      <3>2. CASE t \notin found[r]
        BY <2>2, <2>3, <2>4, <3>2 DEF TypeOK
      <3>3. QED BY <3>1, <3>2
    <2>5. ASSUME NEW t \in Tickets, NEW u \in Tickets, matchOf'[t] # NoMatch,
                 matchOf'[u] = matchOf'[t], owner'[u] = owner'[t]
          PROVE  u = t
      <3>1. CASE t \in found[r] /\ u \in found[r]
        BY <2>2, <2>5, <3>1 DEF FoundAmongPicked, PickedBy
      <3>2. CASE t \notin found[r] /\ u \notin found[r]
        BY <2>2, <2>5, <3>2 DEF PairedOnce
      <3>3. CASE t \in found[r] /\ u \notin found[r]
        BY <2>1, <2>2, <2>3, <2>5, <3>3
      <3>4. CASE t \notin found[r] /\ u \in found[r]
        BY <2>1, <2>2, <2>3, <2>5, <3>4
      <3>5. QED BY <3>1, <3>2, <3>3, <3>4
    <2>6. QED BY <2>4, <2>5 DEF PairedOnce
  <1>3. CASE \A r \in Procs : ~CompleteMatch(r)
    <2>1. result' = result
      BY <1>3, MatchFrame DEF matchVars, AllocateRoom, ReleaseRoom
    <2>2. \A t \in Tickets : matchOf'[t] \in {matchOf[t], NoMatch}
      <3>1. ASSUME NEW r \in Requests, WriteTicketHash(r) \/ CancelMatchTicket(r)
            PROVE  matchOf' = matchOf
        BY <3>1 DEF WriteTicketHash, CancelMatchTicket
      <3>2. ASSUME NEW r \in Requests, RollbackCreate(r)
            PROVE  \A t \in Tickets : matchOf'[t] \in {matchOf[t], NoMatch}
        BY <3>2 DEF RollbackCreate, TypeOK
      <3>3. ASSUME NEW u \in Tickets, TimeoutMatchTicket(u) \/ LapseTicket(u)
            PROVE  \A t \in Tickets : matchOf'[t] \in {matchOf[t], NoMatch}
        BY <3>3 DEF TimeoutMatchTicket, LapseTicket, TypeOK
      <3>4. QED
        BY <1>3, <3>1, <3>2, <3>3, TicketFrame
           DEF ticketVars, CreateMatchTicket, SetTicketTTL, IndexDeadline, LapseLock
    <2>3. QED BY <1>1, <2>1, <2>2 DEF PairedOnce
  <1>4. QED BY <1>2, <1>3

\* The requests that still have to write their ticket's hash stay the same.
Writing(r) == pc[r] = "hset"

WritersKept ==
  \A s \in Requests : /\ Writing(s)' <=> Writing(s)
                      /\ Writing(s) => own'[s] = own[s]

LEMMA WritersFrame ==
  ASSUME TypeOK, [Next]_vars
  PROVE  \/ WritersKept
         \/ \E r \in Requests, p \in Players, t \in Tickets : CreateMatchTicket(r, p, t)
         \/ \E r \in Requests : WriteTicketHash(r) \/ RollbackCreate(r)
         \/ Crash
  <1> USE DEF WritersKept, Writing, Goto, TypeOK, Procs
  <1>1. ASSUME NEW r \in Requests, NEW t \in Tickets, ReadTicketToCancel(r, t)
        PROVE  WritersKept
    BY <1>1 DEF ReadTicketToCancel
  <1>2. ASSUME NEW r \in Requests,
               SetTicketTTL(r) \/ AddPlayerToPool(r) \/ IndexDeadline(r)
        PROVE  WritersKept
    BY <1>2 DEF SetTicketTTL, AddPlayerToPool, IndexDeadline, localVars
  <1>3. ASSUME NEW r \in Procs, pc[r] # "hset", Finish(r)
        PROVE  WritersKept
    BY <1>3 DEF Finish
  <1>4. ASSUME NEW r \in Requests, RollbackPool(r) \/ CancelStep(r)
        PROVE  WritersKept
    BY <1>3, <1>4 DEF RollbackPool, CancelStep, CancelMatchTicket, CancelFails
  <1>5. ASSUME NEW r \in Procs, MatchStep(r)
        PROVE  WritersKept
    <2>1. CASE PickNobody(r) \/ CompleteMatch(r) \/ RequeueReturns(r)
      BY <1>3, <2>1 DEF PickNobody, CompleteMatch, RequeueReturns, RequeueSteps
    <2>2. CASE ~(PickNobody(r) \/ CompleteMatch(r) \/ RequeueReturns(r))
      <3>1. own' = own /\ \E step \in Steps \ {"hset"} :
                            pc[r] # "hset" /\ pc' = [pc EXCEPT ![r] = step]
        BY <1>5, <2>2 DEF MatchStep, SearchAndPickTicketPlayers, AllocateRoom,
           AllocateRoomFails, GetPlayerTicketID, ReadTicketToMatch, CompleteMatchFails,
           ReleaseRoom, ReadTicketToRequeue, RequeuePlayer, Steps, MatchSteps,
           RequeueSteps, localVars
      <3>2. QED BY <3>1
    <2>3. QED BY <2>1, <2>2
  <1>6. ASSUME SweepStep
        PROVE  WritersKept
    BY <1>6, IdAssumption DEF SweepStep, TimeoutExpiredMatchTickets, TimeoutMatchTicket,
       ScanAllBuckets, localVars
  <1>7. ASSUME Environment, ~Crash
        PROVE  WritersKept
    BY <1>7, IdAssumption DEF Environment, Deadline, Disconnect, LapseLock, LapseTicket,
       LapseResult, Shutdown, Restart, localVars
  <1>8. ASSUME UNCHANGED vars
        PROVE  WritersKept
    BY <1>8 DEF vars, localVars
  <1>9. QED
    BY <1>1, <1>2, <1>4, <1>5, <1>6, <1>7, <1>8
       DEF Next, Arrive, RequestStep, CreateStep, WorkerStep

\* With them a ticket whose status and owner stay the same stays at its stage.
LEMMA StageKept ==
  ASSUME WritersKept, NEW t \in Tickets, status'[t] = status[t], owner'[t] = owner[t]
  PROVE  Stage(t)' = Stage(t)
  BY DEF WritersKept, Writing, Stage

\* Nobody is still to write the hash of a ticket in another's hands.
LEMMA NotNew ==
  ASSUME IndInv, NEW t \in Tickets, owner[t] # NoPlayer,
         \A r \in Requests : own[r] = t => pc[r] # "hset"
  PROVE  Stage(t) # "new"
  BY DEF Stage, IndInv, TypeOK, Statuses

\* Each step of the goroutines is a step of LooseMatchmaking.
LEMMA StepIsLoose ==
  ASSUME IndInv, HashesInv, [Next]_vars
  PROVE  [Loose!Next]_(Loose!vars)
  <1>0. /\ TypeOK /\ RefsCreated /\ LocalsInUse /\ MatchesInMaking
        /\ FoundAmongPicked /\ UnwrittenIsPrivate
    BY DEF IndInv
  <1>1. ASSUME NEW r \in Requests, NEW p \in Players, NEW t \in Tickets,
               CreateMatchTicket(r, p, t)
        PROVE  Loose!Next
    <2>1. /\ owner[t] = NoPlayer /\ owner' = [owner EXCEPT ![t] = p]
          /\ UNCHANGED <<status, matchOf, result>>
          /\ pc[r] = "idle" /\ pc'[r] = "hset" /\ own'[r] = t
          /\ \A s \in Requests \ {r} : own'[s] = own[s] /\ pc'[s] = pc[s]
      BY <1>0, <1>1 DEF CreateMatchTicket, Goto, TypeOK, matchVars, Procs
    <2>2. status[t] = "none"
      BY <1>0, <2>1 DEF RefsCreated
    <2>3. \A u \in Tickets : Stage(u)' = Stage(u)
      <3>1. ASSUME NEW u \in Tickets
            PROVE  Stage(u)' = Stage(u)
        <4>1. CASE u = t
          BY <2>1, <2>2, <4>1 DEF Stage
        <4>2. CASE u # t
          BY <1>0, <2>1, <4>2 DEF Stage, TypeOK
        <4>3. QED BY <4>1, <4>2
      <3>2. QED BY <3>1
    <2>4. Loose!Take(p, t)
      BY <2>1, <2>3 DEF Loose!Take
    <2>5. QED BY <2>4 DEF Loose!Next
  <1>2. ASSUME NEW r \in Requests, WriteTicketHash(r)
        PROVE  Loose!Next
    <2>1. PICK t \in Tickets : t = own[r]
      BY <1>0, <1>2 DEF WriteTicketHash, TypeOK, LocalsInUse, InUse, CreateSteps, Procs
    <2>2. /\ pc[r] = "hset" /\ status' = [status EXCEPT ![t] = "queued"]
          /\ UNCHANGED <<owner, matchOf, result, own>>
          /\ pc'[r] = "expire"
          /\ \A s \in Requests \ {r} : pc'[s] = pc[s]
      BY <1>0, <1>2, <2>1 DEF WriteTicketHash, Goto, TypeOK, matchVars, localVars, Procs
    <2>3. owner[t] # NoPlayer /\ status[t] = "none"
      BY <1>0, <2>1, <2>2, IdAssumption DEF RefsCreated, UnwrittenIsPrivate, Procs
    <2>4. Stage(t) = "new"
      BY <2>1, <2>2, <2>3 DEF Stage
    <2>5. \A u \in Tickets : Stage(u)' = IF u = t THEN "queued" ELSE Stage(u)
      BY <1>0, <2>1, <2>2 DEF Stage, TypeOK
    <2>6. Loose!Queue(t)
      BY <2>2, <2>3, <2>4, <2>5 DEF Loose!Queue
    <2>7. QED BY <2>6 DEF Loose!Next
  <1>3. ASSUME NEW S \in SUBSET Tickets, \A t \in S : owner[t] # NoPlayer,
               \A t \in Tickets : Stage(t)' = IF t \in S THEN "gone" ELSE Stage(t),
               \A t \in Tickets : matchOf'[t] = IF t \in S THEN NoMatch ELSE matchOf[t],
               UNCHANGED <<owner, result>>, matchOf' \in [Tickets -> Matches \cup {NoMatch}]
        PROVE  Loose!Next
    <2>1. Loose!Drop(S)
      BY <1>3 DEF Loose!Drop
    <2>2. QED BY <2>1 DEF Loose!Next
  <1>4. matchOf' \in [Tickets -> Matches \cup {NoMatch}]
    BY <1>0, TypeStep DEF TypeOK
  <1>4a. ASSUME NEW t \in Tickets, owner[t] # NoPlayer, Stage(t)' = "gone",
                \A u \in Tickets : u # t => Stage(u)' = Stage(u),
                \A u \in Tickets : matchOf'[u] = IF u = t THEN NoMatch ELSE matchOf[u],
                UNCHANGED <<owner, result>>
         PROVE  Loose!Next
    <2> DEFINE S == {t}
    <2>1. S \in SUBSET Tickets /\ \A u : u \in S <=> u = t
      OBVIOUS
    <2> HIDE DEF S
    <2>2. QED BY <1>3, <1>4, <1>4a, <2>1
  <1>5. ASSUME NEW r \in Requests, RollbackCreate(r)
        PROVE  Loose!Next
    <2>1. PICK t \in Tickets : t = own[r]
      BY <1>0, <1>5 DEF RollbackCreate, TypeOK, LocalsInUse, InUse, Procs
    <2>2. owner[t] # NoPlayer
      BY <1>0, <2>1, IdAssumption DEF RefsCreated, Procs
    <2>3. /\ UNCHANGED <<owner, result>>
          /\ pc'[r] # "hset"
          /\ \A s \in Requests \ {r} : pc'[s] = pc[s] /\ own'[s] = own[s]
      BY <1>0, <1>5 DEF RollbackCreate, Finish, Goto, TypeOK, matchVars, localVars, Procs
    <2>4. \A u \in Tickets : /\ status'[u] = IF u = t THEN "none" ELSE status[u]
                             /\ matchOf'[u] = IF u = t THEN NoMatch ELSE matchOf[u]
      <3>1. CASE pc[r] = "hset"
        <4>1. status[t] = "none" /\ matchOf[t] = NoMatch
          BY <1>0, <2>1, <3>1 DEF UnwrittenIsPrivate, HashesInv
        <4>2. QED BY <1>5, <3>1, <4>1 DEF RollbackCreate
      <3>2. CASE pc[r] # "hset"
        BY <1>0, <1>5, <2>1, <3>2 DEF RollbackCreate, TypeOK
      <3>3. QED BY <3>1, <3>2
    <2>5. \A s \in Requests : own[s] = t /\ pc[s] = "hset" => s = r
      BY <1>0, <2>1 DEF UnwrittenIsPrivate, Procs
    <2>6. Stage(t)' = "gone"
      BY <2>2, <2>3, <2>4, <2>5 DEF Stage
    <2>7. \A u \in Tickets : u # t => Stage(u)' = Stage(u)
      BY <2>1, <2>3, <2>4 DEF Stage
    <2>8. QED BY <1>4a, <2>2, <2>3, <2>4, <2>6, <2>7
  <1>6. ASSUME Crash
        PROVE  Loose!Next
    <2> DEFINE S == {t \in Tickets : Stage(t) = "new" /\ owner[t] # NoPlayer}
    <2>1. /\ UNCHANGED <<owner, status, matchOf, result>>
          /\ \A r \in Requests : pc'[r] = "idle"
      BY <1>6 DEF Crash, Restart, ticketVars, matchVars, Procs
    <2>2. \A t \in Tickets : Stage(t)' = IF t \in S THEN "gone" ELSE Stage(t)
      BY <1>0, <2>1 DEF Stage, TypeOK, Statuses
    <2>3. \A t \in S : matchOf[t] = NoMatch
      BY <1>0 DEF HashesInv, Stage, TypeOK, Statuses
    <2>4. QED BY <1>3, <1>4, <2>1, <2>2, <2>3
  <1>7. ASSUME NEW t \in Tickets, LapseTicket(t), WritersKept
        PROVE  Loose!Next
    <2>1. /\ UNCHANGED <<owner, result, own, pc>> /\ owner[t] # NoPlayer
          /\ \A u \in Tickets : /\ status'[u] = IF u = t THEN "none" ELSE status[u]
                                /\ matchOf'[u] = IF u = t THEN NoMatch ELSE matchOf[u]
      BY <1>0, <1>7 DEF LapseTicket, HashesInv, TypeOK, matchVars, localVars
    <2>2. \A r \in Requests : own[r] = t => pc[r] # "hset"
      BY <1>7 DEF LapseTicket, Creating, CreateSteps
    <2>3. Stage(t)' = "gone"
      BY <2>1, <2>2 DEF Stage
    <2>4. \A u \in Tickets : u # t => Stage(u)' = Stage(u)
      BY <1>7, <2>1, StageKept
    <2>5. QED BY <1>4a, <2>1, <2>3, <2>4
  <1>8. ASSUME NEW r \in Requests, CancelMatchTicket(r), WritersKept
        PROVE  Loose!Next
    <2>1. PICK t \in Tickets : t = own[r]
      BY <1>0, <1>8 DEF CancelMatchTicket, TypeOK, LocalsInUse, InUse, Procs
    <2>2. /\ UNCHANGED <<owner, matchOf, result>> /\ owner[t] # NoPlayer
          /\ status' = [status EXCEPT ![t] = "cancelled"] /\ pc[r] = "cancel"
      BY <1>0, <1>8, <2>1, IdAssumption DEF CancelMatchTicket, matchVars, RefsCreated, Procs
    <2>3. \A s \in Requests : own[s] = t => pc[s] # "hset"
      BY <1>0, <2>1, <2>2 DEF UnwrittenIsPrivate, Procs
    <2>4. Stage(t) # "new"
      BY <2>2, <2>3, NotNew
    <2>5. \A u \in Tickets : Stage(u)' = IF u = t THEN "cancelled" ELSE Stage(u)
      <3>1. Stage(t)' = "cancelled"
        BY <1>0, <2>2 DEF Stage, TypeOK
      <3>2. QED BY <1>0, <1>8, <2>2, <3>1, StageKept DEF TypeOK
    <2>6. Loose!Cancel(t)
      BY <2>2, <2>4, <2>5 DEF Loose!Cancel
    <2>7. QED BY <2>6 DEF Loose!Next
  <1>9. ASSUME NEW t \in Tickets, TimeoutMatchTicket(t), WritersKept
        PROVE  Loose!Next \/ UNCHANGED Loose!vars
    <2>1. UNCHANGED <<owner, matchOf, result>>
      BY <1>9 DEF TimeoutMatchTicket, matchVars
    <2>2. CASE status[t] = "queued"
      <3>1. status' = [status EXCEPT ![t] = "timeout"]
        BY <1>9, <2>2 DEF TimeoutMatchTicket
      <3>2. Stage(t) = "queued"
        BY <2>2 DEF Stage
      <3>3. \A u \in Tickets : Stage(u)' = IF u = t THEN "timeout" ELSE Stage(u)
        <4>1. Stage(t)' = "timeout"
          BY <1>0, <3>1 DEF Stage, TypeOK
        <4>2. QED BY <1>0, <1>9, <2>1, <3>1, <4>1, StageKept DEF TypeOK
      <3>4. Loose!TimeOut(t)
        BY <2>1, <3>2, <3>3 DEF Loose!TimeOut
      <3>5. QED BY <3>4 DEF Loose!Next
    <2>3. CASE status[t] # "queued"
      <3>1. status' = status
        BY <1>9, <2>3 DEF TimeoutMatchTicket
      <3>2. \A u \in Tickets : Stage(u)' = Stage(u)
        BY <1>9, <2>1, <3>1, StageKept
      <3>3. QED BY <2>1, <3>2 DEF Loose!vars
    <2>4. QED BY <2>2, <2>3
  <1>10. ASSUME NEW r \in Procs, CompleteMatch(r), WritersKept
         PROVE  Loose!Next
    <2>1. PICK t \in found[r], u \in found[r] : t # u
      BY <1>10 DEF CompleteMatch, Enough
    <2>2. t \in Tickets /\ u \in Tickets /\ owner[t] # owner[u]
      BY <1>0, <2>1 DEF FoundAmongPicked, PickedBy, TypeOK
    <2>3. found[r] = {t, u}
      <3>1. PICK p, q \in Players : p # q /\ held[r] = {p, q}
        BY <1>0, <2>1 DEF FoundAmongPicked, PickedBy, Owners
      <3>2. \A v \in found[r] : owner[v] \in {p, q}
        BY <1>0, <3>1 DEF FoundAmongPicked, PickedBy, Owners
      <3>3. \A v, w \in found[r] : owner[v] = owner[w] => v = w
        BY <1>0 DEF FoundAmongPicked, PickedBy
      <3>4. \A v \in found[r] : v = t \/ v = u
        BY <2>1, <2>2, <3>2, <3>3
      <3>5. QED BY <2>1, <3>4
    <2>4. PICK m \in Matches : m = match[r]
      BY <1>0, <1>10 DEF CompleteMatch, LocalsInUse, InUse, MatchSteps, TypeOK
    <2>5. result[m] = {}
      BY <1>0, <2>4, IdAssumption DEF MatchesInMaking
    <2>6. /\ owner' = owner /\ result' = [result EXCEPT ![m] = {owner[t], owner[u]}]
          /\ \A v \in Tickets : /\ status'[v] = IF v \in {t, u} THEN "matched" ELSE status[v]
                                /\ matchOf'[v] = IF v \in {t, u} THEN m ELSE matchOf[v]
      <3>1. Owners({t, u}) = {owner[t], owner[u]}
        BY DEF Owners
      <3>2. QED BY <1>10, <2>3, <2>4, <3>1 DEF CompleteMatch
    <2>7. Stage(t) # "new" /\ Stage(u) # "new"
      <3>1. ASSUME NEW v \in found[r]
            PROVE  Stage(v) # "new"
        BY <1>0, <3>1, NotNew DEF UnwrittenIsPrivate, RefsCreated, TypeOK
      <3>2. QED BY <2>1, <3>1
    <2>8. \A v \in Tickets : Stage(v)' = IF v \in {t, u} THEN "matched" ELSE Stage(v)
      <3>1. \A v \in {t, u} : Stage(v)' = "matched"
        BY <2>2, <2>6 DEF Stage
      <3>2. QED BY <1>10, <2>6, <3>1, StageKept
    <2>9. Loose!Pair(t, u, m)
      <3>1. matchOf' = [v \in Tickets |-> IF v \in {t, u} THEN m ELSE matchOf[v]]
        BY <1>4, <2>6
      <3>2. QED BY <2>2, <2>5, <2>6, <2>7, <2>8, <3>1 DEF Loose!Pair
    <2>10. QED BY <2>2, <2>9 DEF Loose!Next
  <1>11. ASSUME WritersKept, UNCHANGED <<owner, status, matchOf>>,
                \A r \in Procs : ~CompleteMatch(r)
         PROVE  UNCHANGED Loose!vars
    <2>1. result' = result
      BY <1>11, MatchFrame DEF matchVars, AllocateRoom, ReleaseRoom
    <2>2. \A t \in Tickets : Stage(t)' = Stage(t)
      BY <1>11, StageKept
    <2>3. QED BY <1>11, <2>1, <2>2 DEF Loose!vars
  <1>12. CASE WritersKept
    <2>1. CASE \E r \in Procs : CompleteMatch(r)
      BY <1>10, <1>12, <2>1
    <2>2. CASE UNCHANGED <<ticketVars, key, expiry>>
      BY <1>11, <1>12, <2>1, <2>2 DEF ticketVars
    <2>3. CASE \E r \in Requests : CancelMatchTicket(r)
      BY <1>8, <1>12, <2>3
    <2>4. CASE \E t \in Tickets : TimeoutMatchTicket(t) \/ LapseTicket(t)
      BY <1>7, <1>9, <1>12, <2>4
    <2>5. CASE \/ \E r \in Requests : SetTicketTTL(r) \/ IndexDeadline(r)
               \/ \E p \in Players : LapseLock(p)
      <3>1. UNCHANGED <<owner, status, matchOf>>
        BY <2>5 DEF SetTicketTTL, IndexDeadline, LapseLock, ticketVars
      <3>2. QED BY <1>11, <1>12, <2>1, <3>1
    <2>6. CASE \/ \E r \in Requests, p \in Players, t \in Tickets :
                    CreateMatchTicket(r, p, t)
               \/ \E r \in Requests : WriteTicketHash(r) \/ RollbackCreate(r)
      BY <1>1, <1>2, <1>5, <2>6
    <2>7. QED BY <2>1, <2>2, <2>3, <2>4, <2>5, <2>6, TicketFrame
  <1>13. CASE \/ \E r \in Requests, p \in Players, t \in Tickets :
                    CreateMatchTicket(r, p, t)
              \/ \E r \in Requests : WriteTicketHash(r) \/ RollbackCreate(r)
              \/ Crash
    BY <1>1, <1>2, <1>5, <1>6, <1>13
  <1>14. QED BY <1>0, <1>12, <1>13, WritersFrame

LEMMA HashesInit ==
  ASSUME Init
  PROVE  HashesInv /\ PairedOnce /\ DroppedLate
  BY IdAssumption DEF Init, HashesInv, PairedOnce, DroppedLate

LEMMA HashesInvariant == Spec => [](HashesInv /\ PairedOnce /\ DroppedLate)
  <1>1. IndInv /\ HashesInv /\ PairedOnce /\ DroppedLate /\ [Next]_vars
          => (HashesInv /\ PairedOnce /\ DroppedLate)'
    BY HashesStep, PairedOnceStep, DroppedStep DEF IndInv
  <1>2. QED BY HashesInit, <1>1, Inductive, PTL DEF Spec

\* In every environment, whatever races with whatever, a match joins two tickets
\* of different players and never a third one.
THEOREM MatchesPairOnce == Spec => []PairedOnce
  <1>1. QED BY HashesInvariant, PTL

\* A matched ticket names a match whose result holds its player (the EXEC of
\* CompleteMatch), whatever happened between its reads and its write -- and as
\* long as Redis keeps that result: only a ticket whose hash has no TTL, or
\* whose client asked for a max_wait of a day, is still there when its result
\* is not.
THEOREM MatchedTicketsHaveResults == Spec => []MatchedHasResult
  <1>1. ASSUME IndInv, DroppedLate, NEW t \in Tickets, status[t] = "matched"
        PROVE  /\ matchOf[t] # NoMatch
               /\ owner[t] \in Stored(matchOf[t]) \/ OutlivesResult(t)
    <2>1. matchOf[t] # NoMatch /\ owner[t] \in result[matchOf[t]]
      BY <1>1 DEF IndInv, MatchedIsNamed
    <2>2. CASE matchOf[t] \in dropped
      BY <1>1, <2>1, <2>2 DEF DroppedLate
    <2>3. CASE matchOf[t] \notin dropped
      BY <2>1, <2>3 DEF Stored
    <2>4. QED BY <2>2, <2>3
  <1>2. IndInv /\ DroppedLate => MatchedHasResult
    BY <1>1 DEF MatchedHasResult
  <1>3. QED BY <1>2, Inductive, HashesInvariant, PTL

\* MatchTickets implements LooseMatchmaking in every environment: tickets wait
\* at most once and matches are pairs made in one step, for any number of
\* players, tickets, requests, stops and restarts.
THEOREM LooseMatchmakingImplemented == Spec => MatchesLikeLoose
  <1>1. Init => Loose!Init
    BY DEF Init, Loose!Init, Stage
  <1>2. IndInv /\ HashesInv /\ [Next]_vars => [Loose!Next]_(Loose!vars)
    BY StepIsLoose
  <1>3. QED
    BY <1>1, <1>2, Inductive, HashesInvariant, PTL DEF Spec, MatchesLikeLoose, Loose!Spec

-----------------------------------------------------------------------------
(* The deadline index.                                                     *)

\* While a request creates its ticket only its own steps, or a crash, move it.
LEMMA CreateFrame ==
  ASSUME TypeOK, [Next]_vars, ~Crash,
         NEW s \in Requests, pc[s] \in CreateSteps
  PROVE  \/ pc'[s] \in CreateSteps /\ own'[s] = own[s]
         \/ IndexDeadline(s) \/ RollbackCreate(s)
  <1> USE DEF localVars, Goto, TypeOK, CreateSteps
  <1> DEFINE Still == pc'[s] \in CreateSteps /\ own'[s] = own[s]
  <1>1. ASSUME Same(s) PROVE Still
    BY <1>1 DEF Same, Locals
  <1>2. ASSUME NEW r \in Requests, Arrive(r) PROVE Still
    BY <1>2 DEF Arrive, CreateMatchTicket, ReadTicketToCancel, Procs
  <1>3. ASSUME NEW r \in Procs, r # s, Finish(r) PROVE Still
    BY <1>1, <1>3, FinishLocal DEF Procs
  <1>4. ASSUME NEW r \in Requests,
               WriteTicketHash(r) \/ SetTicketTTL(r) \/ AddPlayerToPool(r)
        PROVE  Still
    <2>1. own' = own /\ \E x \in CreateSteps : pc' = [pc EXCEPT ![r] = x]
      BY <1>4 DEF WriteTicketHash, SetTicketTTL, AddPlayerToPool
    <2>2. QED BY <2>1 DEF Procs
  <1>5. ASSUME NEW r \in Requests, r # s, IndexDeadline(r) PROVE Still
    BY <1>5 DEF IndexDeadline, Procs
  <1>6. ASSUME NEW r \in Requests, r # s, RollbackCreate(r) PROVE Still
    <2>1. CASE pc[r] = "expiry"
      BY <1>6, <2>1 DEF RollbackCreate, Procs
    <2>2. CASE pc[r] # "expiry"
      BY <1>3, <1>6, <2>2 DEF RollbackCreate, Procs
    <2>3. QED BY <2>1, <2>2
  <1>7. ASSUME NEW r \in Requests,
               RollbackPool(r) \/ CancelMatchTicket(r) \/ CancelFails(r)
        PROVE  Still
    <2>1. r # s /\ Finish(r)
      BY <1>7 DEF RollbackPool, CancelMatchTicket, CancelFails
    <2>2. QED BY <1>3, <2>1 DEF Procs
  <1>8. ASSUME NEW r \in Procs,
               PickNobody(r) \/ CompleteMatch(r) \/ RequeueReturns(r)
        PROVE  Still
    <2>1. r # s /\ Finish(r)
      BY <1>8 DEF PickNobody, CompleteMatch, RequeueReturns, RequeueSteps
    <2>2. QED BY <1>3, <2>1
  <1>9. ASSUME NEW r \in Procs, MatchStep(r),
               ~(PickNobody(r) \/ CompleteMatch(r) \/ RequeueReturns(r))
        PROVE  Still
    <2>1. own' = own /\ r # s /\ \E x \in Steps : pc' = [pc EXCEPT ![r] = x]
      BY <1>9 DEF MatchStep, SearchAndPickTicketPlayers, AllocateRoom,
         AllocateRoomFails, GetPlayerTicketID, ReadTicketToMatch,
         CompleteMatchFails, ReleaseRoom, ReadTicketToRequeue, RequeuePlayer,
         Steps, MatchSteps, RequeueSteps
    <2>2. QED BY <2>1 DEF Procs
  <1>10. ASSUME SweepStep PROVE Still
    <2>1. own' = own /\ \A r \in Requests : pc'[r] = pc[r]
      BY <1>10, IdAssumption DEF SweepStep, TimeoutExpiredMatchTickets,
         TimeoutMatchTicket, ScanAllBuckets, Procs
    <2>2. QED BY <2>1
  <1>11. ASSUME Environment PROVE Still
    <2>1. own'[s] = own[s] /\ pc'[s] = pc[s]
      BY <1>11, IdAssumption DEF Environment, Deadline, Disconnect, LapseLock,
         LapseTicket, LapseResult, Shutdown, Restart, Procs
    <2>2. QED BY <2>1
  <1>12. ASSUME UNCHANGED vars PROVE Still
    BY <1>12 DEF vars
  <1>13. QED
    BY <1>2, <1>4, <1>5, <1>6, <1>7, <1>8, <1>9, <1>10, <1>11, <1>12
    DEF Next, RequestStep, CreateStep, CancelStep, WorkerStep, Procs

\* The server has not crashed before a step that leaves stops at 0, nor in it.
LEMMA StopsGrow ==
  ASSUME TypeOK, [Next]_vars, "crash" \notin Env \/ stops' = 0
  PROVE  ~Crash /\ ("crash" \notin Env \/ stops = 0)
  <1> USE DEF TypeOK, envVars
  <1>1. Shutdown \/ Crash => stops' = stops + 1
    BY DEF Shutdown, Crash, Restart
  <1>2. ASSUME NEW r \in Procs, MatchStep(r) PROVE stops' = stops
    BY <1>2 DEF MatchStep, SearchAndPickTicketPlayers, PickNobody, AllocateRoom,
       AllocateRoomFails, GetPlayerTicketID, ReadTicketToMatch, CompleteMatch,
       CompleteMatchFails, ReleaseRoom, ReadTicketToRequeue, RequeuePlayer,
       RequeueReturns
  <1>3. ASSUME NEW r \in Requests, CreateStep(r) \/ CancelStep(r)
        PROVE  stops' = stops
    <2>1. RollbackCreate(r) => stops' = stops
      BY DEF RollbackCreate
    <2>2. QED
      BY <1>3, <2>1 DEF CreateStep, WriteTicketHash, SetTicketTTL,
         AddPlayerToPool, IndexDeadline, RollbackPool, CancelStep,
         CancelMatchTicket, CancelFails
  <1>4. ASSUME NEW r \in Requests, Arrive(r) PROVE stops' = stops
    BY <1>4 DEF Arrive, CreateMatchTicket, ReadTicketToCancel
  <1>5. SweepStep => stops' = stops
    BY DEF SweepStep, TimeoutExpiredMatchTickets, TimeoutMatchTicket,
       ScanAllBuckets
  <1>6. Environment => Shutdown \/ Crash \/ stops' = stops
    BY DEF Environment, Deadline, Disconnect, LapseLock, LapseTicket, LapseResult
  <1>7. stops' = stops \/ stops' = stops + 1
    BY <1>1, <1>2, <1>3, <1>4, <1>5, <1>6
    DEF Next, RequestStep, WorkerStep, Procs, vars
  <1>8. Crash => "crash" \in Env
    BY DEF Crash
  <1>9. QED BY <1>1, <1>7, <1>8, BoundAssumption

\* Every queued ticket whose creation has ended is in the deadline index, in
\* every environment, until the server crashes: the sweep finds each of them.
THEOREM QueuedTicketsIndexed == Spec => []QueuedIsIndexed
  <1>1. Init => QueuedIsIndexed
    BY DEF Init, QueuedIsIndexed
  <1>2. ASSUME IndInv, QueuedIsIndexed, [Next]_vars,
               "crash" \notin Env \/ stops' = 0,
               NEW t \in Tickets, status'[t] = "queued", ~Creating(t)'
        PROVE  t \in expiry'
    <2>1. TypeOK /\ UnwrittenIsPrivate /\ RefsCreated
      BY <1>2 DEF IndInv
    <2>6. ~Crash /\ ("crash" \notin Env \/ stops = 0)
      BY <1>2, <2>1, StopsGrow
    <2>2. ASSUME NEW r \in Requests, RollbackCreate(r), own[r] = t
          PROVE  FALSE
      BY <1>2, <2>1, <2>2 DEF RollbackCreate, UnwrittenIsPrivate, TypeOK
    <2>3. CASE Creating(t)
      <3>1. PICK r \in Requests : own[r] = t /\ pc[r] \in CreateSteps
        BY <2>3 DEF Creating
      <3>2. IndexDeadline(r)
        BY <1>2, <2>1, <2>2, <2>6, <3>1, CreateFrame DEF Creating
      <3>3. QED BY <3>1, <3>2 DEF IndexDeadline
    <2>4. CASE ~Creating(t)
      <3>1. status[t] = "queued"
        BY <1>2, <2>1, <2>4, QueuedByCreation
      <3>2. t \in expiry
        BY <1>2, <2>4, <2>6, <3>1 DEF QueuedIsIndexed
      <3>3. ASSUME NEW r \in Requests, CancelMatchTicket(r)
            PROVE  t \in expiry'
        BY <1>2, <2>1, <3>2, <3>3 DEF CancelMatchTicket, TypeOK
      <3>4. ASSUME NEW r \in Procs, CompleteMatch(r) PROVE t \in expiry'
        BY <1>2, <2>1, <3>2, <3>4 DEF CompleteMatch, TypeOK
      <3>5. ASSUME NEW u \in Tickets, TimeoutMatchTicket(u)
            PROVE  t \in expiry'
        BY <1>2, <2>1, <3>2, <3>5 DEF TimeoutMatchTicket, TypeOK
      <3>6. ASSUME NEW r \in Requests,
                   \/ WriteTicketHash(r) \/ SetTicketTTL(r) \/ IndexDeadline(r)
                   \/ RollbackCreate(r)
            PROVE  t \in expiry'
        BY <3>2, <3>6 DEF WriteTicketHash, SetTicketTTL, IndexDeadline,
           RollbackCreate, indexVars
      <3>7. ASSUME \/ \E u \in Tickets : LapseTicket(u)
                   \/ \E p \in Players : LapseLock(p)
                   \/ \E r \in Requests, p \in Players, u \in Tickets :
                        CreateMatchTicket(r, p, u)
            PROVE  t \in expiry'
        BY <3>2, <3>7 DEF LapseTicket, LapseLock, CreateMatchTicket, indexVars
      <3>8. QED
        BY <1>2, <3>2, <3>3, <3>4, <3>5, <3>6, <3>7, TicketFrame DEF ticketVars
    <2>5. QED BY <2>3, <2>4
  <1>3. IndInv /\ QueuedIsIndexed /\ [Next]_vars => QueuedIsIndexed'
    BY <1>2 DEF QueuedIsIndexed
  <1>4. QED BY <1>1, <1>3, Inductive, PTL DEF Spec

\* A match in the making is dropped by its EXEC, its ReleaseRoom, or a stop.
LEMMA MatchDropped ==
  ASSUME TypeOK, LocalsInUse, [Next]_vars,
         Env \cap {"disconnect", "shutdown", "crash"} = {},
         NEW s \in Procs, match[s] # NoMatch, match'[s] # match[s]
  PROVE  CompleteMatch(s) \/ ReleaseRoom(s)
  <1> USE DEF localVars
  <1>1. pc[s] \in MatchSteps
    BY DEF LocalsInUse, InUse
  <1>2. ASSUME NEW r \in Procs, r # s, Finish(r) PROVE FALSE
    BY <1>2 DEF Finish, TypeOK
  <1>3. ASSUME NEW r \in Procs, pc[r] \notin MatchSteps, Finish(r) PROVE FALSE
    BY <1>1, <1>2, <1>3
  <1>4. ASSUME match' = match PROVE FALSE
    BY <1>4
  <1>5. ASSUME NEW r \in Requests, Arrive(r) PROVE FALSE
    BY <1>5 DEF Arrive, CreateMatchTicket, ReadTicketToCancel
  <1>6. ASSUME NEW r \in Requests, CreateStep(r) \/ CancelStep(r) PROVE FALSE
    <2>1. match' = match \/ (pc[r] \notin MatchSteps /\ Finish(r))
      BY <1>6 DEF CreateStep, CancelStep, WriteTicketHash, SetTicketTTL,
         AddPlayerToPool, IndexDeadline, RollbackCreate, RollbackPool,
         CancelMatchTicket, CancelFails, CreateSteps, MatchSteps
    <2>2. QED BY <1>3, <1>4, <2>1 DEF Procs
  <1>7. ASSUME NEW r \in Procs, PickNobody(r) \/ RequeueReturns(r) PROVE FALSE
    <2>1. pc[r] \notin MatchSteps /\ Finish(r)
      BY <1>7 DEF PickNobody, RequeueReturns, RequeueSteps, MatchSteps
    <2>2. QED BY <1>3, <2>1
  <1>8. ASSUME NEW r \in Procs, NEW m \in Matches, AllocateRoom(r, m)
        PROVE  FALSE
    BY <1>1, <1>8 DEF AllocateRoom, MatchSteps, TypeOK
  <1>9. ASSUME NEW r \in Procs, CompleteMatch(r) PROVE r = s
    BY <1>2, <1>9 DEF CompleteMatch
  <1>10. ASSUME NEW r \in Procs, ReleaseRoom(r) PROVE r = s
    BY <1>10 DEF ReleaseRoom, TypeOK
  <1>11. ASSUME NEW r \in Procs, MatchStep(r) PROVE CompleteMatch(s) \/ ReleaseRoom(s)
    <2>1. \/ match' = match
          \/ PickNobody(r) \/ RequeueReturns(r)
          \/ \E m \in Matches : AllocateRoom(r, m)
          \/ CompleteMatch(r) \/ ReleaseRoom(r)
      BY <1>11 DEF MatchStep, SearchAndPickTicketPlayers, AllocateRoomFails,
         GetPlayerTicketID, ReadTicketToMatch, CompleteMatchFails,
         ReadTicketToRequeue, RequeuePlayer
    <2>2. QED BY <1>4, <1>7, <1>8, <1>9, <1>10, <2>1
  <1>12. ASSUME SweepStep PROVE FALSE
    BY <1>4, <1>12 DEF SweepStep, TimeoutExpiredMatchTickets,
       TimeoutMatchTicket, ScanAllBuckets
  <1>13. ASSUME Environment PROVE FALSE
    BY <1>4, <1>13 DEF Environment, Deadline, Disconnect, LapseLock,
       LapseTicket, LapseResult, Shutdown, Crash
  <1>14. ASSUME UNCHANGED vars PROVE FALSE
    BY <1>4, <1>14 DEF vars
  <1>4a. QED
    BY <1>5, <1>6, <1>11, <1>12, <1>13, <1>14
    DEF Next, RequestStep, WorkerStep, Procs

\* No request loses its context unless clients may disconnect.
GoneOnlyByDisconnect == "disconnect" \notin Env => gone = {}

\* A request's context is cancelled by Disconnect only.
LEMMA GoneStep ==
  ASSUME TypeOK, GoneOnlyByDisconnect, [Next]_vars
  PROVE  GoneOnlyByDisconnect'
  <1> SUFFICES ASSUME "disconnect" \notin Env PROVE gone' \subseteq gone
    BY DEF GoneOnlyByDisconnect
  <1> USE DEF envVars
  <1>1. ASSUME NEW r \in Procs, Finish(r) PROVE gone' \subseteq gone
    BY <1>1 DEF Finish
  <1>2. ASSUME NEW r \in Requests, Arrive(r) \/ CreateStep(r) \/ CancelStep(r)
        PROVE  gone' \subseteq gone
    BY <1>1, <1>2 DEF Arrive, CreateMatchTicket, ReadTicketToCancel,
       CreateStep, WriteTicketHash, SetTicketTTL, AddPlayerToPool,
       IndexDeadline, RollbackCreate, RollbackPool, CancelStep,
       CancelMatchTicket, CancelFails, Procs
  <1>3. ASSUME NEW r \in Procs, MatchStep(r) PROVE gone' \subseteq gone
    BY <1>1, <1>3 DEF MatchStep, SearchAndPickTicketPlayers, PickNobody,
       AllocateRoom, AllocateRoomFails, GetPlayerTicketID, ReadTicketToMatch,
       CompleteMatch, CompleteMatchFails, ReleaseRoom, ReadTicketToRequeue,
       RequeuePlayer, RequeueReturns
  <1>4. ASSUME SweepStep PROVE gone' \subseteq gone
    BY <1>4 DEF SweepStep, TimeoutExpiredMatchTickets, TimeoutMatchTicket,
       ScanAllBuckets
  <1>5. ASSUME Environment PROVE gone' \subseteq gone
    BY <1>5 DEF Environment, Deadline, Disconnect, LapseLock, LapseTicket, LapseResult,
       Shutdown, Crash, Restart
  <1>6. QED
    BY <1>2, <1>3, <1>4, <1>5 DEF Next, RequestStep, WorkerStep, Procs, vars

\* Without disconnects and stops no room stays reserved for a match that was
\* given up (completePickedPlayers' calls of ReleaseRoom).
THEOREM RoomsAreBalanced == Spec => []RoomsBalanced
  <1>1. Init => GoneOnlyByDisconnect /\ RoomsBalanced
    BY DEF Init, GoneOnlyByDisconnect, RoomsBalanced
  <1>2. ASSUME IndInv, GoneOnlyByDisconnect, RoomsBalanced, [Next]_vars,
               Env \cap {"disconnect", "shutdown", "crash"} = {},
               NEW m \in reserved'
        PROVE  result'[m] # {} \/ \E r \in Procs : match'[r] = m
    <2>1. /\ TypeOK /\ LocalsInUse /\ MatchesInMaking
          /\ gone = {} /\ m \in Matches /\ NoMatch \notin Matches
      <3>1. TypeOK'
        BY <1>2, TypeStep DEF IndInv
      <3>2. QED BY <1>2, <3>1, IdAssumption
                DEF IndInv, GoneOnlyByDisconnect, TypeOK
    <2>2. ASSUME NEW r \in Procs, AllocateRoom(r, m)
          PROVE  match'[r] = m
      BY <2>1, <2>2 DEF AllocateRoom, TypeOK
    <2>3. CASE m \in reserved /\ result[m] # {}
      <3>1. ASSUME NEW r \in Procs, CompleteMatch(r) PROVE result'[m] # {}
        <4>1. result[match[r]] = {} /\ match[r] # NoMatch
          BY <2>1, <3>1 DEF CompleteMatch, LocalsInUse, InUse, MatchSteps,
             MatchesInMaking
        <4>2. QED BY <2>1, <2>3, <3>1, <4>1 DEF CompleteMatch, TypeOK
      <3>2. ASSUME NEW r \in Procs, NEW n \in Matches,
                   AllocateRoom(r, n) \/ ReleaseRoom(r)
            PROVE  result'[m] # {}
        BY <2>3, <3>2 DEF AllocateRoom, ReleaseRoom
      <3>3. QED BY <1>2, <2>1, <2>3, <3>1, <3>2, MatchFrame DEF matchVars
    <2>4. CASE m \in reserved /\ result[m] = {}
      <3>1. PICK s \in Procs : match[s] = m
        BY <1>2, <2>4 DEF RoomsBalanced
      <3>2. CASE match'[s] = match[s]
        BY <3>1, <3>2
      <3>3. CASE CompleteMatch(s)
        <4>1. result'[m] = Owners(found[s]) /\ Enough(found[s])
          BY <2>1, <3>1, <3>3 DEF CompleteMatch, TypeOK
        <4>2. QED BY <4>1 DEF Enough, Owners
      <3>4. CASE ReleaseRoom(s)
        BY <1>2, <2>1, <3>1, <3>4 DEF ReleaseRoom, Released
      <3>5. QED BY <1>2, <2>1, <3>1, <3>2, <3>3, <3>4, MatchDropped
    <2>5. CASE m \notin reserved
      BY <1>2, <2>1, <2>2, <2>5, MatchFrame
      DEF matchVars, AllocateRoom, CompleteMatch, ReleaseRoom, Released
    <2>6. QED BY <2>3, <2>4, <2>5
  <1>3. IndInv /\ GoneOnlyByDisconnect /\ RoomsBalanced /\ [Next]_vars
          => GoneOnlyByDisconnect' /\ RoomsBalanced'
    <2>1. IndInv => TypeOK
      BY DEF IndInv
    <2>2. QED BY <1>2, <2>1, GoneStep DEF RoomsBalanced
  <1>4. QED BY <1>1, <1>3, Inductive, PTL DEF Spec
-----------------------------------------------------------------------------
(* As long as only matches end tickets: the claims of the documents.       *)
(* Locks, places and tickets fit together one to one.                      *)

\* A request that has set its lock and not yet put its player into the pool.
Enqueuing(r) == pc[r] \in {"hset", "expire", "pool"}

\* Nothing but a match ends a ticket, and nobody is in a step that waits for it.
OnlyMatchesEnd ==
  /\ due = {} /\ gone = {} /\ batch = {}
  /\ \A r \in Procs :
       /\ pc[r] \notin {"unpool", "cancel"}
       /\ held[r] # {} => pc[r] \in {"alloc"} \cup MatchSteps \cup RequeueSteps

\* The lock of a queued ticket is there and names it.
QueuedHoldsLock == \A t \in Tickets : status[t] = "queued" => key[owner[t]] = t

\* So is that of a ticket whose player is still to be put into the pool.
EnqueuingHoldsLock ==
  \A r \in Requests : Enqueuing(r) =>
    /\ key[owner[own[r]]] = own[r]
    /\ pc[r] # "hset" => status[own[r]] = "queued"
    /\ \A s \in Procs : own[s] = own[r] => s = r

\* Whoever is in the pool or in somebody's hands has a queued ticket, which
\* put him there.
Backed(p) ==
  /\ key[p] # NoTicket /\ status[key[p]] = "queued"
  /\ \A r \in Requests : Enqueuing(r) => own[r] # key[p]
PoolIsBacked == \A p \in pool : Backed(p)
HandsAreBacked == \A r \in Procs : \A p \in InHands(r) : Backed(p)

\* What a goroutine has read about the players in its hands is still so.
ReadsAreCurrent ==
  \A r \in Procs :
    /\ \A t \in found[r] : key[owner[t]] = t
    /\ pc[r] \in {"getticket", "reqticket", "requeue"} =>
         key[owner[look[r]]] = look[r]
    /\ pc[r] \in {"reqticket", "requeue"} => owner[look[r]] \notin todo[r]

UnmatchedHasNoMatch ==
  \A t \in Tickets : status[t] # "matched" => matchOf[t] = NoMatch

CalmInv ==
  /\ OnlyMatchesEnd /\ QueuedHoldsLock /\ EnqueuingHoldsLock
  /\ PoolIsBacked /\ HandsAreBacked /\ ReadsAreCurrent /\ UnmatchedHasNoMatch
  /\ ExclusivePick /\ QueuedNotLost

\* Without hazards no ticket is cancelled, timed out, rolled back or dropped.
LEMMA CalmFrame ==
  ASSUME Env = {}, OnlyMatchesEnd, [Next]_vars
  PROVE  \/ \E r \in Requests, p \in Players, t \in Tickets :
              CreateMatchTicket(r, p, t)
         \/ \E r \in Requests :
              \/ WriteTicketHash(r) \/ SetTicketTTL(r)
              \/ AddPlayerToPool(r) \/ IndexDeadline(r)
         \/ \E r \in Procs : MatchStep(r)
         \/ TimeoutExpiredMatchTickets \/ ScanAllBuckets
         \/ UNCHANGED vars
  <1>1. ASSUME NEW r \in Requests
        PROVE  /\ ~RollbackCreate(r) /\ ~RollbackPool(r) /\ ~CancelStep(r)
               /\ ~Disconnect(r) /\ \A t \in Tickets : ~ReadTicketToCancel(r, t)
    BY <1>1 DEF OnlyMatchesEnd, RollbackCreate, RollbackPool, CancelStep,
       CancelMatchTicket, CancelFails, Disconnect, ReadTicketToCancel, Procs
  <1>2. /\ \A t \in Tickets : ~TimeoutMatchTicket(t) /\ ~Deadline(t) /\ ~LapseTicket(t)
        /\ \A p \in Players : ~LapseLock(p)
        /\ \A m \in Matches : ~LapseResult(m)
        /\ ~Shutdown /\ ~Crash
    BY DEF OnlyMatchesEnd, TimeoutMatchTicket, Deadline, LapseTicket, LapseLock,
       LapseResult, Shutdown, Crash
  <1>3. QED
    BY <1>1, <1>2 DEF Next, Arrive, RequestStep, CreateStep, WorkerStep,
       SweepStep, Environment, Procs

\* No step disturbs what is undisturbed.
LEMMA OnlyMatchesEndStep ==
  ASSUME Env = {}, TypeOK, OnlyMatchesEnd, [Next]_vars
  PROVE  OnlyMatchesEnd'
  <1> USE DEF OnlyMatchesEnd, TypeOK, envVars, localVars, Goto, MatchSteps, RequeueSteps
  <1>1. ASSUME NEW r \in Requests, NEW p \in Players, NEW t \in Tickets,
               CreateMatchTicket(r, p, t)
        PROVE  OnlyMatchesEnd'
    BY <1>1 DEF CreateMatchTicket, Procs
  <1>2. ASSUME NEW r \in Requests, WriteTicketHash(r) \/ SetTicketTTL(r)
        PROVE  OnlyMatchesEnd'
    BY <1>2 DEF WriteTicketHash, SetTicketTTL, Procs
  <1>3. ASSUME NEW r \in Requests, AddPlayerToPool(r) \/ IndexDeadline(r)
        PROVE  OnlyMatchesEnd'
    BY <1>3 DEF AddPlayerToPool, IndexDeadline, Procs
  <1>4. ASSUME NEW r \in Procs, MatchStep(r) PROVE OnlyMatchesEnd'
    <2>1. CASE PickNobody(r)
      BY <2>1 DEF PickNobody, Finish
    <2>2. CASE CompleteMatch(r)
      BY <2>2 DEF CompleteMatch, Finish
    <2>3. CASE RequeueReturns(r)
      BY <2>3 DEF RequeueReturns, Finish
    <2>4. CASE CompleteMatchFails(r) \/ ReadTicketToRequeue(r) \/ RequeuePlayer(r)
      BY <2>4 DEF CompleteMatchFails, ReadTicketToRequeue, RequeuePlayer
    <2>5. CASE SearchAndPickTicketPlayers(r) \/ AllocateRoomFails(r)
      BY <2>5 DEF SearchAndPickTicketPlayers, AllocateRoomFails
    <2>6. CASE (\E m \in Matches : AllocateRoom(r, m)) \/ ReleaseRoom(r)
      BY <2>6 DEF AllocateRoom, ReleaseRoom
    <2>7. CASE \E p \in Players : GetPlayerTicketID(r, p)
      BY <2>7 DEF GetPlayerTicketID
    <2>8. CASE ReadTicketToMatch(r)
      BY <2>8 DEF ReadTicketToMatch
    <2>9. QED
      BY <1>4, <2>1, <2>2, <2>3, <2>4, <2>5, <2>6, <2>7, <2>8 DEF MatchStep
  <1>5. ASSUME TimeoutExpiredMatchTickets \/ ScanAllBuckets PROVE OnlyMatchesEnd'
    BY <1>5 DEF TimeoutExpiredMatchTickets, ScanAllBuckets, Procs
  <1>6. ASSUME UNCHANGED vars PROVE OnlyMatchesEnd'
    BY <1>6 DEF vars
  <1>7. QED
    BY <1>1, <1>2, <1>3, <1>4, <1>5, <1>6, CalmFrame

-----------------------------------------------------------------------------
(* Whose hands a step moves a player out of or into.                       *)

\* The other goroutines hold whom they held.
LEMMA HandsOf ==
  ASSUME NEW s \in Procs, pc'[s] = pc[s], held'[s] = held[s],
         todo'[s] = todo[s], look'[s] = look[s],
         look[s] # NoTicket => owner'[look[s]] = owner[look[s]],
         InUse(s)
  PROVE  InHands(s)' = InHands(s)
  <1>1. CASE pc[s] \in {"reqticket", "requeue"}
    BY <1>1 DEF InHands, InUse
  <1>2. CASE pc[s] \notin {"reqticket", "requeue"}
    BY <1>2 DEF InHands
  <1>3. QED BY <1>1, <1>2

\* A step that moves nobody, and leaves locks and tickets alone but for the
\* fields that the claims do not speak of.
Quiet ==
  /\ UNCHANGED <<owner, status, matchOf, key, pool>>
  /\ \A s \in Procs : InHands(s)' = InHands(s) /\ own'[s] \in {own[s], NoTicket}
  /\ \A s \in Requests :
       /\ Enqueuing(s)' <=> Enqueuing(s)
       /\ Enqueuing(s) => own'[s] = own[s] /\ (pc'[s] = "hset" <=> pc[s] = "hset")

Moving(r) ==
  \/ SearchAndPickTicketPlayers(r) \/ CompleteMatch(r) \/ RequeuePlayer(r)

\* All steps are quiet but those that create tickets, put players into the
\* pool or take them out, or match them.
LEMMA QuietSteps ==
  ASSUME TypeOK, LocalsInUse, LockOnlyForOpenTicket, OnlyMatchesEnd, HandsAreBacked,
         ReadsAreCurrent,
         \/ \E r \in Requests : SetTicketTTL(r) \/ IndexDeadline(r)
         \/ \E r \in Procs : MatchStep(r) /\ ~Moving(r)
         \/ TimeoutExpiredMatchTickets \/ ScanAllBuckets
         \/ UNCHANGED vars
  PROVE  Quiet
  <1> USE DEF TypeOK, ticketVars, indexVars, localVars, Goto, Enqueuing
  <1>1. ASSUME NEW r \in Requests, SetTicketTTL(r) \/ IndexDeadline(r)
        PROVE  Quiet
    <2>1. /\ UNCHANGED <<owner, status, matchOf, key, pool, own>>
          /\ \A s \in Procs : InHands(s)' = InHands(s)
      BY <1>1 DEF SetTicketTTL, IndexDeadline, InHands, Procs
    <2>2. QED
      BY <1>1, <2>1 DEF SetTicketTTL, IndexDeadline, Quiet, Procs
  <1>2. ASSUME NEW r \in Procs, MatchStep(r), ~Moving(r) PROVE Quiet
    <2> DEFINE Waits == /\ UNCHANGED <<owner, status, matchOf, key, pool>>
                        /\ ~Enqueuing(r) /\ ~Enqueuing(r)'
                        /\ own'[r] \in {own[r], NoTicket}
                        /\ \A s \in Procs \ {r} : Same(s)
    <2>1. ASSUME Waits, InHands(r)' = InHands(r) PROVE Quiet
      <3>1. ASSUME NEW s \in Procs \ {r} PROVE InHands(s)' = InHands(s)
        BY <2>1 DEF InHands, Same, Locals
      <3>2. QED BY <2>1, <3>1 DEF Quiet, Same, Locals, Procs
    <2>2. CASE PickNobody(r)
      <3>1. held[r] = {} /\ pc[r] = "pick"
        BY <2>2 DEF PickNobody, OnlyMatchesEnd, MatchSteps, RequeueSteps
      <3>2. Waits /\ pc'[r] \in {"pick", "idle"} /\ held'[r] = {}
        BY <2>2, <3>1 DEF PickNobody, Finish, Same, Locals
      <3>3. QED BY <2>1, <3>1, <3>2 DEF InHands
    <2>3. CASE \/ \E m \in Matches : AllocateRoom(r, m)
               \/ AllocateRoomFails(r)
      <3>1. Waits /\ pc[r] = "alloc" /\ held'[r] = held[r] /\ todo'[r] = held[r]
            /\ pc'[r] \in {"getkey", "reqkey"}
        BY <2>3 DEF AllocateRoom, AllocateRoomFails, Same, Locals
      <3>2. QED BY <2>1, <3>1 DEF InHands
    <2>4. CASE \E p \in Players : GetPlayerTicketID(r, p)
      <3>1. PICK p \in Players : GetPlayerTicketID(r, p)
        BY <2>4
      <3>2. Waits /\ p \in todo[r] /\ todo'[r] = todo[r] \ {p}
            /\ look'[r] = key[p] /\ held'[r] = held[r]
            /\ pc[r] \in {"getkey", "reqkey"}
        BY <3>1 DEF GetPlayerTicketID, Same, Locals
      <3>3. CASE pc[r] = "getkey"
        <4>1. pc'[r] \in {"getkey", "getticket"}
          BY <3>1, <3>3 DEF GetPlayerTicketID
        <4>2. QED BY <2>1, <3>2, <3>3, <4>1 DEF InHands
      <3>4. CASE pc[r] = "reqkey"
        <4>1. p \in InHands(r)
          BY <3>2, <3>4 DEF InHands
        <4>2. key[p] # NoTicket
          BY <4>1 DEF HandsAreBacked, Backed
        <4>3. owner[key[p]] = p
          BY <4>2 DEF LockOnlyForOpenTicket
        <4>4. pc'[r] = "reqticket"
          BY <3>1, <3>4, <4>2 DEF GetPlayerTicketID
        <4>5. InHands(r)' = (todo[r] \ {p}) \cup {p}
          BY <3>2, <4>3, <4>4 DEF InHands
        <4>6. InHands(r) = todo[r]
          BY <3>4 DEF InHands
        <4>7. QED BY <2>1, <3>2, <4>5, <4>6
      <3>5. QED BY <3>2, <3>3, <3>4
    <2>5. CASE ReadTicketToMatch(r) \/ CompleteMatchFails(r) \/ ReleaseRoom(r)
      <3>1. Waits /\ pc[r] \in {"getkey", "getticket", "release"}
            /\ held'[r] = held[r]
            /\ \/ pc'[r] \in {"getkey", "release"}
               \/ pc'[r] = "reqkey" /\ todo'[r] = held[r]
        BY <2>5 DEF ReadTicketToMatch, CompleteMatchFails, ReleaseRoom, Same, Locals
      <3>2. QED BY <2>1, <3>1 DEF InHands
    <2>6. CASE ReadTicketToRequeue(r)
      <3>1. Waits /\ pc[r] = "reqticket" /\ UNCHANGED <<held, todo, look>>
            /\ pc'[r] = IF status[look[r]] = "queued" THEN "requeue" ELSE "reqkey"
        BY <2>6 DEF ReadTicketToRequeue, Same, Locals
      <3>2. owner[look[r]] \in InHands(r) /\ look[r] # NoTicket
        BY <3>1 DEF InHands, LocalsInUse, InUse
      <3>3. status[look[r]] = "queued"
        BY <3>1, <3>2 DEF HandsAreBacked, Backed, ReadsAreCurrent
      <3>4. QED BY <2>1, <3>1, <3>3 DEF InHands
    <2>7. CASE RequeueReturns(r)
      <3>1. pc[r] = "reqkey" /\ todo[r] = {}
        BY <2>7 DEF RequeueReturns, OnlyMatchesEnd
      <3>2. Waits /\ pc'[r] \in {"pick", "idle"} /\ held'[r] = {}
        BY <2>7, <3>1 DEF RequeueReturns, Finish, Same, Locals
      <3>3. QED BY <2>1, <3>1, <3>2 DEF InHands
    <2>8. QED
      BY <1>2, <2>2, <2>3, <2>4, <2>5, <2>6, <2>7 DEF MatchStep, Moving
  <1>3. ASSUME TimeoutExpiredMatchTickets \/ ScanAllBuckets PROVE Quiet
    <2>1. /\ UNCHANGED <<owner, status, matchOf, key, pool, own, held, todo, look>>
          /\ pc[Worker] \in {"idle", "sweep"} /\ pc'[Worker] \in {"sweep", "pick"}
          /\ \A s \in Procs \ {Worker} : pc'[s] = pc[s]
      BY <1>3 DEF TimeoutExpiredMatchTickets, ScanAllBuckets, Procs
    <2>2. \A s \in Procs : InHands(s)' = InHands(s)
      BY <2>1 DEF InHands
    <2>3. QED BY <2>1, <2>2, IdAssumption DEF Quiet, Procs
  <1>4. ASSUME UNCHANGED vars PROVE Quiet
    BY <1>4 DEF vars, Quiet, InHands
  <1>5. QED BY <1>1, <1>2, <1>3, <1>4

\* Steps of one request on its own ticket move nobody out of any hands.
LEMMA CreationMoves ==
  ASSUME TypeOK, RefsCreated, LocalsInUse, NEW r \in Requests,
         \/ \E p \in Players, t \in Tickets : CreateMatchTicket(r, p, t)
         \/ WriteTicketHash(r) \/ AddPlayerToPool(r)
  PROVE  /\ UNCHANGED matchOf
         /\ \A s \in Procs : InHands(s)' = InHands(s)
         /\ \A s \in Procs \ {r} : own'[s] = own[s] /\ pc'[s] = pc[s]
  <1> USE DEF TypeOK, ticketVars, indexVars, localVars, Goto
  <1>1. /\ UNCHANGED <<held, todo, look, matchOf>>
        /\ pc[r] \in {"idle", "hset", "pool"} /\ pc'[r] \in {"hset", "expire", "expiry"}
        /\ \A s \in Procs \ {r} : own'[s] = own[s] /\ pc'[s] = pc[s]
        /\ \A t \in Tickets : owner[t] # NoPlayer => owner'[t] = owner[t]
    BY DEF CreateMatchTicket, WriteTicketHash, AddPlayerToPool, Procs
  <1>2. ASSUME NEW s \in Procs PROVE InHands(s)' = InHands(s)
    <2>1. CASE s = r
      BY <1>1, <2>1 DEF InHands
    <2>2. CASE s # r
      BY <1>1, <2>2, HandsOf DEF RefsCreated, LocalsInUse
    <2>3. QED BY <2>1, <2>2
  <1>3. QED BY <1>1, <1>2

\* A pick moves two players from the pool into empty hands.
LEMMA PickMoves ==
  ASSUME TypeOK, OnlyMatchesEnd, NEW r \in Procs, SearchAndPickTicketPlayers(r)
  PROVE  /\ UNCHANGED <<owner, status, matchOf, key, own>>
         /\ InHands(r) = {} /\ InHands(r)' \subseteq pool
         /\ pool' = pool \ InHands(r)'
         /\ \A s \in Procs \ {r} : InHands(s)' = InHands(s) /\ pc'[s] = pc[s]
         /\ ~Enqueuing(r) /\ ~Enqueuing(r)'
  <1> USE DEF TypeOK, ticketVars, indexVars, localVars, Goto
  <1>1. /\ pc[r] = "pick" /\ held[r] = {} /\ pc'[r] = "alloc"
        /\ held'[r] \subseteq pool /\ pool' = pool \ held'[r]
        /\ UNCHANGED <<owner, status, matchOf, key, own, todo, look>>
        /\ \A s \in Procs \ {r} : held'[s] = held[s] /\ pc'[s] = pc[s]
    BY DEF SearchAndPickTicketPlayers, OnlyMatchesEnd, MatchSteps, RequeueSteps
  <1>2. QED BY <1>1 DEF InHands, Enqueuing

\* A match takes both players picked out of the hands of its goroutine.
LEMMA MatchMoves ==
  ASSUME TypeOK, RefsCreated, FoundAmongPicked, NEW r \in Procs, CompleteMatch(r)
  PROVE  /\ UNCHANGED <<owner, pool>>
         /\ InHands(r) = Owners(found[r]) /\ InHands(r)' = {}
         /\ \A s \in Procs \ {r} :
              InHands(s)' = InHands(s) /\ own'[s] = own[s] /\ pc'[s] = pc[s]
         /\ own'[r] = NoTicket /\ ~Enqueuing(r) /\ ~Enqueuing(r)'
         /\ \A p \in Players :
              key'[p] = IF p \in InHands(r) THEN NoTicket ELSE key[p]
         /\ \A t \in Tickets :
              IF t \in found[r] THEN status'[t] = "matched"
              ELSE status'[t] = status[t] /\ matchOf'[t] = matchOf[t]
  <1> USE DEF TypeOK, ticketVars, indexVars, localVars, Goto
  <1>1. /\ pc[r] = "getkey" /\ pc'[r] \in {"pick", "idle"} /\ held'[r] = {}
        /\ own'[r] = NoTicket /\ UNCHANGED <<owner, pool>>
        /\ \A s \in Procs \ {r} : Same(s)
    BY DEF CompleteMatch, Finish, Same, Locals
  <1>2. Owners(found[r]) = held[r]
    <2>1. PICK p, q \in Players : p # q /\ Owners(found[r]) = {p, q}
      BY FoundArePair DEF CompleteMatch
    <2>2. /\ Owners(found[r]) \subseteq held[r]
          /\ held[r] = {} \/ \E u, v \in Players : u # v /\ held[r] = {u, v}
      BY DEF FoundAmongPicked, PickedBy
    <2>3. QED BY <2>1, <2>2
  <1>3. InHands(r) = Owners(found[r]) /\ InHands(r)' = {}
    BY <1>1, <1>2 DEF InHands
  <1>4. ASSUME NEW s \in Procs \ {r}
        PROVE  InHands(s)' = InHands(s) /\ own'[s] = own[s] /\ pc'[s] = pc[s]
    BY <1>1 DEF InHands, Same, Locals
  <1>5. /\ \A p \in Players :
             key'[p] = IF p \in InHands(r) THEN NoTicket ELSE key[p]
        /\ \A t \in Tickets :
             IF t \in found[r] THEN status'[t] = "matched"
             ELSE status'[t] = status[t] /\ matchOf'[t] = matchOf[t]
    BY <1>3 DEF CompleteMatch, Unlock
  <1>6. QED BY <1>1, <1>3, <1>4, <1>5 DEF Enqueuing

\* A requeue moves one player from the hands of its goroutine into the pool.
LEMMA RequeueMoves ==
  ASSUME TypeOK, ReadsAreCurrent, NEW r \in Procs, RequeuePlayer(r)
  PROVE  /\ UNCHANGED <<owner, status, matchOf, key, own>>
         /\ \E p \in InHands(r) :
              pool' = pool \cup {p} /\ InHands(r)' = InHands(r) \ {p}
         /\ \A s \in Procs \ {r} : InHands(s)' = InHands(s) /\ pc'[s] = pc[s]
         /\ ~Enqueuing(r) /\ ~Enqueuing(r)'
  <1> USE DEF TypeOK, ticketVars, indexVars, localVars, Goto
  <1> DEFINE p == owner[look[r]]
  <1>1. /\ pc[r] = "requeue" /\ pc'[r] = "reqkey" /\ pool' = pool \cup {p}
        /\ UNCHANGED <<owner, status, matchOf, key, own, held, todo, look>>
        /\ \A s \in Procs \ {r} : pc'[s] = pc[s]
    BY DEF RequeuePlayer
  <1>2. InHands(r) = todo[r] \cup {p} /\ p \notin todo[r] /\ InHands(r)' = todo[r]
    BY <1>1 DEF InHands, ReadsAreCurrent
  <1>3. \A s \in Procs \ {r} : InHands(s)' = InHands(s)
    BY <1>1 DEF InHands
  <1> HIDE DEF p
  <1>4. QED BY <1>1, <1>2, <1>3 DEF Enqueuing

\* Every step is one of these, or quiet.
LEMMA CalmSteps ==
  ASSUME Env = {}, IndInv, CalmInv, [Next]_vars
  PROVE  \/ Quiet
         \/ \E r \in Requests, p \in Players, t \in Tickets :
              CreateMatchTicket(r, p, t)
         \/ \E r \in Requests : WriteTicketHash(r) \/ AddPlayerToPool(r)
         \/ \E r \in Procs : Moving(r)
  BY CalmFrame, QuietSteps DEF IndInv, CalmInv

-----------------------------------------------------------------------------
(* The invariant, part by part.                                            *)

\* The players that anybody holds are players.
LEMMA HandsArePlayers ==
  ASSUME TypeOK, RefsCreated, LocalsInUse, NEW r \in Procs
  PROVE  InHands(r) \subseteq Players
  BY DEF TypeOK, RefsCreated, LocalsInUse, InUse, InHands

\* A player's ticket goes on backing him until his own match.
LEMMA BackedStep ==
  ASSUME Env = {}, IndInv, CalmInv, [Next]_vars, NEW p \in Players, Backed(p),
         \A r \in Procs : CompleteMatch(r) => p \notin InHands(r)
  PROVE  Backed(p)' /\ key'[p] = key[p]
  <1> DEFINE t == key[p]
  <1>1. /\ t \in Tickets /\ t # NoTicket /\ status[t] = "queued"
        /\ owner[t] = p /\ owner[t] # NoPlayer
        /\ \A r \in Requests : Enqueuing(r) => own[r] # t
    BY IdAssumption DEF Backed, IndInv, TypeOK, LockOnlyForOpenTicket
  <1>2. TypeOK /\ RefsCreated /\ LocalsInUse /\ FoundAmongPicked
        /\ OnlyMatchesEnd /\ ReadsAreCurrent
    BY DEF IndInv, CalmInv
  <1>3. ASSUME key'[p] = t, status'[t] = "queued",
               \A r \in Requests : Enqueuing(r)' =>
                 own'[r] # t
        PROVE  Backed(p)' /\ key'[p] = key[p]
    BY <1>1, <1>3 DEF Backed
  <1> HIDE DEF t
  <1>4. CASE Quiet
    BY <1>1, <1>3, <1>4, IdAssumption DEF Quiet, t
  <1>5. ASSUME NEW r \in Requests, NEW q \in Players, NEW u \in Tickets,
               CreateMatchTicket(r, q, u)
        PROVE  Backed(p)' /\ key'[p] = key[p]
    <2>1. q # p /\ u # t
      BY <1>1, <1>5 DEF CreateMatchTicket, NotLocked, t
    <2>2. key'[p] = t /\ status'[t] = "queued"
      BY <1>1, <1>2, <1>5, <2>1 DEF CreateMatchTicket, TypeOK, t
    <2>3. \A s \in Requests : Enqueuing(s)' => own'[s] # t
      BY <1>1, <1>2, <1>5, <2>1 DEF CreateMatchTicket, TypeOK, Enqueuing, Goto, Procs
    <2>4. QED BY <1>3, <2>2, <2>3
  <1>6. ASSUME NEW r \in Requests, WriteTicketHash(r) \/ AddPlayerToPool(r)
        PROVE  Backed(p)' /\ key'[p] = key[p]
    <2>1. key'[p] = t /\ status'[t] = "queued"
      BY <1>1, <1>2, <1>6 DEF WriteTicketHash, AddPlayerToPool, indexVars,
         ticketVars, TypeOK, t
    <2>2. \A s \in Requests : Enqueuing(s)' => Enqueuing(s) /\ own'[s] = own[s]
      BY <1>2, <1>6 DEF WriteTicketHash, AddPlayerToPool, localVars, Goto,
         Enqueuing, TypeOK, Procs
    <2>3. QED BY <1>1, <1>3, <2>1, <2>2
  <1>7. ASSUME NEW r \in Procs, CompleteMatch(r)
        PROVE  Backed(p)' /\ key'[p] = key[p]
    <2>1. p \notin InHands(r)
      BY <1>7
    <2>2. key'[p] = t
      BY <1>2, <1>7, <2>1, MatchMoves DEF t
    <2>3. t \notin found[r]
      BY <1>1, <1>2, <1>7, <2>1, MatchMoves DEF Owners
    <2>4. status'[t] = "queued"
      BY <1>1, <1>2, <1>7, <2>3, MatchMoves
    <2>5. \A s \in Requests : Enqueuing(s)' => Enqueuing(s) /\ own'[s] = own[s]
      BY <1>2, <1>7, MatchMoves DEF Enqueuing, Procs
    <2>6. QED BY <1>1, <1>3, <2>2, <2>4, <2>5
  <1>8. ASSUME NEW r \in Procs, SearchAndPickTicketPlayers(r) \/ RequeuePlayer(r)
        PROVE  Backed(p)' /\ key'[p] = key[p]
    <2>1. key' = key /\ status' = status /\ own' = own
          /\ \A s \in Requests : Enqueuing(s)' => Enqueuing(s)
      BY <1>2, <1>8, PickMoves, RequeueMoves DEF Enqueuing, Procs
    <2>2. QED BY <1>1, <1>3, <2>1 DEF t
  <1>9. QED BY <1>4, <1>5, <1>6, <1>7, <1>8, CalmSteps DEF Moving

\* A match ends the one queued ticket of each of its players.
LEMMA MatchedAreCurrent ==
  ASSUME IndInv, CalmInv, NEW r \in Procs, CompleteMatch(r),
         NEW t \in Tickets, status'[t] = "queued"
  PROVE  status[t] = "queued" /\ owner[t] \notin InHands(r)
  <1>1. /\ status[t] = "queued" /\ t \notin found[r]
        /\ InHands(r) = Owners(found[r])
    BY MatchMoves DEF IndInv
  <1>2. key[owner[t]] = t
    BY <1>1 DEF CalmInv, QueuedHoldsLock
  <1>3. ASSUME owner[t] \in Owners(found[r]) PROVE FALSE
    <2>1. PICK u \in found[r] : owner[u] = owner[t]
      BY <1>3 DEF Owners
    <2>2. key[owner[u]] = u
      BY DEF CalmInv, ReadsAreCurrent
    <2>3. QED BY <1>1, <1>2, <2>1, <2>2
  <1>4. QED BY <1>1, <1>3

\* Whoever queues a ticket has its player's lock, and only a match deletes it.
LEMMA QueuedHoldsLockStep ==
  ASSUME Env = {}, IndInv, CalmInv, [Next]_vars
  PROVE  QueuedHoldsLock'
  <1> SUFFICES ASSUME NEW t \in Tickets, status'[t] = "queued"
               PROVE  key'[owner'[t]] = t
    BY DEF QueuedHoldsLock
  <1>1. /\ TypeOK /\ RefsCreated /\ LocalsInUse /\ FoundAmongPicked
        /\ OnlyMatchesEnd /\ ReadsAreCurrent
        /\ QueuedHoldsLock /\ EnqueuingHoldsLock
    BY DEF IndInv, CalmInv
  <1>2. status[t] = "queued" =>
          /\ owner[t] \in Players /\ owner'[t] = owner[t]
          /\ key[owner[t]] = t /\ key[owner[t]] # NoTicket
    BY <1>1, OwnerStable, IdAssumption DEF RefsCreated, TypeOK, QueuedHoldsLock
  <1>3. CASE Quiet
    BY <1>2, <1>3 DEF Quiet
  <1>4. ASSUME NEW r \in Requests, NEW p \in Players, NEW u \in Tickets,
               CreateMatchTicket(r, p, u)
        PROVE  key'[owner'[t]] = t
    BY <1>1, <1>2, <1>4 DEF CreateMatchTicket, NotLocked, TypeOK
  <1>5. ASSUME NEW r \in Requests, WriteTicketHash(r) PROVE key'[owner'[t]] = t
    <2>1. status[t] = "queued" \/ (t = own[r] /\ Enqueuing(r))
      BY <1>1, <1>5 DEF WriteTicketHash, TypeOK, Enqueuing
    <2>2. key' = key /\ owner' = owner
      BY <1>5 DEF WriteTicketHash, indexVars
    <2>3. QED BY <1>1, <1>2, <2>1, <2>2 DEF EnqueuingHoldsLock
  <1>6. ASSUME NEW r \in Requests, AddPlayerToPool(r) PROVE key'[owner'[t]] = t
    BY <1>2, <1>6 DEF AddPlayerToPool, ticketVars
  <1>7. ASSUME NEW r \in Procs, CompleteMatch(r) PROVE key'[owner'[t]] = t
    <2>1. status[t] = "queued" /\ owner[t] \notin InHands(r)
      BY <1>7, MatchedAreCurrent
    <2>2. QED BY <1>1, <1>2, <1>7, <2>1, MatchMoves
  <1>8. ASSUME NEW r \in Procs, SearchAndPickTicketPlayers(r) \/ RequeuePlayer(r)
        PROVE  key'[owner'[t]] = t
    BY <1>1, <1>2, <1>8, PickMoves, RequeueMoves
  <1>9. QED BY <1>3, <1>4, <1>5, <1>6, <1>7, <1>8, CalmSteps DEF Moving

\* A request keeps the lock of its new ticket while it writes the rest.
LEMMA EnqueuingHoldsLockStep ==
  ASSUME Env = {}, IndInv, CalmInv, [Next]_vars
  PROVE  EnqueuingHoldsLock'
  <1> DEFINE Good(r) == /\ key'[owner'[own'[r]]] = own'[r]
                        /\ pc'[r] # "hset" => status'[own'[r]] = "queued"
                        /\ \A s \in Procs : own'[s] = own'[r] => s = r
  <1> SUFFICES ASSUME NEW r \in Requests, Enqueuing(r)' PROVE Good(r)
    BY DEF EnqueuingHoldsLock
  <1>1. /\ TypeOK /\ RefsCreated /\ LocalsInUse /\ FoundAmongPicked
        /\ OnlyMatchesEnd /\ ReadsAreCurrent /\ LockOnlyForOpenTicket
        /\ EnqueuingHoldsLock /\ HandsAreBacked /\ r \in Procs
    BY DEF IndInv, CalmInv, Procs
  <1>2. Enqueuing(r) =>
          /\ own[r] \in Tickets /\ own[r] # NoTicket
          /\ owner[own[r]] \in Players /\ owner'[own[r]] = owner[own[r]]
          /\ key[owner[own[r]]] = own[r]
          /\ pc[r] # "hset" => status[own[r]] = "queued"
          /\ \A s \in Procs : own[s] = own[r] => s = r
    BY <1>1, OwnerStable, IdAssumption
    DEF RefsCreated, TypeOK, EnqueuingHoldsLock, LocalsInUse, InUse, Enqueuing,
        CreateSteps
  <1>3. CASE Quiet
    BY <1>2, <1>3 DEF Quiet
  <1>4. ASSUME NEW q \in Requests, NEW p \in Players, NEW u \in Tickets,
               CreateMatchTicket(q, p, u)
        PROVE  Good(r)
    <2>1. q \in Procs /\ owner[u] = NoPlayer /\ key[p] = NoTicket
          /\ \A s \in Procs : own[s] # u
      BY <1>1, <1>4, IdAssumption DEF CreateMatchTicket, NotLocked, RefsCreated, Procs
    <2>2. CASE r = q
      <3>1. own'[r] = u /\ owner'[u] = p /\ key'[p] = u /\ pc'[r] = "hset"
            /\ \A s \in Procs \ {r} : own'[s] = own[s]
        BY <1>1, <1>4, <2>2 DEF CreateMatchTicket, Goto, TypeOK
      <3>2. QED BY <2>1, <3>1
    <2>3. CASE r # q
      <3>1. Enqueuing(r) /\ own'[r] = own[r] /\ pc'[r] = pc[r] /\ own'[q] = u
            /\ \A s \in Procs \ {q} : own'[s] = own[s]
            /\ status' = status
        BY <1>1, <1>4, <2>1, <2>3 DEF CreateMatchTicket, Goto, TypeOK, Enqueuing
      <3>2. owner[own[r]] # p
        BY <1>2, <2>1, <3>1
      <3>3. key'[owner[own[r]]] = own[r]
        BY <1>1, <1>2, <1>4, <3>1, <3>2 DEF CreateMatchTicket, TypeOK
      <3>4. QED BY <1>1, <1>2, <2>1, <3>1, <3>3
    <2>4. QED BY <2>2, <2>3
  <1>5. ASSUME NEW q \in Requests, WriteTicketHash(q) \/ AddPlayerToPool(q)
        PROVE  Good(r)
    <2>1. Enqueuing(r) /\ own' = own /\ key' = key
      BY <1>1, <1>5 DEF WriteTicketHash, AddPlayerToPool, Enqueuing, Goto,
         TypeOK, indexVars, localVars
    <2>2. pc'[r] # "hset" => status'[own[r]] = "queued"
      BY <1>1, <1>2, <1>5, <2>1 DEF WriteTicketHash, AddPlayerToPool, Enqueuing,
         Goto, TypeOK, ticketVars
    <2>3. QED BY <1>2, <2>1, <2>2
  <1>6. ASSUME NEW q \in Procs, CompleteMatch(q) PROVE Good(r)
    <2>1. Enqueuing(r) /\ own'[r] = own[r] /\ pc'[r] = pc[r]
          /\ \A s \in Procs : own'[s] \in {own[s], NoTicket}
      BY <1>1, <1>6, MatchMoves DEF Enqueuing
    <2>2. owner[own[r]] \notin InHands(q)
      BY <1>2, <2>1, <1>1 DEF HandsAreBacked, Backed
    <2>3. own[r] \notin found[q]
      BY <1>1, <1>6, <2>2, MatchMoves DEF Owners
    <2>4. key'[owner[own[r]]] = own[r] /\ status'[own[r]] = status[own[r]]
      BY <1>1, <1>2, <1>6, <2>1, <2>2, <2>3, MatchMoves
    <2>5. QED BY <1>2, <2>1, <2>4
  <1>7. ASSUME NEW q \in Procs, SearchAndPickTicketPlayers(q) \/ RequeuePlayer(q)
        PROVE  Good(r)
    <2>1. r # q
      BY <1>1, <1>7, PickMoves, RequeueMoves
    <2>2. /\ Enqueuing(r) /\ pc'[r] = pc[r]
          /\ owner' = owner /\ own' = own /\ key' = key /\ status' = status
      BY <1>1, <1>7, <2>1, PickMoves, RequeueMoves DEF Enqueuing
    <2>3. QED BY <1>2, <2>2
  <1>8. QED BY <1>3, <1>4, <1>5, <1>6, <1>7, CalmSteps DEF Moving

\* Nobody is in the pool without a queued ticket.
LEMMA PoolIsBackedStep ==
  ASSUME Env = {}, IndInv, CalmInv, [Next]_vars
  PROVE  PoolIsBacked'
  <1> SUFFICES ASSUME NEW p \in pool' PROVE Backed(p)'
    BY DEF PoolIsBacked
  <1>1. /\ TypeOK /\ RefsCreated /\ LocalsInUse /\ FoundAmongPicked
        /\ OnlyMatchesEnd /\ ReadsAreCurrent /\ EnqueuingHoldsLock
        /\ PoolIsBacked /\ HandsAreBacked /\ ExclusivePick
    BY DEF IndInv, CalmInv
  <1>2. ASSUME p \in pool PROVE Backed(p)'
    <2>1. p \in Players /\ Backed(p)
      BY <1>1, <1>2 DEF TypeOK, PoolIsBacked
    <2>2. \A r \in Procs : p \notin InHands(r)
      BY <1>1, <1>2 DEF ExclusivePick
    <2>3. QED BY <2>1, <2>2, BackedStep
  <1>3. ASSUME NEW r \in Requests, AddPlayerToPool(r), p \notin pool
        PROVE  Backed(p)'
    <2>1. /\ r \in Procs /\ Enqueuing(r) /\ pc[r] = "pool"
          /\ own[r] \in Tickets /\ own[r] # NoTicket /\ p = owner[own[r]]
      BY <1>1, <1>3, IdAssumption
      DEF AddPlayerToPool, Enqueuing, LocalsInUse, InUse, CreateSteps, Procs, TypeOK
    <2>2. key' = key /\ status' = status /\ own' = own
          /\ \A s \in Requests : Enqueuing(s)' => Enqueuing(s) /\ s # r
      BY <1>1, <1>3, <2>1 DEF AddPlayerToPool, ticketVars, localVars, Goto,
         Enqueuing, TypeOK
    <2>3. key[p] = own[r] /\ status[own[r]] = "queued"
          /\ \A s \in Procs : own[s] = own[r] => s = r
      BY <1>1, <2>1 DEF EnqueuingHoldsLock
    <2>4. QED BY <2>1, <2>2, <2>3 DEF Backed, Procs
  <1>4. ASSUME NEW r \in Procs, RequeuePlayer(r), p \notin pool
        PROVE  Backed(p)'
    <2>1. p \in InHands(r)
      BY <1>1, <1>4, RequeueMoves
    <2>2. p \in Players /\ Backed(p)
      BY <1>1, <2>1, HandsArePlayers DEF HandsAreBacked
    <2>3. ASSUME NEW s \in Procs, CompleteMatch(s) PROVE FALSE
      <3>1. s = r
        BY <1>1, <1>4, <2>3, MatchMoves, RequeueMoves
      <3>2. QED BY <1>4, <2>3, <3>1 DEF CompleteMatch, RequeuePlayer
    <2>4. QED BY <2>2, <2>3, BackedStep
  <1>5. p \in pool \/ (\E r \in Requests : AddPlayerToPool(r))
          \/ (\E r \in Procs : RequeuePlayer(r))
    BY <1>1, CalmSteps, PickMoves, MatchMoves
    DEF Quiet, Moving, CreateMatchTicket, WriteTicketHash, indexVars
  <1>6. QED BY <1>2, <1>3, <1>4, <1>5

\* Nobody is in anybody's hands without a queued ticket.
LEMMA HandsAreBackedStep ==
  ASSUME Env = {}, IndInv, CalmInv, [Next]_vars
  PROVE  HandsAreBacked'
  <1> SUFFICES ASSUME NEW s \in Procs, NEW p \in InHands(s)' PROVE Backed(p)'
    BY DEF HandsAreBacked
  <1>1. /\ TypeOK /\ RefsCreated /\ LocalsInUse /\ FoundAmongPicked
        /\ OnlyMatchesEnd /\ ReadsAreCurrent
        /\ PoolIsBacked /\ HandsAreBacked /\ ExclusivePick
    BY DEF IndInv, CalmInv
  <1>2. ASSUME p \in InHands(s) PROVE Backed(p)'
    <2>1. p \in Players /\ Backed(p)
      BY <1>1, <1>2, HandsArePlayers DEF HandsAreBacked
    <2>2. ASSUME NEW r \in Procs, CompleteMatch(r), p \in InHands(r) PROVE FALSE
      <3>1. r = s
        BY <1>1, <1>2, <2>2 DEF ExclusivePick
      <3>2. InHands(s)' = {}
        BY <1>1, <2>2, <3>1, MatchMoves
      <3>3. QED BY <3>2
    <2>3. QED BY <2>1, <2>2, BackedStep
  <1>3. ASSUME NEW r \in Procs, SearchAndPickTicketPlayers(r), p \in pool
        PROVE  Backed(p)'
    <2>1. p \in Players /\ Backed(p)
      BY <1>1, <1>3 DEF TypeOK, PoolIsBacked
    <2>2. \A q \in Procs : p \notin InHands(q)
      BY <1>1, <1>3 DEF ExclusivePick
    <2>3. QED BY <2>1, <2>2, BackedStep
  <1>4. p \in InHands(s)
          \/ (\E r \in Procs : SearchAndPickTicketPlayers(r) /\ p \in pool)
    <2>1. CASE Quiet
      BY <2>1 DEF Quiet
    <2>2. ASSUME NEW r \in Requests,
                 \/ \E q \in Players, t \in Tickets : CreateMatchTicket(r, q, t)
                 \/ WriteTicketHash(r) \/ AddPlayerToPool(r)
          PROVE  p \in InHands(s)
      BY <1>1, <2>2, CreationMoves
    <2>3. ASSUME NEW r \in Procs, SearchAndPickTicketPlayers(r)
          PROVE  p \in InHands(s) \/ p \in pool
      BY <1>1, <2>3, PickMoves
    <2>4. ASSUME NEW r \in Procs, CompleteMatch(r) \/ RequeuePlayer(r)
          PROVE  p \in InHands(s)
      BY <1>1, <2>4, MatchMoves, RequeueMoves
    <2>5. QED BY <2>1, <2>2, <2>3, <2>4, CalmSteps DEF Moving
  <1>5. QED BY <1>2, <1>3, <1>4

\* What a goroutine has read of the players in its hands stays so: nobody else
\* can match them, and their locks are deleted by nothing else.
LEMMA ReadsAreCurrentStep ==
  ASSUME Env = {}, IndInv, CalmInv, [Next]_vars
  PROVE  ReadsAreCurrent'
  <1> DEFINE Looking == {"getticket", "reqticket", "requeue"}
             Kept(s) == /\ \A t \in found'[s] : key'[owner'[t]] = t
                        /\ pc'[s] \in Looking => key'[owner'[look'[s]]] = look'[s]
                        /\ pc'[s] \in {"reqticket", "requeue"} =>
                             owner'[look'[s]] \notin todo'[s]
  <1> SUFFICES ASSUME NEW s \in Procs PROVE Kept(s)
    BY DEF ReadsAreCurrent
  <1>1. /\ TypeOK /\ RefsCreated /\ LocalsInUse /\ FoundAmongPicked
        /\ OnlyMatchesEnd /\ ReadsAreCurrent /\ LockOnlyForOpenTicket
        /\ HandsAreBacked /\ ExclusivePick /\ PickedBy(s) /\ InUse(s)
    BY DEF IndInv, CalmInv, FoundAmongPicked, LocalsInUse
  <1>2. /\ \A t \in found[s] :
             owner[t] \in InHands(s) /\ owner'[t] = owner[t] /\ key[owner[t]] = t
        /\ pc[s] \in Looking =>
             /\ owner[look[s]] \in InHands(s) /\ owner'[look[s]] = owner[look[s]]
             /\ key[owner[look[s]]] = look[s]
    <2>1. \A t \in found[s] : owner[t] \in held[s] /\ pc[s] \in MatchSteps
      BY <1>1 DEF PickedBy, InUse, Owners
    <2>2. pc[s] = "getticket" => owner[look[s]] \in held[s]
      BY <1>1 DEF PickedBy
    <2>3. /\ \A t \in found[s] : owner[t] \in InHands(s)
          /\ pc[s] \in Looking => owner[look[s]] \in InHands(s)
      BY <2>1, <2>2 DEF InHands, MatchSteps
    <2>4. pc[s] \in Looking => look[s] # NoTicket /\ look[s] \in Tickets
      BY <1>1 DEF InUse, TypeOK
    <2>5. /\ \A t \in found[s] : owner'[t] = owner[t]
          /\ pc[s] \in Looking => owner'[look[s]] = owner[look[s]]
      BY <1>1, <2>4, OwnerStable DEF RefsCreated, TypeOK
    <2>6. /\ \A t \in found[s] : key[owner[t]] = t
          /\ pc[s] \in Looking => key[owner[look[s]]] = look[s]
      BY <1>1 DEF ReadsAreCurrent
    <2>7. QED BY <2>3, <2>5, <2>6
  <1>3. ASSUME NEW p \in InHands(s), ~CompleteMatch(s) PROVE key'[p] = key[p]
    <2>1. p \in Players /\ Backed(p)
      BY <1>1, HandsArePlayers DEF HandsAreBacked
    <2>2. \A r \in Procs : CompleteMatch(r) => p \notin InHands(r)
      BY <1>1, <1>3 DEF ExclusivePick
    <2>3. QED BY <2>1, <2>2, BackedStep
  <1>4. CASE Cleared(s)
    BY <1>4 DEF Cleared
  <1>5. ASSUME found'[s] = found[s], ~CompleteMatch(s),
               pc'[s] \in Looking =>
                 pc[s] \in Looking /\ look'[s] = look[s] /\ todo'[s] = todo[s],
               pc'[s] \in {"reqticket", "requeue"} =>
                 pc[s] \in {"reqticket", "requeue"}
        PROVE  Kept(s)
    <2>1. \A t \in found'[s] : key'[owner'[t]] = t
      BY <1>2, <1>3, <1>5
    <2>2. pc'[s] \in Looking => key'[owner'[look'[s]]] = look'[s]
      BY <1>2, <1>3, <1>5
    <2>3. pc'[s] \in {"reqticket", "requeue"} => owner'[look'[s]] \notin todo'[s]
      BY <1>1, <1>2, <1>5 DEF ReadsAreCurrent
    <2>4. QED BY <2>1, <2>2, <2>3
  <1>6. CASE Same(s) \/ Moves(s)
    <2>1. ~CompleteMatch(s)
      BY <1>1, <1>6, MatchMoves
      DEF Same, Moves, Locals, CompleteMatch, Finish, Goto, TypeOK, CreateSteps
    <2>2. QED BY <1>5, <1>6, <2>1 DEF Same, Moves, Locals, CreateSteps
  <1>7. CASE Acts(s)
    <2> USE DEF localVars, ticketVars, indexVars, Goto, TypeOK
    <2>1. ASSUME NEW p \in Players, NEW t \in Tickets, CreateMatchTicket(s, p, t)
          PROVE  Kept(s)
      BY <1>1, <1>5, <2>1 DEF CreateMatchTicket, CompleteMatch
    <2>2. ASSUME NEW t \in Tickets, ReadTicketToCancel(s, t) PROVE Kept(s)
      BY <2>2 DEF ReadTicketToCancel
    <2>3. ASSUME \/ SearchAndPickTicketPlayers(s) \/ AllocateRoomFails(s)
                 \/ \E m \in Matches : AllocateRoom(s, m)
          PROVE  Kept(s)
      BY <1>1, <1>5, <2>3
      DEF SearchAndPickTicketPlayers, AllocateRoomFails, AllocateRoom, CompleteMatch
    <2>4. ASSUME ReleaseRoom(s) PROVE Kept(s)
      BY <1>1, <2>4 DEF ReleaseRoom
    <2>5. ASSUME NEW p \in Players, GetPlayerTicketID(s, p) PROVE Kept(s)
      <3>1. /\ found'[s] = found[s] /\ look'[s] = key[p]
            /\ todo'[s] = todo[s] \ {p} /\ key' = key /\ owner' = owner
            /\ pc'[s] \in Looking => key[p] # NoTicket
        BY <1>1, <2>5 DEF GetPlayerTicketID
      <3>2. key[p] # NoTicket => owner[key[p]] = p
        BY <1>1 DEF LockOnlyForOpenTicket
      <3>3. QED BY <1>2, <3>1, <3>2
    <2>6. ASSUME ReadTicketToMatch(s) PROVE Kept(s)
      <3>1. /\ found'[s] \subseteq found[s] \cup {look[s]} /\ key' = key
            /\ owner' = owner /\ pc'[s] = "getkey" /\ pc[s] = "getticket"
        BY <1>1, <2>6 DEF ReadTicketToMatch
      <3>2. QED BY <1>2, <3>1
    <2>7. QED BY <1>7, <2>1, <2>2, <2>3, <2>4, <2>5, <2>6 DEF Acts
  <1>8. QED BY <1>4, <1>6, <1>7, <1>1, LocalFrame

\* Only a match gives a ticket its match_id.
LEMMA UnmatchedHasNoMatchStep ==
  ASSUME Env = {}, IndInv, CalmInv, [Next]_vars
  PROVE  UnmatchedHasNoMatch'
  <1> SUFFICES ASSUME NEW t \in Tickets, status'[t] # "matched"
               PROVE  matchOf'[t] = NoMatch
    BY DEF UnmatchedHasNoMatch
  <1>1. /\ TypeOK /\ RefsCreated /\ LocalsInUse /\ FoundAmongPicked
        /\ OnlyMatchesEnd /\ ReadsAreCurrent /\ UnwrittenIsPrivate
        /\ UnmatchedHasNoMatch
    BY DEF IndInv, CalmInv
  <1>2. ASSUME matchOf'[t] = matchOf[t], status[t] # "matched"
        PROVE  matchOf'[t] = NoMatch
    BY <1>1, <1>2 DEF UnmatchedHasNoMatch
  <1>3. CASE Quiet
    BY <1>2, <1>3 DEF Quiet
  <1>4. ASSUME NEW r \in Requests, NEW p \in Players, NEW u \in Tickets,
               CreateMatchTicket(r, p, u)
        PROVE  matchOf'[t] = NoMatch
    BY <1>2, <1>4 DEF CreateMatchTicket
  <1>5. ASSUME NEW r \in Requests, WriteTicketHash(r) PROVE matchOf'[t] = NoMatch
    <2>1. matchOf'[t] = matchOf[t] /\ (status'[t] = status[t] \/ t = own[r])
          /\ status[own[r]] = "none"
      BY <1>1, <1>5 DEF WriteTicketHash, TypeOK, UnwrittenIsPrivate
    <2>2. QED BY <1>2, <2>1
  <1>6. ASSUME NEW r \in Requests, AddPlayerToPool(r) PROVE matchOf'[t] = NoMatch
    BY <1>2, <1>6 DEF AddPlayerToPool, ticketVars
  <1>7. ASSUME NEW r \in Procs, CompleteMatch(r) PROVE matchOf'[t] = NoMatch
    BY <1>1, <1>2, <1>7, MatchMoves
  <1>8. ASSUME NEW r \in Procs, SearchAndPickTicketPlayers(r) \/ RequeuePlayer(r)
        PROVE  matchOf'[t] = NoMatch
    BY <1>1, <1>2, <1>8, PickMoves, RequeueMoves
  <1>9. QED BY <1>3, <1>4, <1>5, <1>6, <1>7, <1>8, CalmSteps DEF Moving

\* Nobody gets into two places.
LEMMA ExclusivePickStep ==
  ASSUME Env = {}, IndInv, CalmInv, [Next]_vars
  PROVE  ExclusivePick'
  <1>1. /\ TypeOK /\ RefsCreated /\ LocalsInUse /\ FoundAmongPicked
        /\ OnlyMatchesEnd /\ ReadsAreCurrent /\ EnqueuingHoldsLock
        /\ HandsAreBacked /\ ExclusivePick
    BY DEF IndInv, CalmInv
  <1>2. CASE Quiet
    BY <1>1, <1>2 DEF Quiet, ExclusivePick
  <1>3. ASSUME NEW r \in Requests,
               \/ \E p \in Players, t \in Tickets : CreateMatchTicket(r, p, t)
               \/ WriteTicketHash(r)
        PROVE  ExclusivePick'
    <2>1. pool' = pool /\ \A s \in Procs : InHands(s)' = InHands(s)
      BY <1>1, <1>3, CreationMoves DEF CreateMatchTicket, WriteTicketHash, indexVars
    <2>2. QED BY <1>1, <2>1 DEF ExclusivePick
  <1>4. ASSUME NEW r \in Requests, AddPlayerToPool(r) PROVE ExclusivePick'
    <2> DEFINE p == owner[own[r]]
    <2>1. pool' = pool \cup {p} /\ \A s \in Procs : InHands(s)' = InHands(s)
      BY <1>1, <1>4, CreationMoves DEF AddPlayerToPool
    <2>2. key[p] = own[r] /\ Enqueuing(r)
      BY <1>1, <1>4 DEF AddPlayerToPool, Enqueuing, EnqueuingHoldsLock
    <2>3. \A s \in Procs : p \notin InHands(s)
      BY <1>1, <2>2 DEF HandsAreBacked, Backed
    <2> HIDE DEF p
    <2>4. QED BY <1>1, <2>1, <2>3 DEF ExclusivePick
  <1>5. ASSUME NEW r \in Procs, SearchAndPickTicketPlayers(r) PROVE ExclusivePick'
    BY <1>1, <1>5, PickMoves DEF ExclusivePick
  <1>6. ASSUME NEW r \in Procs, CompleteMatch(r) PROVE ExclusivePick'
    BY <1>1, <1>6, MatchMoves DEF ExclusivePick
  <1>7. ASSUME NEW r \in Procs, RequeuePlayer(r) PROVE ExclusivePick'
    BY <1>1, <1>7, RequeueMoves DEF ExclusivePick
  <1>8. QED BY <1>2, <1>3, <1>4, <1>5, <1>6, <1>7, CalmSteps DEF Moving

\* No step forgets the player of a queued ticket.
LEMMA QueuedNotLostStep ==
  ASSUME Env = {}, IndInv, CalmInv, [Next]_vars
  PROVE  QueuedNotLost'
  <1> DEFINE Creator(r, t) == own[r] = t /\ pc[r] \in {"expire", "pool"}
             Kept(t) == \/ owner'[t] \in pool'
                        \/ \E r \in Procs : owner'[t] \in InHands(r)'
                        \/ \E r \in Requests : Creator(r, t)'
  <1> SUFFICES ASSUME NEW t \in Tickets, status'[t] = "queued" PROVE Kept(t)
    BY DEF QueuedNotLost
  <1>1. /\ TypeOK /\ RefsCreated /\ LocalsInUse /\ FoundAmongPicked
        /\ OnlyMatchesEnd /\ ReadsAreCurrent /\ QueuedNotLost
    BY DEF IndInv, CalmInv
  <1>2. status[t] = "queued" =>
          /\ owner'[t] = owner[t]
          /\ \/ owner[t] \in pool
             \/ \E r \in Procs : owner[t] \in InHands(r)
             \/ \E r \in Requests : Creator(r, t)
    BY <1>1, OwnerStable DEF RefsCreated, QueuedNotLost
  <1>3. CASE Quiet
    <2>1. \A r \in Requests : Creator(r, t) => Creator(r, t)'
      BY <1>3 DEF Quiet, Enqueuing
    <2>2. QED BY <1>2, <1>3, <2>1 DEF Quiet
  <1>4. ASSUME NEW r \in Requests,
               \/ \E p \in Players, u \in Tickets : CreateMatchTicket(r, p, u)
               \/ WriteTicketHash(r) \/ AddPlayerToPool(r)
        PROVE  Kept(t)
    <2>1. pool \subseteq pool'
      BY <1>4 DEF CreateMatchTicket, WriteTicketHash, AddPlayerToPool, indexVars
    <2>2. \A s \in Procs : InHands(s)' = InHands(s)
      BY <1>1, <1>4, CreationMoves
    <2>3. ASSUME status[t] = "queued", NEW s \in Requests, Creator(s, t)
          PROVE  Kept(t)
      <3>1. CASE s # r
        BY <1>1, <1>4, <2>3, <3>1, CreationMoves DEF Procs
      <3>2. CASE s = r
        BY <2>3, <3>2, <1>4, <1>2
        DEF CreateMatchTicket, WriteTicketHash, AddPlayerToPool
      <3>3. QED BY <3>1, <3>2
    <2>4. CASE status[t] = "queued"
      BY <1>2, <2>1, <2>2, <2>3, <2>4
    <2>5. CASE status[t] # "queued"
      <3>1. WriteTicketHash(r) /\ t = own[r]
        BY <1>1, <1>4, <2>5
        DEF CreateMatchTicket, WriteTicketHash, AddPlayerToPool, ticketVars, TypeOK
      <3>2. Creator(r, t)'
        BY <1>1, <3>1 DEF WriteTicketHash, Goto, localVars, TypeOK, Procs
      <3>3. QED BY <3>2
    <2>6. QED BY <2>4, <2>5
  <1>5. ASSUME NEW r \in Procs, SearchAndPickTicketPlayers(r) PROVE Kept(t)
    <2>1. status[t] = "queued" /\ \A s \in Requests : Creator(s, t) => Creator(s, t)'
      BY <1>1, <1>5, PickMoves DEF Enqueuing, Procs
    <2>2. QED BY <1>1, <1>2, <1>5, <2>1, PickMoves
  <1>6. ASSUME NEW r \in Procs, CompleteMatch(r) PROVE Kept(t)
    <2>1. status[t] = "queued" /\ owner[t] \notin InHands(r)
      BY <1>6, MatchedAreCurrent
    <2>2. \A s \in Requests : Creator(s, t) => Creator(s, t)'
      BY <1>1, <1>6, MatchMoves DEF Enqueuing, Procs
    <2>3. QED BY <1>1, <1>2, <1>6, <2>1, <2>2, MatchMoves
  <1>7. ASSUME NEW r \in Procs, RequeuePlayer(r) PROVE Kept(t)
    <2>1. status[t] = "queued" /\ \A s \in Requests : Creator(s, t) => Creator(s, t)'
      BY <1>1, <1>7, RequeueMoves DEF Enqueuing, Procs
    <2>2. QED BY <1>1, <1>2, <1>7, <2>1, RequeueMoves
  <1>8. QED BY <1>3, <1>4, <1>5, <1>6, <1>7, CalmSteps DEF Moving

\* The empty system satisfies the invariant.
LEMMA CalmInit == Init => CalmInv
  <1> SUFFICES ASSUME Init PROVE CalmInv
    OBVIOUS
  <1>1. OnlyMatchesEnd /\ QueuedHoldsLock /\ UnmatchedHasNoMatch /\ QueuedNotLost
    BY DEF Init, OnlyMatchesEnd, QueuedHoldsLock, UnmatchedHasNoMatch, QueuedNotLost
  <1>2. EnqueuingHoldsLock /\ ReadsAreCurrent /\ PoolIsBacked
    BY DEF Init, EnqueuingHoldsLock, Enqueuing, ReadsAreCurrent, PoolIsBacked, Procs
  <1>3. \A r \in Procs : InHands(r) = {}
    BY DEF Init, InHands
  <1>4. HandsAreBacked /\ ExclusivePick
    BY <1>3 DEF HandsAreBacked, ExclusivePick
  <1>5. QED BY <1>1, <1>2, <1>4 DEF CalmInv

\* Every step preserves the invariant as long as there are no hazards.
LEMMA CalmStep ==
  ASSUME Env = {}, IndInv, CalmInv, [Next]_vars PROVE CalmInv'
  BY OnlyMatchesEndStep, QueuedHoldsLockStep, EnqueuingHoldsLockStep,
     PoolIsBackedStep, HandsAreBackedStep, ReadsAreCurrentStep,
     UnmatchedHasNoMatchStep, ExclusivePickStep, QueuedNotLostStep
  DEF CalmInv, IndInv

LEMMA CalmInvariant == ASSUME Env = {} PROVE Spec => []CalmInv
  <1>1. Init => CalmInv
    BY CalmInit
  <1>2. IndInv /\ CalmInv /\ [Next]_vars => CalmInv'
    BY CalmStep
  <1>3. QED BY <1>1, <1>2, Inductive, PTL DEF Spec

\* As long as only matches end tickets, whatever requests and the worker do at
\* the same time: the player of a queued ticket is in the pool, or in the hands
\* of a goroutine that will match him or put him back.
THEOREM NoQueuedTicketIsLost == ASSUME Env = {} PROVE Spec => []QueuedNotLost
  <1>1. CalmInv => QueuedNotLost
    BY DEF CalmInv
  <1>2. QED BY <1>1, CalmInvariant, PTL

\* Then AtomicMatchScript gives no player to two goroutines, and no player who
\* is picked is also in the pool.
THEOREM PicksAreExclusive == ASSUME Env = {} PROVE Spec => []ExclusivePick
  <1>1. CalmInv => ExclusivePick
    BY DEF CalmInv
  <1>2. QED BY <1>1, CalmInvariant, PTL

\* Then the lock of CreateMatchTicket keeps a player to one queued ticket.
THEOREM OneTicketAtATime ==
  ASSUME Env = {} PROVE Spec => []OneQueuedTicketPerPlayer
  <1>1. CalmInv => OneQueuedTicketPerPlayer
    <2> SUFFICES ASSUME CalmInv, NEW t \in Tickets, NEW u \in Tickets,
                        status[t] = "queued", status[u] = "queued",
                        owner[t] = owner[u]
                 PROVE  t = u
      BY DEF OneQueuedTicketPerPlayer
    <2>1. key[owner[t]] = t /\ key[owner[u]] = u
      BY DEF CalmInv, QueuedHoldsLock
    <2>2. QED BY <2>1
  <1>2. QED BY <1>1, CalmInvariant, PTL

\* What a step does to a ticket that has been matched: nothing.
LEMMA MatchedStaysMatched ==
  ASSUME Env = {}, IndInv, CalmInv, [Next]_vars, NEW t \in Tickets,
         status[t] \in Terminal \/ matchOf[t] # NoMatch
  PROVE  status'[t] = status[t] /\ matchOf'[t] = matchOf[t]
  <1>1. /\ TypeOK /\ RefsCreated /\ LocalsInUse /\ FoundAmongPicked
        /\ OnlyMatchesEnd /\ ReadsAreCurrent /\ UnwrittenIsPrivate
        /\ HandsAreBacked /\ UnmatchedHasNoMatch
    BY DEF IndInv, CalmInv
  <1>2. status[t] \in Terminal
    BY <1>1 DEF UnmatchedHasNoMatch, Terminal
  <1>3. CASE Quiet
    BY <1>3 DEF Quiet
  <1>4. ASSUME NEW r \in Requests,
               \/ \E p \in Players, u \in Tickets : CreateMatchTicket(r, p, u)
               \/ AddPlayerToPool(r)
        PROVE  status'[t] = status[t] /\ matchOf'[t] = matchOf[t]
    BY <1>4 DEF CreateMatchTicket, AddPlayerToPool, ticketVars
  <1>5. ASSUME NEW r \in Requests, WriteTicketHash(r)
        PROVE  status'[t] = status[t] /\ matchOf'[t] = matchOf[t]
    <2>1. status[own[r]] = "none"
      BY <1>1, <1>5 DEF WriteTicketHash, UnwrittenIsPrivate
    <2>2. QED BY <1>1, <1>2, <1>5, <2>1 DEF WriteTicketHash, TypeOK, Terminal
  <1>6. ASSUME NEW r \in Procs, CompleteMatch(r)
        PROVE  status'[t] = status[t] /\ matchOf'[t] = matchOf[t]
    <2>1. ASSUME t \in found[r] PROVE FALSE
      <3>1. owner[t] \in InHands(r) /\ key[owner[t]] = t
        BY <1>1, <1>6, <2>1, MatchMoves DEF Owners, ReadsAreCurrent
      <3>2. status[t] = "queued"
        BY <1>1, <3>1 DEF HandsAreBacked, Backed
      <3>3. QED BY <1>2, <3>2 DEF Terminal
    <2>2. QED BY <1>1, <1>6, <2>1, MatchMoves
  <1>7. ASSUME NEW r \in Procs, SearchAndPickTicketPlayers(r) \/ RequeuePlayer(r)
        PROVE  status'[t] = status[t] /\ matchOf'[t] = matchOf[t]
    BY <1>1, <1>7, PickMoves, RequeueMoves
  <1>8. QED BY <1>3, <1>4, <1>5, <1>6, <1>7, CalmSteps DEF Moving

\* Then a ticket ends once: no goroutine's stale read overwrites its end.
THEOREM EndsAreFinal == ASSUME Env = {} PROVE Spec => TerminalIsFinal
  <1> DEFINE A == \A t \in Tickets : status[t] \in Terminal => status'[t] = status[t]
  <1>1. IndInv /\ CalmInv /\ [Next]_vars => [A]_vars
    BY MatchedStaysMatched
  <1> HIDE DEF A
  <1>2. Spec => [][A]_vars
    BY <1>1, Inductive, CalmInvariant, PTL DEF Spec
  <1>3. QED BY <1>2 DEF A, TerminalIsFinal

\* Then a ticket is put into one match only, through all requests that call
\* CompleteMatch beside the worker.
THEOREM MatchedOnce == ASSUME Env = {} PROVE Spec => NoRematch
  <1> DEFINE A == \A t \in Tickets : matchOf[t] # NoMatch => matchOf'[t] = matchOf[t]
  <1>1. IndInv /\ CalmInv /\ [Next]_vars => [A]_vars
    BY MatchedStaysMatched
  <1> HIDE DEF A
  <1>2. Spec => [][A]_vars
    BY <1>1, Inductive, CalmInvariant, PTL DEF Spec
  <1>3. QED BY <1>2 DEF A, NoRematch

-----------------------------------------------------------------------------
(* MatchTickets implements Matchmaking.                                    *)

PlayerOf == [t \in Tickets |-> IF status[t] = "none" THEN NoPlayer ELSE owner[t]]
Waiting == {t \in Tickets : status[t] = "queued"}

\* The HSET of a ticket's hash is Matchmaking's Queue: the lock has been set,
\* so no other ticket of the player waits.
LEMMA HashQueues ==
  ASSUME IndInv, CalmInv, NEW r \in Requests, WriteTicketHash(r)
  PROVE  \E p \in Players, t \in Tickets : Ideal!Queue(p, t)
  <1> USE DEF ticketVars, Procs
  <1>1. /\ TypeOK /\ RefsCreated /\ LocalsInUse /\ UnwrittenIsPrivate
        /\ EnqueuingHoldsLock /\ QueuedHoldsLock
    BY DEF IndInv, CalmInv
  <1>2. pc[r] = "hset" /\ UNCHANGED <<owner, matchOf>>
    BY DEF WriteTicketHash
  <1>3. own[r] \in Tickets /\ owner[own[r]] \in Players
    BY <1>1, <1>2 DEF LocalsInUse, InUse, CreateSteps, RefsCreated, TypeOK
  <1>4. PICK t \in Tickets, p \in Players : t = own[r] /\ p = owner[t]
    BY <1>3
  <1>5. status[t] = "none" /\ key[p] = t
    BY <1>1, <1>2, <1>4 DEF UnwrittenIsPrivate, EnqueuingHoldsLock, Enqueuing
  <1>6. status' = [status EXCEPT ![t] = "queued"] /\ status \in [Tickets -> Statuses]
    BY <1>1, <1>4 DEF WriteTicketHash, TypeOK
  <1>7. PlayerOf[t] = NoPlayer
    BY <1>5 DEF PlayerOf
  <1>8. \A u \in Waiting : PlayerOf[u] # p
    <2> SUFFICES ASSUME NEW u \in Waiting, PlayerOf[u] = p PROVE FALSE
      OBVIOUS
    <2>1. u \in Tickets /\ status[u] = "queued" /\ owner[u] = p
      BY DEF Waiting, PlayerOf
    <2>2. key[owner[u]] = u
      BY <1>1, <2>1 DEF QueuedHoldsLock
    <2>3. QED BY <1>5, <2>1, <2>2
  <1>9. PlayerOf' = [PlayerOf EXCEPT ![t] = p]
    BY <1>2, <1>4, <1>6 DEF PlayerOf
  <1>10. Waiting' = Waiting \cup {t}
    BY <1>6 DEF Waiting
  <1>11. Ideal!Queue(p, t)
    BY <1>2, <1>7, <1>8, <1>9, <1>10 DEF Ideal!Queue, PlayerOf, Waiting
  <1>12. QED BY <1>11

\* A match that was drawn and has no result yet is no ticket's match.
LEMMA MatchIsNew ==
  ASSUME IndInv, UnmatchedHasNoMatch, NEW r \in Procs, match[r] # NoMatch,
         NEW t \in Tickets
  PROVE  matchOf[t] # match[r]
  <1>1. result[match[r]] = {}
    BY DEF IndInv, MatchesInMaking
  <1>2. CASE status[t] = "matched"
    BY <1>1, <1>2 DEF IndInv, MatchedIsNamed
  <1>3. CASE status[t] # "matched"
    BY <1>3 DEF UnmatchedHasNoMatch
  <1>4. QED BY <1>2, <1>3

\* The EXEC of CompleteMatch is Matchmaking's Pair: the tickets it has found
\* are those of the two players picked, and still queued.
LEMMA ExecPairs ==
  ASSUME IndInv, CalmInv, NEW r \in Procs, CompleteMatch(r)
  PROVE  \E t, u \in Tickets, m \in Matches : Ideal!Pair(t, u, m)
  <1>1. /\ TypeOK /\ RefsCreated /\ LocalsInUse /\ FoundAmongPicked
        /\ HandsAreBacked /\ ReadsAreCurrent /\ UnmatchedHasNoMatch
    BY DEF IndInv, CalmInv
  <1>2. PICK p, q \in Players : p # q /\ Owners(found[r]) = {p, q}
    BY <1>1, FoundArePair DEF CompleteMatch
  <1>3. found[r] \subseteq Tickets /\ \A x, y \in found[r] : owner[x] = owner[y] => x = y
    BY <1>1 DEF TypeOK, FoundAmongPicked, PickedBy
  <1>4. PICK t \in found[r], u \in found[r] : owner[t] = p /\ owner[u] = q
    BY <1>2 DEF Owners
  <1>5. found[r] = {t, u}
    <2>1. \A x \in found[r] : owner[x] \in {p, q}
      BY <1>2 DEF Owners
    <2>2. QED BY <1>3, <1>4, <2>1
  <1>6. \A x \in found[r] : status[x] = "queued"
    <2> SUFFICES ASSUME NEW x \in found[r] PROVE status[x] = "queued"
      OBVIOUS
    <2>1. owner[x] \in InHands(r) /\ key[owner[x]] = x
      BY <1>1, MatchMoves DEF Owners, ReadsAreCurrent
    <2>2. QED BY <1>1, <2>1 DEF HandsAreBacked, Backed
  <1>7. PICK m \in Matches : m = match[r] /\ \A v \in Tickets : matchOf[v] # m
    <2>1. match[r] # NoMatch
      BY <1>1 DEF CompleteMatch, LocalsInUse, InUse, MatchSteps
    <2>2. QED BY <1>1, <2>1, MatchIsNew DEF TypeOK
  <1>8. /\ status' = [v \in Tickets |-> IF v \in {t, u} THEN "matched" ELSE status[v]]
        /\ matchOf' = [v \in Tickets |-> IF v \in {t, u} THEN m ELSE matchOf[v]]
        /\ UNCHANGED owner
    BY <1>5, <1>7 DEF CompleteMatch
  <1>9. {t, u} \subseteq Waiting /\ PlayerOf[t] # PlayerOf[u]
    BY <1>2, <1>3, <1>4, <1>5, <1>6 DEF Waiting, PlayerOf
  <1>10. Waiting' = Waiting \ {t, u}
    BY <1>3, <1>8 DEF Waiting
  <1>11. PlayerOf' = PlayerOf
    BY <1>3, <1>5, <1>6, <1>8 DEF PlayerOf
  <1>12. Ideal!Pair(t, u, m)
    BY <1>7, <1>8, <1>9, <1>10, <1>11 DEF Ideal!Pair, Waiting, PlayerOf
  <1>13. QED BY <1>3, <1>4, <1>12

\* No other step is seen by the players.
LEMMA OthersUnseen ==
  ASSUME UNCHANGED <<status, matchOf>>, RefsCreated,
         \A t \in Tickets : owner[t] # NoPlayer => owner'[t] = owner[t]
  PROVE  UNCHANGED Ideal!vars
  <1>1. UNCHANGED <<PlayerOf, Waiting, matchOf>>
    BY DEF PlayerOf, Waiting, RefsCreated
  <1>2. QED BY <1>1 DEF Ideal!vars, PlayerOf, Waiting

\* As long as only matches end tickets, the commands of any number of requests
\* and the worker amount to a queue in which two tickets are matched in one step.
THEOREM MatchmakingImplemented == ASSUME Env = {} PROVE Spec => MatchesLikeIdeal
  <1>1. Init => Ideal!Init
    BY DEF Init, Ideal!Init
  <1>2. IndInv /\ CalmInv /\ [Next]_vars => [Ideal!Next]_(Ideal!vars)
    <2> SUFFICES ASSUME IndInv, CalmInv, [Next]_vars
                 PROVE  Ideal!Next \/ UNCHANGED Ideal!vars
      OBVIOUS
    <2>1. TypeOK /\ RefsCreated /\ OnlyMatchesEnd /\ ReadsAreCurrent
      BY DEF IndInv, CalmInv
    <2>2. CASE Quiet
      BY <2>1, <2>2, OthersUnseen DEF Quiet
    <2>3. ASSUME NEW r \in Requests,
                 \/ \E p \in Players, u \in Tickets : CreateMatchTicket(r, p, u)
                 \/ AddPlayerToPool(r)
          PROVE  UNCHANGED Ideal!vars
      <3>1. UNCHANGED <<status, matchOf>>
        BY <2>3 DEF CreateMatchTicket, AddPlayerToPool, ticketVars
      <3>2. \A t \in Tickets : owner[t] # NoPlayer => owner'[t] = owner[t]
        BY <2>1, <2>3 DEF CreateMatchTicket, AddPlayerToPool, ticketVars, TypeOK
      <3>3. QED BY <2>1, <3>1, <3>2, OthersUnseen
    <2>4. ASSUME NEW r \in Requests, WriteTicketHash(r) PROVE Ideal!Next
      BY <2>4, HashQueues DEF Ideal!Next
    <2>5. ASSUME NEW r \in Procs, CompleteMatch(r) PROVE Ideal!Next
      BY <2>5, ExecPairs DEF Ideal!Next
    <2>6. ASSUME NEW r \in Procs, SearchAndPickTicketPlayers(r) \/ RequeuePlayer(r)
          PROVE  UNCHANGED Ideal!vars
      BY <2>1, <2>6, PickMoves, RequeueMoves, OthersUnseen
    <2>7. QED BY <2>2, <2>3, <2>4, <2>5, <2>6, CalmSteps DEF Moving
  <1>3. QED
    BY <1>1, <1>2, Inductive, CalmInvariant, PTL
    DEF Spec, MatchesLikeIdeal, Ideal!Spec

-----------------------------------------------------------------------------
(* How far a goroutine is from returning, in commands.                     *)

CommandsAt(step, players) ==
  CASE step = "hset" -> 19
    [] step = "expire" -> 18
    [] step = "pool" -> 17
    [] step = "expiry" -> 16
    [] step = "pick" -> 15
    [] step = "alloc" -> 14
    [] step = "getticket" -> 2 * players + 10
    [] step = "getkey" -> 2 * players + 9
    [] step = "release" -> 8
    [] step = "reqticket" -> 3 * players + 3
    [] step = "requeue" -> 3 * players + 2
    [] step = "reqkey" -> 3 * players + 1
    [] step \in {"unpool", "cancel"} -> 1
    [] OTHER -> 0

\* At most so many commands remain of a request, or of the worker's bucket.
CommandsLeft(r) == CommandsAt(pc[r], Cardinality(todo[r]))

\* And of the worker's tick: a bucket takes 15 commands.
TickLeft ==
  CASE pc[Worker] = "idle" -> 0
    [] pc[Worker] = "sweep" -> Cardinality(batch) + 15 * Buckets + 1
    [] OTHER -> 15 * (scan - 1) + CommandsLeft(Worker)

\* A request in progress comes closer to its end with every command of its own,
\* and nothing that another goroutine does, no failure and no stop sets it back.
RequestsComeToAnEnd ==
  [][\A r \in Requests : pc[r] # "idle" =>
       /\ CommandsLeft(r)' <= CommandsLeft(r)
       /\ RequestStep(r) => CommandsLeft(r)' < CommandsLeft(r)]_vars

\* So does the worker's tick, its sweep and its buckets, whatever the requests
\* put into the deadline index or the pool meanwhile.
TicksComeToAnEnd ==
  [][pc[Worker] # "idle" =>
       /\ TickLeft' <= TickLeft
       /\ WorkerStep => TickLeft' < TickLeft]_vars

\* Two players are picked, so at most two are still to be looked up.
Few(S) == IsFiniteSet(S) /\ Cardinality(S) \in 0 .. 2

LEMMA PairIsFew == ASSUME NEW p, NEW q PROVE Few({p, q})
  <1>1. {p, q} = {p} \cup {q}
    OBVIOUS
  <1>2. IsFiniteSet({p}) /\ Cardinality({p}) = 1
    BY FS_Singleton
  <1>3. IsFiniteSet({p} \cup {q}) /\ Cardinality({p} \cup {q}) \in 1 .. 2
    BY <1>2, FS_AddElement
  <1>4. QED BY <1>1, <1>3 DEF Few

LEMMA PickedAreFew ==
  ASSUME NEW H, H = {} \/ \E p, q \in Players : p # q /\ H = {p, q},
         NEW T, T \subseteq H
  PROVE  Few(H) /\ Few(T)
  <1>1. Few(H)
    <2>1. CASE H = {}
      BY <2>1, FS_EmptySet DEF Few
    <2>2. QED BY <2>1, PairIsFew
  <1>2. T \in SUBSET H
    OBVIOUS
  <1>3. IsFiniteSet(T) /\ Cardinality(T) <= Cardinality(H)
    BY <1>1, <1>2, FS_Subset DEF Few
  <1>4. Cardinality(T) \in Nat
    BY <1>3, FS_CardinalityType
  <1>5. QED BY <1>1, <1>3, <1>4 DEF Few

LEMMA HeldAreFew ==
  ASSUME FoundAmongPicked, NEW r \in Procs
  PROVE  Few(held[r]) /\ Few(todo[r])
  BY PickedAreFew DEF FoundAmongPicked, PickedBy

\* A goroutine at work has at least one command left.
LEMMA SomeLeft ==
  ASSUME NEW step \in Steps \ {"idle", "sweep"}, NEW players \in Nat
  PROVE  CommandsAt(step, players) \in Nat \ {0}
  BY DEF CommandsAt, Steps, CreateSteps, MatchSteps, RequeueSteps

LEMMA LeftIsNatural ==
  ASSUME NEW step \in Steps, NEW players \in Nat
  PROVE  CommandsAt(step, players) \in Nat
  <1>1. CASE step \in {"idle", "sweep"}
    BY <1>1 DEF CommandsAt
  <1>2. CASE step \notin {"idle", "sweep"}
    BY <1>2, SomeLeft
  <1>3. QED BY <1>1, <1>2

\* What another goroutine does changes none of a goroutine's commands.
LEMMA OthersLeftAlone ==
  ASSUME TypeOK, NEW r \in Procs, NEW s \in Procs, s # r,
         Arrive(r) \/ CreateStep(r) \/ MatchStep(r) \/ CancelStep(r)
  PROVE  /\ pc'[s] = pc[s] /\ todo'[s] = todo[s] /\ batch' = batch
         /\ r # Worker => scan' = scan
  <1> USE DEF TypeOK, Goto, Finish, localVars
  <1>1. CASE Arrive(r)
    BY <1>1 DEF Arrive, CreateMatchTicket, ReadTicketToCancel
  <1>2. CASE CreateStep(r)
    BY <1>2 DEF CreateStep, WriteTicketHash, SetTicketTTL, AddPlayerToPool,
       IndexDeadline, RollbackCreate, RollbackPool
  <1>3. CASE MatchStep(r)
    BY <1>3 DEF MatchStep, SearchAndPickTicketPlayers, PickNobody, AllocateRoom,
       AllocateRoomFails, GetPlayerTicketID, ReadTicketToMatch, CompleteMatch,
       CompleteMatchFails, ReleaseRoom, ReadTicketToRequeue, RequeuePlayer,
       RequeueReturns
  <1>4. CASE CancelStep(r)
    BY <1>4 DEF CancelStep, CancelMatchTicket, CancelFails
  <1>5. QED BY <1>1, <1>2, <1>3, <1>4

\* A creation goes from command to command, or returns.
LEMMA CreationAdvances ==
  ASSUME TypeOK, NEW r \in Procs, CreateStep(r)
  PROVE  /\ pc[r] \in Steps \ {"idle", "sweep"}
         /\ Finish(r) \/ CommandsLeft(r)' < CommandsLeft(r)
  <1> USE DEF TypeOK, Goto, localVars, CommandsLeft, CommandsAt, Steps, CreateSteps
  <1>1. CASE WriteTicketHash(r)
    BY <1>1 DEF WriteTicketHash
  <1>2. CASE SetTicketTTL(r)
    BY <1>2 DEF SetTicketTTL
  <1>3. CASE AddPlayerToPool(r)
    BY <1>3 DEF AddPlayerToPool
  <1>4. CASE IndexDeadline(r)
    BY <1>4 DEF IndexDeadline
  <1>5. CASE RollbackCreate(r)
    BY <1>5 DEF RollbackCreate
  <1>6. CASE RollbackPool(r)
    BY <1>6 DEF RollbackPool
  <1>7. QED BY <1>1, <1>2, <1>3, <1>4, <1>5, <1>6 DEF CreateStep

\* So does a match, and what it has to do is bounded by the two it picked.
LEMMA MatchAdvances ==
  ASSUME TypeOK, FoundAmongPicked, NEW r \in Procs, MatchStep(r)
  PROVE  /\ pc[r] \in Steps \ {"idle", "sweep"}
         /\ \/ Finish(r)
            \/ /\ CommandsLeft(r)' < CommandsLeft(r) /\ scan' = scan
               /\ pc'[r] \in Steps \ {"idle", "sweep"}
  <1> USE DEF Goto, localVars, CommandsLeft, Steps, MatchSteps, RequeueSteps
  <1>0. /\ IsFiniteSet(todo[r]) /\ Cardinality(todo[r]) \in 0 .. 2
        /\ Cardinality(held[r]) \in 0 .. 2
    BY HeldAreFew DEF Few
  <1>1. CASE SearchAndPickTicketPlayers(r)
    BY <1>1 DEF SearchAndPickTicketPlayers, TypeOK, CommandsAt
  <1>2. CASE PickNobody(r)
    BY <1>2 DEF PickNobody
  <1>3. ASSUME NEW m \in Matches, AllocateRoom(r, m)
        PROVE  /\ pc[r] = "alloc" /\ pc'[r] = "getkey" /\ scan' = scan
               /\ CommandsLeft(r)' < CommandsLeft(r)
    <2>1. /\ pc[r] = "alloc" /\ pc'[r] = "getkey" /\ scan' = scan
          /\ todo'[r] = held[r]
      BY <1>3 DEF AllocateRoom, TypeOK
    <2>2. QED BY <1>0, <2>1 DEF CommandsAt
  <1>4. CASE AllocateRoomFails(r)
    <2>1. /\ pc[r] = "alloc" /\ pc'[r] = "reqkey" /\ scan' = scan
          /\ todo'[r] = held[r]
      BY <1>4 DEF AllocateRoomFails, TypeOK
    <2>2. QED BY <1>0, <2>1 DEF CommandsAt
  <1>5. ASSUME NEW p \in Players, GetPlayerTicketID(r, p)
        PROVE  /\ pc[r] \in {"getkey", "reqkey"} /\ scan' = scan
               /\ pc'[r] \in {"getkey", "reqkey", "getticket", "reqticket"}
               /\ CommandsLeft(r)' < CommandsLeft(r)
    <2>1. /\ pc[r] \in {"getkey", "reqkey"} /\ scan' = scan
          /\ todo'[r] = todo[r] \ {p} /\ p \in todo[r]
          /\ \/ pc'[r] = pc[r]
             \/ pc[r] = "getkey" /\ pc'[r] = "getticket"
             \/ pc[r] = "reqkey" /\ pc'[r] = "reqticket"
      BY <1>5 DEF GetPlayerTicketID, TypeOK
    <2>2. Cardinality(todo'[r]) = Cardinality(todo[r]) - 1
      BY <1>0, <2>1, FS_RemoveElement
    <2>3. QED BY <1>0, <2>1, <2>2 DEF CommandsAt
  <1>6. CASE ReadTicketToMatch(r)
    <2>1. /\ pc[r] = "getticket" /\ pc'[r] = "getkey" /\ scan' = scan
          /\ todo'[r] = todo[r]
      BY <1>6 DEF ReadTicketToMatch, TypeOK
    <2>2. QED BY <1>0, <2>1 DEF CommandsAt
  <1>7. CASE CompleteMatch(r)
    BY <1>7 DEF CompleteMatch
  <1>8. CASE CompleteMatchFails(r)
    <2>1. /\ pc[r] \in {"getkey", "getticket"} /\ pc'[r] = "release"
          /\ scan' = scan
      BY <1>8 DEF CompleteMatchFails, TypeOK
    <2>2. QED BY <1>0, <2>1 DEF CommandsAt
  <1>9. CASE ReleaseRoom(r)
    <2>1. /\ pc[r] = "release" /\ pc'[r] = "reqkey" /\ scan' = scan
          /\ todo'[r] = held[r]
      BY <1>9 DEF ReleaseRoom, TypeOK
    <2>2. QED BY <1>0, <2>1 DEF CommandsAt
  <1>10. CASE ReadTicketToRequeue(r)
    <2>1. /\ pc[r] = "reqticket" /\ pc'[r] \in {"requeue", "reqkey"}
          /\ scan' = scan /\ todo'[r] = todo[r]
      BY <1>10 DEF ReadTicketToRequeue, TypeOK
    <2>2. QED BY <1>0, <2>1 DEF CommandsAt
  <1>11. CASE RequeuePlayer(r)
    <2>1. /\ pc[r] = "requeue" /\ pc'[r] = "reqkey"
          /\ scan' = scan /\ todo'[r] = todo[r]
      BY <1>11 DEF RequeuePlayer, TypeOK
    <2>2. QED BY <1>0, <2>1 DEF CommandsAt
  <1>12. CASE RequeueReturns(r)
    BY <1>12 DEF RequeueReturns
  <1>13. QED
    BY <1>1, <1>2, <1>3, <1>4, <1>5, <1>6, <1>7, <1>8, <1>9, <1>10, <1>11, <1>12
    DEF MatchStep

\* A request that returns is done; it is not the worker.
LEMMA ReturnEnds ==
  ASSUME TypeOK, NEW r \in Requests, Finish(r)
  PROVE  pc'[r] = "idle"
  BY IdAssumption DEF TypeOK, Finish, Goto, Procs

LEMMA RequestAdvances ==
  ASSUME IndInv, NEW r \in Requests, RequestStep(r)
  PROVE  CommandsLeft(r)' < CommandsLeft(r)
  <1>0. TypeOK /\ FoundAmongPicked /\ r \in Procs
    BY DEF IndInv, Procs
  <1>1. pc[r] \in Steps \ {"idle", "sweep"}
        /\ (Finish(r) \/ CommandsLeft(r)' < CommandsLeft(r))
    <2>1. CASE CancelStep(r)
      BY <2>1 DEF CancelStep, CancelMatchTicket, CancelFails, Steps
    <2>2. QED BY <1>0, <2>1, CreationAdvances, MatchAdvances DEF RequestStep
  <1>2. CASE Finish(r)
    <2>1. CommandsLeft(r)' = 0
      BY <1>0, <1>2, ReturnEnds DEF CommandsLeft, CommandsAt
    <2>2. Cardinality(todo[r]) \in Nat
      BY <1>0, HeldAreFew DEF Few
    <2>3. CommandsLeft(r) \in Nat \ {0}
      BY <1>1, <2>2, SomeLeft DEF CommandsLeft
    <2>4. QED BY <2>1, <2>3
  <1>3. QED BY <1>1, <1>2

\* What the environment does leaves a goroutine where it is, or stops it.
LEMMA EnvironmentStops ==
  ASSUME TypeOK, Environment, NEW s \in Procs
  PROVE  \/ pc'[s] = "idle"
         \/ /\ pc'[s] = pc[s] /\ todo'[s] = todo[s]
            /\ s = Worker => scan' = scan /\ batch' = batch
  BY DEF Environment, Deadline, Disconnect, LapseLock, LapseTicket, LapseResult, Shutdown,
     Crash, Restart, localVars, Procs

\* What is left is a number, before and after a step.
LEMMA NowNatural ==
  ASSUME IndInv, NEW r \in Procs
  PROVE  CommandsLeft(r) \in Nat
  <1>1. pc[r] \in Steps
    BY DEF IndInv, TypeOK
  <1>2. Cardinality(todo[r]) \in Nat
    BY HeldAreFew DEF IndInv, Few
  <1>3. QED BY <1>1, <1>2, LeftIsNatural DEF CommandsLeft

LEMMA LaterNatural ==
  ASSUME IndInv, [Next]_vars, NEW r \in Procs
  PROVE  CommandsLeft(r)' \in Nat
  <1>1. TypeOK' /\ FoundAmongPicked'
    BY IndInvStep DEF IndInv
  <1>2. Few(todo'[r])
    BY <1>1, PickedAreFew DEF FoundAmongPicked, PickedBy
  <1>3. pc'[r] \in Steps /\ Cardinality(todo'[r]) \in Nat
    BY <1>1, <1>2 DEF TypeOK, Few
  <1>4. QED BY <1>3, LeftIsNatural DEF CommandsLeft

LEMMA RequestKept ==
  ASSUME IndInv, [Next]_vars, NEW r \in Requests, pc[r] # "idle"
  PROVE  CommandsLeft(r)' <= CommandsLeft(r)
  <1>0. TypeOK /\ FoundAmongPicked /\ r \in Procs /\ r # Worker
    BY IdAssumption DEF IndInv, Procs
  <1>1. CommandsLeft(r) \in Nat
    BY <1>0, NowNatural
  <1>2. CASE pc'[r] = pc[r] /\ todo'[r] = todo[r]
    BY <1>1, <1>2 DEF CommandsLeft
  <1>3. CASE pc'[r] = "idle"
    BY <1>1, <1>3 DEF CommandsLeft, CommandsAt
  <1>4. CASE RequestStep(r)
    <2>1. CommandsLeft(r)' < CommandsLeft(r)
      BY <1>4, RequestAdvances
    <2>2. CommandsLeft(r)' \in Nat
      BY <1>0, LaterNatural
    <2>3. QED BY <1>1, <2>1, <2>2
  <1>5. CASE Arrive(r)
    BY <1>5 DEF Arrive, CreateMatchTicket, ReadTicketToCancel
  <1>6. ASSUME NEW s \in Procs, s # r,
               Arrive(s) \/ CreateStep(s) \/ MatchStep(s) \/ CancelStep(s)
        PROVE  pc'[r] = pc[r] /\ todo'[r] = todo[r]
    BY <1>0, <1>6, OthersLeftAlone
  <1>7. CASE SweepStep
    BY <1>0, <1>2, <1>7 DEF SweepStep, TimeoutExpiredMatchTickets,
       TimeoutMatchTicket, ScanAllBuckets, Goto, TypeOK, localVars
  <1>8. CASE Environment
    BY <1>0, <1>2, <1>3, <1>8, EnvironmentStops
  <1>9. CASE UNCHANGED vars
    BY <1>2, <1>9 DEF vars, localVars
  <1>10. QED
    BY <1>0, <1>2, <1>4, <1>5, <1>6, <1>7, <1>8, <1>9
    DEF Next, RequestStep, WorkerStep, Procs

\* Whatever other requests, the worker and the clients do, a request that has
\* begun is never set back: it returns within nineteen commands of its own.
THEOREM RequestsEnd == Spec => RequestsComeToAnEnd
  <1>1. IndInv /\ [Next]_vars =>
          [\A r \in Requests : pc[r] # "idle" =>
             /\ CommandsLeft(r)' <= CommandsLeft(r)
             /\ RequestStep(r) => CommandsLeft(r)' < CommandsLeft(r)]_vars
    BY RequestKept, RequestAdvances
  <1>2. QED BY <1>1, Inductive, PTL DEF Spec, RequestsComeToAnEnd

\* Between its sweep and the end of its tick the worker has buckets to scan.
Scanning == pc[Worker] \notin {"idle", "sweep"} => scan > 0

LEMMA ScanningStep ==
  ASSUME IndInv, Scanning, [Next]_vars
  PROVE  Scanning'
  <1>0. TypeOK /\ FoundAmongPicked /\ Worker \in Procs /\ scan \in 0 .. Buckets
    BY DEF IndInv, TypeOK, Procs
  <1>1. CASE MatchStep(Worker)
    <2>1. CASE Finish(Worker)
      BY <1>0, <2>1, BoundAssumption DEF Finish, Goto, TypeOK, Scanning
    <2>2. QED BY <1>0, <1>1, <2>1, MatchAdvances DEF Scanning
  <1>2. CASE SweepStep
    <2>1. CASE TimeoutExpiredMatchTickets
      BY <1>0, <2>1 DEF TimeoutExpiredMatchTickets, Goto, TypeOK, Scanning
    <2>2. ASSUME NEW t \in Tickets, TimeoutMatchTicket(t) PROVE Scanning'
      BY <2>2 DEF TimeoutMatchTicket, Scanning
    <2>3. CASE ScanAllBuckets
      BY <1>0, <2>3, BoundAssumption DEF ScanAllBuckets, Scanning
    <2>4. QED BY <1>2, <2>1, <2>2, <2>3 DEF SweepStep
  <1>3. ASSUME NEW r \in Requests, Arrive(r) \/ RequestStep(r)
        PROVE  pc'[Worker] = pc[Worker] /\ scan' = scan
    BY <1>0, <1>3, OthersLeftAlone, IdAssumption DEF RequestStep, Procs
  <1>4. CASE Environment
    BY <1>0, <1>4, EnvironmentStops DEF Scanning
  <1>5. CASE UNCHANGED vars
    BY <1>5 DEF vars, localVars, Scanning
  <1>6. QED
    BY <1>1, <1>2, <1>3, <1>4, <1>5 DEF Next, WorkerStep, Scanning

\* What is left of a tick is a number, now and after the step.
LEMMA TickNatural ==
  ASSUME IsFiniteSet(Tickets), IndInv, Scanning
  PROVE  /\ TickLeft \in Nat
         /\ [Next]_vars => TickLeft' \in Nat
  <1>1. ASSUME NEW step, NEW b \in SUBSET Tickets, NEW n \in Nat, NEW left \in Nat,
               step \notin {"idle", "sweep"} => n > 0
        PROVE  /\ Cardinality(b) + 15 * Buckets + 1 \in Nat
               /\ step \notin {"idle", "sweep"} => 15 * (n - 1) + left \in Nat
    <2>1. IsFiniteSet(b) /\ Cardinality(b) \in Nat
      BY FS_Subset, FS_CardinalityType
    <2>2. QED BY <1>1, <2>1, BoundAssumption
  <1>2. TickLeft \in Nat
    <2>1. /\ batch \in SUBSET Tickets /\ scan \in Nat
          /\ pc[Worker] \notin {"idle", "sweep"} => scan > 0
      BY BoundAssumption DEF IndInv, TypeOK, Scanning
    <2>2. CommandsLeft(Worker) \in Nat
      BY NowNatural DEF Procs
    <2>3. QED BY <1>1, <2>1, <2>2 DEF TickLeft
  <1>3. ASSUME [Next]_vars PROVE TickLeft' \in Nat
    <2>1. TypeOK' /\ Scanning'
      BY <1>3, IndInvStep, ScanningStep DEF IndInv
    <2>2. /\ batch' \in SUBSET Tickets /\ scan' \in Nat
          /\ pc'[Worker] \notin {"idle", "sweep"} => scan' > 0
      BY <2>1, BoundAssumption DEF TypeOK, Scanning
    <2>3. CommandsLeft(Worker)' \in Nat
      BY <1>3, LaterNatural DEF Procs
    <2>4. QED BY <1>1, <2>2, <2>3 DEF TickLeft
  <1>4. QED BY <1>2, <1>3

LEMMA WorkerAdvances ==
  ASSUME IsFiniteSet(Tickets), IndInv, Scanning, [Next]_vars,
         pc[Worker] # "idle", WorkerStep
  PROVE  TickLeft' < TickLeft
  <1>0. TypeOK /\ FoundAmongPicked /\ Worker \in Procs
    BY DEF IndInv, Procs
  <1>1. /\ scan \in Nat /\ Buckets \in Nat \ {0}
        /\ IsFiniteSet(batch) /\ Cardinality(batch) \in Nat
        /\ pc[Worker] \in Steps /\ CommandsLeft(Worker) \in Nat
    <2>1. batch \in SUBSET Tickets /\ pc[Worker] \in Steps /\ scan \in Nat
          /\ Buckets \in Nat \ {0}
      BY <1>0, BoundAssumption DEF TypeOK
    <2>2. IsFiniteSet(batch) /\ Cardinality(batch) \in Nat
      BY <2>1, FS_Subset, FS_CardinalityType
    <2>3. Cardinality(todo[Worker]) \in Nat
      BY <1>0, HeldAreFew DEF Few
    <2>4. CommandsLeft(Worker) \in Nat
      BY <2>1, <2>3, LeftIsNatural DEF CommandsLeft
    <2>5. QED BY <2>1, <2>2, <2>4
  <1>2. CASE MatchStep(Worker)
    <2>1. pc[Worker] \in Steps \ {"idle", "sweep"}
      BY <1>0, <1>2, MatchAdvances
    <2>2. scan > 0
      BY <2>1 DEF Scanning
    <2>3. TickLeft = 15 * (scan - 1) + CommandsLeft(Worker)
      BY <2>1 DEF TickLeft
    <2>4. CommandsLeft(Worker) \in Nat \ {0}
      <3>1. Cardinality(todo[Worker]) \in Nat
        BY <1>0, HeldAreFew DEF Few
      <3>2. QED BY <2>1, <3>1, SomeLeft DEF CommandsLeft
    <2>5. CASE Finish(Worker)
      <3>1. CASE scan > 1
        <4>1. pc'[Worker] = "pick" /\ scan' = scan - 1
          BY <1>0, <1>1, <2>5, <3>1 DEF Finish, Goto, TypeOK
        <4>2. CommandsLeft(Worker)' = 15
          BY <4>1 DEF CommandsLeft, CommandsAt
        <4>3. TickLeft' = 15 * ((scan - 1) - 1) + 15
          BY <4>1, <4>2 DEF TickLeft
        <4>4. QED BY <1>1, <2>3, <2>4, <3>1, <4>3
      <3>2. CASE ~(scan > 1)
        <4>1. pc'[Worker] = "idle"
          BY <1>0, <2>5, <3>2 DEF Finish, Goto, TypeOK
        <4>2. TickLeft' = 0
          BY <4>1 DEF TickLeft
        <4>3. QED BY <1>1, <2>2, <2>3, <2>4, <4>2
      <3>3. QED BY <3>1, <3>2
    <2>6. CASE ~Finish(Worker)
      <3>1. /\ CommandsLeft(Worker)' < CommandsLeft(Worker) /\ scan' = scan
            /\ pc'[Worker] \in Steps \ {"idle", "sweep"}
        BY <1>0, <1>2, <2>6, MatchAdvances
      <3>2. CommandsLeft(Worker)' \in Nat
        BY <1>0, LaterNatural
      <3>3. TickLeft' = 15 * (scan - 1) + CommandsLeft(Worker)'
        BY <3>1 DEF TickLeft
      <3>4. QED BY <1>1, <2>2, <2>3, <3>1, <3>2, <3>3
    <2>7. QED BY <2>5, <2>6
  <1>3. ASSUME NEW t \in Tickets, TimeoutMatchTicket(t)
        PROVE  TickLeft' < TickLeft
    <2>1. /\ pc[Worker] = "sweep" /\ pc'[Worker] = "sweep"
          /\ t \in batch /\ batch' = batch \ {t}
      BY <1>3 DEF TimeoutMatchTicket
    <2>2. Cardinality(batch') = Cardinality(batch) - 1
      BY <1>1, <2>1, FS_RemoveElement
    <2>3. /\ TickLeft = Cardinality(batch) + 15 * Buckets + 1
          /\ TickLeft' = Cardinality(batch') + 15 * Buckets + 1
      BY <2>1 DEF TickLeft
    <2>4. QED BY <1>1, <2>2, <2>3
  <1>4. CASE ScanAllBuckets
    <2>1. pc[Worker] = "sweep" /\ pc'[Worker] = "pick" /\ scan' = Buckets
      BY <1>0, <1>4 DEF ScanAllBuckets, Goto, TypeOK
    <2>2. CommandsLeft(Worker)' = 15
      BY <2>1 DEF CommandsLeft, CommandsAt
    <2>3. /\ TickLeft = Cardinality(batch) + 15 * Buckets + 1
          /\ TickLeft' = 15 * (Buckets - 1) + 15
      BY <2>1, <2>2 DEF TickLeft
    <2>4. QED BY <1>1, <2>3
  <1>5. ~TimeoutExpiredMatchTickets
    BY DEF TimeoutExpiredMatchTickets
  <1>6. QED BY <1>2, <1>3, <1>4, <1>5 DEF WorkerStep, SweepStep

LEMMA TickKept ==
  ASSUME IsFiniteSet(Tickets), IndInv, Scanning, [Next]_vars,
         pc[Worker] # "idle"
  PROVE  TickLeft' <= TickLeft
  <1>0. TypeOK /\ FoundAmongPicked /\ Worker \in Procs
    BY DEF IndInv, Procs
  <1>1. TickLeft \in Nat
    BY TickNatural
  <1>2. TickLeft' \in Nat
    BY TickNatural, ScanningStep
  <1>3. CASE WorkerStep
    BY <1>1, <1>2, <1>3, WorkerAdvances
  <1>4. CASE pc'[Worker] = "idle"
    BY <1>1, <1>4 DEF TickLeft
  <1>5. CASE /\ pc'[Worker] = pc[Worker] /\ todo'[Worker] = todo[Worker]
             /\ scan' = scan /\ batch' = batch
    BY <1>1, <1>5 DEF TickLeft, CommandsLeft
  <1>6. ASSUME NEW r \in Requests, Arrive(r) \/ RequestStep(r)
        PROVE  /\ pc'[Worker] = pc[Worker] /\ todo'[Worker] = todo[Worker]
               /\ scan' = scan /\ batch' = batch
    BY <1>0, <1>6, OthersLeftAlone, IdAssumption DEF RequestStep, Procs
  <1>7. CASE Environment
    BY <1>0, <1>4, <1>5, <1>7, EnvironmentStops
  <1>8. CASE UNCHANGED vars
    BY <1>5, <1>8 DEF vars, localVars
  <1>9. QED BY <1>3, <1>5, <1>6, <1>7, <1>8 DEF Next

LEMMA ScanningInvariant == Spec => []Scanning
  <1>1. Init => Scanning
    BY DEF Init, Scanning, Procs
  <1>2. IndInv /\ Scanning /\ [Next]_vars => Scanning'
    BY ScanningStep
  <1>3. QED BY <1>1, <1>2, Inductive, PTL DEF Spec

\* The worker's tick ends after a bounded number of its commands: tickets that
\* come due or players who queue while it runs wait for the next one.
THEOREM TicksEnd == ASSUME IsFiniteSet(Tickets) PROVE Spec => TicksComeToAnEnd
  <1>1. IndInv /\ Scanning /\ [Next]_vars =>
          [pc[Worker] # "idle" =>
             /\ TickLeft' <= TickLeft
             /\ WorkerStep => TickLeft' < TickLeft]_vars
    BY TickKept, WorkerAdvances
  <1>2. QED BY <1>1, Inductive, ScanningInvariant, PTL DEF Spec, TicksComeToAnEnd
=============================================================================
