------------------------- MODULE TicketRows_proofs -------------------------
(* Proofs about the MySQL mirror of the tickets: it never disturbs the hot *)
(* path, and its rows can be relied on as far as TicketRows says.          *)
EXTENDS TicketRows, MatchTickets_proofs

-----------------------------------------------------------------------------
(* The mirror only watches.                                                *)

\* What the hot path does beside the mirror is a step of MatchTickets.
LEMMA RowsStepIsStep == [RowsNext]_rowVars => [Next]_vars
  <1> USE DEF Next, RequestStep, WorkerStep, CreateStep, MatchStep, CancelStep,
              SweepStep, Environment, Procs
  <1>1. ASSUME NEW r \in Requests,
               \/ Arrives(r) \/ Created(r) \/ Cancelled(r)
               \/ GetMatchTicket(r) \/ GetMatchTicketFails(r)
        PROVE  [Next]_vars
    BY <1>1 DEF Arrives, Created, Cancelled, GetMatchTicket, GetMatchTicketFails
  <1>2. ASSUME NEW r \in Procs, HotPath(r) PROVE [Next]_vars
    BY <1>2 DEF HotPath
  <1>3. ASSUME NEW r \in Procs,
               \/ Completed(r) \/ NotCompleted(r) \/ GivenBack(r)
               \/ UpsertMatchResult(r) \/ UpsertMatchTicket(r)
        PROVE  [Next]_vars
    BY <1>3 DEF Completed, NotCompleted, GivenBack, UpsertMatchResult,
       UpsertMatchTicket
  <1>4. ASSUME SweepStarts \/ (\E t \in Tickets : TimedOut(t)) \/ SweepEnds
        PROVE  [Next]_vars
    BY <1>4 DEF SweepStarts, TimedOut, SweepEnds
  <1>5. ASSUME Surroundings \/ ServerStops PROVE [Next]_vars
    BY <1>5 DEF Surroundings, ServerStops
  <1>6. CASE UNCHANGED rowVars
    BY <1>6 DEF rowVars
  <1>7. QED
    BY <1>1, <1>2, <1>3, <1>4, <1>5, <1>6 DEF RowsNext

\* TicketRows implements MatchTickets: what the services write to MySQL, and
\* how it fails, changes nothing about the tickets in Redis.
THEOREM MirrorIsPassive == RowsSpec => Spec
  <1>1. RowsInit => Init
    BY DEF RowsInit
  <1>2. QED BY <1>1, RowsStepIsStep, PTL DEF RowsSpec, Spec


-----------------------------------------------------------------------------
(* Types.                                                                  *)

\* The copies that Take leaves behind are well typed.
LEMMA TakeType ==
  ASSUME RowsTypeOK, NEW r \in Procs, NEW C, C \subseteq Copies, Take(r, C)
  PROVE  unsaved' \in [Procs -> SUBSET Copies] /\ apart' \subseteq Tickets
  <1>1. TicketsOf(C) \subseteq Tickets /\ Crossing(C) \subseteq TicketsOf(C)
    BY DEF TicketsOf, Crossing, Copies
  <1>2. unsaved' \in [Procs -> SUBSET Copies]
    BY DEF Take, RowsTypeOK
  <1>3. apart' \subseteq Tickets
    BY <1>1 DEF Take, RowsTypeOK
  <1>4. QED BY <1>2, <1>3

\* The parts of the type invariant of the mirror.
LEMMA RowsTypeInit == RowsInit => RowsTypeOK
  BY DEF RowsInit, RowsTypeOK, RowStates, Statuses

\* Every step keeps the rows and the copies well typed.
LEMMA RowsTypeStep ==
  ASSUME IndInv, RowsTypeOK, [RowsNext]_rowVars
  PROVE  RowsTypeOK'
  <1> USE DEF mirror, pending, mirrorVars
  <1>1. TypeOK /\ LocalsInUse
    BY DEF IndInv
  <1>2. CASE UNCHANGED mirrorVars
    BY <1>2 DEF RowsTypeOK
  <1>3. ASSUME NEW r \in Requests, Created(r) PROVE RowsTypeOK'
    <2>1. own[r] \in Tickets
      BY <1>1, <1>3 DEF Created, IndexDeadline, LocalsInUse, InUse, TypeOK,
         CreateSteps, Procs
    <2>2. {CopyOf(own[r], "queued", NoMatch)} \subseteq Copies
      BY <2>1 DEF CopyOf, Copies, Statuses
    <2>3. QED BY <1>3, <2>2, TakeType DEF Created, RowsTypeOK, Procs
  <1>4. ASSUME NEW r \in Requests, Cancelled(r) PROVE RowsTypeOK'
    <2>1. own[r] \in Tickets
      BY <1>1, <1>4 DEF Cancelled, CancelMatchTicket, LocalsInUse, InUse,
         TypeOK, Procs
    <2>2. {CopyOf(own[r], "cancelled", NoMatch)} \subseteq Copies
      BY <2>1 DEF CopyOf, Copies, Statuses
    <2>3. QED BY <1>4, <2>2, TakeType DEF Cancelled, RowsTypeOK, Procs
  <1>5. ASSUME NEW r \in Procs, Completed(r) PROVE RowsTypeOK'
    <2>1. {CopyOf(t, "matched", match[r]) : t \in found[r]} \subseteq Copies
      BY <1>1 DEF CopyOf, Copies, Statuses, TypeOK
    <2>2. unsaved' \in [Procs -> SUBSET Copies] /\ apart' \subseteq Tickets
      BY <1>5, <2>1, TakeType DEF Completed
    <2>3. QED BY <1>1, <1>5, <2>2 DEF Completed, RowsTypeOK, TypeOK
  <1>6. ASSUME NEW r \in Procs, NotCompleted(r) PROVE RowsTypeOK'
    BY <1>1, <1>6 DEF NotCompleted, RowsTypeOK, TypeOK
  <1>7. ASSUME NEW r \in Procs, GivenBack(r) PROVE RowsTypeOK'
    <2>1. match[r] \in Matches
      BY <1>1, <1>7 DEF GivenBack, ReleaseRoom, LocalsInUse, InUse, TypeOK,
         MatchSteps
    <2>2. QED BY <1>7, <2>1 DEF GivenBack, RowsTypeOK
  <1>8. ASSUME NEW t \in Tickets, TimedOut(t) PROVE RowsTypeOK'
    <2>1. CopyOf(t, "timeout", NoMatch) \in Copies
      BY DEF CopyOf, Copies, Statuses
    <2>2. PICK C \in SUBSET Copies :
            /\ swept' = swept \cup C
            /\ apart' = (apart \ TicketsOf(C)) \cup Crossing(C)
      BY <1>8, <2>1 DEF TimedOut
    <2>3. Crossing(C) \subseteq Tickets
      BY <2>2 DEF Crossing, Copies
    <2>4. UNCHANGED <<mirror, unsaved, newMatch, again, cut>>
      BY <1>8 DEF TimedOut
    <2>5. QED BY <2>2, <2>3, <2>4 DEF RowsTypeOK
  <1>9. ASSUME SweepEnds PROVE RowsTypeOK'
    BY <1>9 DEF SweepEnds, RowsTypeOK
  <1>10. ASSUME NEW r \in Procs, UpsertMatchResult(r) PROVE RowsTypeOK'
    <2>1. newMatch[r] \in Matches
      BY <1>10 DEF UpsertMatchResult, RowsTypeOK
    <2>2. result[newMatch[r]] \subseteq Players
      BY <1>1, <2>1 DEF TypeOK
    <2>3. QED BY <1>10, <2>1, <2>2 DEF UpsertMatchResult, RowsTypeOK
  <1>11. ASSUME NEW r \in Procs, UpsertMatchTicket(r) PROVE RowsTypeOK'
    <2>1. PICK c \in unsaved[r] :
            /\ unsaved' = [unsaved EXCEPT ![r] = @ \ {c}]
            /\ \/ /\ row' = [row EXCEPT ![c.ticket] =
                               [status |-> c.status, match |-> c.match]]
                  /\ UNCHANGED apart
               \/ apart' = apart \cup {c.ticket} /\ UNCHANGED row
      BY <1>11 DEF UpsertMatchTicket
    <2>2. c \in Copies
      BY <2>1 DEF RowsTypeOK
    <2>3. /\ c.ticket \in Tickets
          /\ [status |-> c.status, match |-> c.match] \in RowStates
      BY <2>2 DEF Copies, RowStates
    <2>4. row' \in [Tickets -> RowStates] /\ apart' \subseteq Tickets
      BY <2>1, <2>3 DEF RowsTypeOK
    <2>5. unsaved' \in [Procs -> SUBSET Copies]
      BY <2>1 DEF RowsTypeOK
    <2>6. UNCHANGED <<matchRow, newMatch, again, swept, cut>>
      BY <1>11 DEF UpsertMatchTicket
    <2>7. QED BY <2>4, <2>5, <2>6 DEF RowsTypeOK
  <1>12. ASSUME NEW r \in Requests, GetMatchTicket(r) PROVE RowsTypeOK'
    <2>1. again[r] \in Tickets
      BY <1>12 DEF GetMatchTicket, RowsTypeOK, Procs
    <2>2. {CopyOf(again[r], status[again[r]], matchOf[again[r]])}
            \subseteq Copies
      BY <1>1, <2>1 DEF CopyOf, Copies, TypeOK
    <2>3. unsaved' \in [Procs -> SUBSET Copies] /\ apart' \subseteq Tickets
      BY <1>12, <2>2, TakeType DEF GetMatchTicket, RowsTypeOK, Procs
    <2>4. QED BY <1>12, <2>3 DEF GetMatchTicket, RowsTypeOK, Procs
  <1>13. ASSUME NEW r \in Requests, GetMatchTicketFails(r) PROVE RowsTypeOK'
    BY <1>13 DEF GetMatchTicketFails, RowsTypeOK, Procs
  <1>14. ASSUME NEW S \in SUBSET Procs, Dropped(S),
                \A r \in S : pc[r] \in CreateSteps => own[r] # NoTicket
         PROVE  RowsTypeOK'
    <2>1. apart' \subseteq Tickets
      BY <1>1, <1>14 DEF Dropped, TicketsOf, RowsTypeOK, TypeOK, Copies
    <2>2. cut' \subseteq Matches
      BY <1>1, <1>14 DEF Dropped, RowsTypeOK, TypeOK
    <2>3. QED BY <1>14, <2>1, <2>2 DEF Dropped, RowsTypeOK
  <1>15. ASSUME ServerStops PROVE RowsTypeOK'
    <2>1. \A r \in Procs : pc[r] \in CreateSteps => own[r] # NoTicket
      BY <1>1 DEF LocalsInUse, InUse
    <2>2. QED BY <1>14, <1>15, <2>1 DEF ServerStops, Procs
  <1>16. QED
    BY <1>2, <1>3, <1>4, <1>5, <1>6, <1>7, <1>8, <1>9, <1>10, <1>11, <1>12,
       <1>13, <1>15
    DEF RowsNext, rowVars, Arrives, HotPath, SweepStarts, Surroundings, Procs

-----------------------------------------------------------------------------
(* Rooms.                                                                  *)

\* What has been cut off stays known.
LEMMA CutGrows ==
  ASSUME [RowsNext]_rowVars
  PROVE  cut \subseteq cut'
  <1> USE DEF mirrorVars
  <1>1. ASSUME NEW r \in Requests,
               \/ Arrives(r) \/ Created(r) \/ Cancelled(r)
               \/ GetMatchTicket(r) \/ GetMatchTicketFails(r)
        PROVE  cut \subseteq cut'
    BY <1>1 DEF Arrives, Created, Cancelled, GetMatchTicket, GetMatchTicketFails
  <1>2. ASSUME NEW r \in Procs,
               \/ HotPath(r) \/ Completed(r) \/ NotCompleted(r) \/ GivenBack(r)
               \/ UpsertMatchResult(r) \/ UpsertMatchTicket(r)
        PROVE  cut \subseteq cut'
    BY <1>2 DEF HotPath, Completed, NotCompleted, GivenBack, UpsertMatchResult,
       UpsertMatchTicket
  <1>3. ASSUME \/ SweepStarts \/ SweepEnds \/ Surroundings \/ ServerStops
               \/ \E t \in Tickets : TimedOut(t)
        PROVE  cut \subseteq cut'
    BY <1>3 DEF SweepStarts, SweepEnds, TimedOut, Surroundings, ServerStops,
       Dropped
  <1>4. QED BY <1>1, <1>2, <1>3 DEF RowsNext, rowVars

\* A match in the making ends with its EXEC, with ReleaseRoom, or is cut off.
LEMMA MatchEnds ==
  ASSUME TypeOK, LocalsInUse, [RowsNext]_rowVars,
         NEW s \in Procs, match[s] # NoMatch, match'[s] # match[s]
  PROVE  Completed(s) \/ GivenBack(s) \/ match[s] \in cut'
  <1> USE DEF localVars
  <1>1. pc[s] \in MatchSteps
    BY DEF LocalsInUse, InUse
  <1>2. ASSUME NEW r \in Procs, r # s, Finish(r) PROVE FALSE
    BY <1>2 DEF Finish, TypeOK
  <1>3. ASSUME NEW r \in Procs, pc[r] \notin MatchSteps, Finish(r) PROVE FALSE
    BY <1>1, <1>2, <1>3
  <1>4. ASSUME match' = match PROVE FALSE
    BY <1>4
  <1>5. ASSUME NEW r \in Requests, Arrives(r) PROVE FALSE
    BY <1>4, <1>5 DEF Arrives, Arrive, CreateMatchTicket, ReadTicketToCancel
  <1>6. ASSUME NEW r \in Requests,
               \/ Created(r) \/ Cancelled(r)
               \/ GetMatchTicket(r) \/ GetMatchTicketFails(r)
        PROVE  FALSE
    <2>1. match' = match \/ (pc[r] \notin MatchSteps /\ Finish(r))
      BY <1>6 DEF Created, IndexDeadline, Cancelled, CancelMatchTicket,
         GetMatchTicket, GetMatchTicketFails, vars, MatchSteps
    <2>2. QED BY <1>3, <1>4, <2>1 DEF Procs
  <1>7. ASSUME NEW r \in Procs, NEW m \in Matches, AllocateRoom(r, m)
        PROVE  FALSE
    BY <1>1, <1>7 DEF AllocateRoom, MatchSteps, TypeOK
  <1>8. ASSUME NEW r \in Procs, HotPath(r) PROVE FALSE
    <2>1. \/ match' = match \/ (pc[r] \notin MatchSteps /\ Finish(r))
          \/ \E m \in Matches : AllocateRoom(r, m)
      BY <1>8 DEF HotPath, SearchAndPickTicketPlayers, AllocateRoomFails,
         GetPlayerTicketID, ReadTicketToMatch, CompleteMatchFails,
         ReadTicketToRequeue, RequeuePlayer, WriteTicketHash, SetTicketTTL,
         AddPlayerToPool, RollbackCreate, RollbackPool, CancelFails,
         CreateSteps, MatchSteps
    <2>2. QED BY <1>3, <1>4, <1>7, <2>1
  <1>9. ASSUME NEW r \in Procs, Completed(r) PROVE r = s
    BY <1>2, <1>9 DEF Completed, CompleteMatch
  <1>10. ASSUME NEW r \in Procs, GivenBack(r) PROVE r = s
    BY <1>10 DEF GivenBack, ReleaseRoom, TypeOK
  <1>11. ASSUME NEW r \in Procs, NotCompleted(r) PROVE FALSE
    <2>1. pc[r] \notin MatchSteps /\ Finish(r)
      BY <1>11 DEF NotCompleted, PickNobody, RequeueReturns, RequeueSteps,
         MatchSteps
    <2>2. QED BY <1>3, <2>1
  <1>12. ASSUME NEW r \in Procs, UpsertMatchResult(r) \/ UpsertMatchTicket(r)
         PROVE  FALSE
    BY <1>4, <1>12 DEF UpsertMatchResult, UpsertMatchTicket, vars
  <1>13. ASSUME \/ SweepStarts \/ SweepEnds \/ Surroundings
                \/ \E t \in Tickets : TimedOut(t)
         PROVE  FALSE
    BY <1>4, <1>13 DEF SweepStarts, TimeoutExpiredMatchTickets, SweepEnds,
       ScanAllBuckets, TimedOut, TimeoutMatchTicket, Surroundings, Deadline,
       Disconnect, LapseLock, LapseTicket, LapseResult
  <1>14. ASSUME NEW S \in SUBSET Procs, Restart(S), Dropped(S)
         PROVE  match[s] \in cut'
    <2>1. s \in S
      BY <1>14 DEF Restart
    <2>2. QED BY <1>14, <2>1 DEF Dropped
  <1>15. ASSUME ServerStops PROVE match[s] \in cut'
    BY <1>14, <1>15 DEF ServerStops, Shutdown, Crash, Procs
  <1>16. CASE UNCHANGED rowVars
    BY <1>4, <1>16 DEF rowVars, vars
  <1>17. QED
    BY <1>5, <1>6, <1>8, <1>9, <1>10, <1>11, <1>12, <1>13, <1>15, <1>16
    DEF RowsNext

\* A result is written once.
LEMMA ResultStays ==
  ASSUME IndInv, [Next]_vars, NEW m \in Matches, result[m] # {}
  PROVE  result'[m] = result[m]
  <1>1. TypeOK /\ LocalsInUse /\ MatchesInMaking
    BY DEF IndInv
  <1>2. ASSUME NEW r \in Procs, CompleteMatch(r) PROVE result'[m] = result[m]
    <2>1. match[r] # NoMatch
      BY <1>1, <1>2 DEF CompleteMatch, LocalsInUse, InUse, MatchSteps
    <2>2. match[r] # m
      BY <1>1, <2>1 DEF MatchesInMaking
    <2>3. QED BY <1>1, <1>2, <2>2 DEF CompleteMatch, TypeOK
  <1>3. ASSUME NEW r \in Procs, NEW n \in Matches,
               AllocateRoom(r, n) \/ ReleaseRoom(r)
        PROVE  result'[m] = result[m]
    BY <1>3 DEF AllocateRoom, ReleaseRoom
  <1>4. QED BY <1>2, <1>3, MatchFrame DEF matchVars

\* Room slots stay reserved for a result, for a match in the making, for one
\* whose release failed with its request, or for one that a stop cut off, and
\* for nothing else (completePickedPlayers and its ReleaseRoom).
THEOREM RoomsAreAccountedFor == RowsSpec => []RoomsAccountedFor
  <1>1. RowsInit => RoomsAccountedFor
    BY DEF RowsInit, Init, RoomsAccountedFor
  <1>2. ASSUME IndInv, RoomsAccountedFor, [RowsNext]_rowVars, NEW m \in reserved'
        PROVE  result'[m] # {} \/ m \in cut' \/ \E r \in Procs : match'[r] = m
    <2>1. /\ TypeOK /\ LocalsInUse /\ MatchesInMaking /\ [Next]_vars
          /\ m \in Matches /\ m # NoMatch
      <3>1. [Next]_vars
        BY <1>2, RowsStepIsStep
      <3>2. TypeOK'
        BY <1>2, <3>1, IndInvStep DEF IndInv
      <3>3. QED BY <1>2, <3>1, <3>2, IdAssumption DEF IndInv, TypeOK
    <2>2. CASE m \notin reserved
      <3>1. ASSUME NEW r \in Procs, AllocateRoom(r, m) PROVE match'[r] = m
        BY <2>1, <3>1 DEF AllocateRoom, TypeOK
      <3>2. QED
        BY <1>2, <2>1, <2>2, <3>1, MatchFrame
        DEF matchVars, AllocateRoom, CompleteMatch, ReleaseRoom, Released
    <2>3. CASE result[m] # {}
      BY <1>2, <2>1, <2>3, ResultStays
    <2>4. CASE m \in cut
      BY <1>2, <2>4, CutGrows
    <2>5. ASSUME NEW s \in Procs, match[s] = m, match'[s] # m
          PROVE  result'[m] # {} \/ m \in cut'
      <3>1. CASE Completed(s)
        <4>1. result'[m] = Owners(found[s]) /\ Enough(found[s])
          BY <2>1, <2>5, <3>1 DEF Completed, CompleteMatch, TypeOK
        <4>2. QED BY <4>1 DEF Enough, Owners
      <3>2. CASE GivenBack(s)
        BY <1>2, <2>1, <2>5, <3>2 DEF GivenBack, ReleaseRoom, Released
      <3>3. QED BY <1>2, <2>1, <2>5, <3>1, <3>2, MatchEnds
    <2>6. CASE m \in reserved /\ \E r \in Procs : match[r] = m
      BY <2>5, <2>6
    <2>7. QED BY <1>2, <2>2, <2>3, <2>4, <2>6 DEF RoomsAccountedFor
  <1>3. IndInv /\ RoomsAccountedFor /\ [RowsNext]_rowVars => RoomsAccountedFor'
    BY <1>2 DEF RoomsAccountedFor
  <1>4. QED BY <1>1, <1>3, MirrorIsPassive, Inductive, PTL DEF RowsSpec

-----------------------------------------------------------------------------
(* Results.                                                                *)

\* Every result has a row with its players, or its goroutine has still to
\* write it, failed to, or was stopped.
ResultsRecorded ==
  \A m \in Matches : result[m] # {} =>
    matchRow[m] = result[m] \/ m \in cut \/ \E r \in Procs : newMatch[r] = m

\* What names a match is about one of its players.
Named(t, m) == m # NoMatch => owner[t] \in result[m]

TicketsNamed == \A t \in Tickets : Named(t, matchOf[t])
CopiesNamed == \A c \in Held : Named(c.ticket, c.match)
RowsNamed == \A t \in Tickets : Named(t, row[t].match)

RowsInv ==
  RowsTypeOK /\ ResultsRecorded /\ TicketsNamed /\ CopiesNamed /\ RowsNamed

\* A copy that is held is a copy of some ticket.
LEMMA HeldType == RowsTypeOK => Held \subseteq Copies
  BY DEF RowsTypeOK, Held

\* A copy that appears is that of a ticket without a match, of one that was
\* matched in this step, or of one that CreateTicket has read again.
LEMMA HeldFrame ==
  ASSUME RowsTypeOK, [RowsNext]_rowVars, NEW c \in Held', c \notin Held
  PROVE  \/ c.match = NoMatch
         \/ \E r \in Procs : /\ Completed(r)
                             /\ \E t \in found[r] :
                                  c = CopyOf(t, "matched", match[r])
         \/ \E r \in Requests :
              /\ GetMatchTicket(r) /\ again[r] \in Tickets
              /\ c = CopyOf(again[r], status[again[r]], matchOf[again[r]])
  <1> USE DEF mirrorVars, pending
  <1>1. ASSUME UNCHANGED <<unsaved, swept>> PROVE FALSE
    BY <1>1 DEF Held
  <1>2. ASSUME NEW r \in Procs, NEW C, Take(r, C), UNCHANGED swept
        PROVE  c \in C
    <2>1. \A s \in Procs : unsaved'[s] = IF s = r THEN C ELSE unsaved[s]
      BY <1>2 DEF Take, RowsTypeOK
    <2>2. QED BY <1>2, <2>1 DEF Held
  <1>4. ASSUME NEW r \in Requests, Created(r) \/ Cancelled(r)
        PROVE  c.match = NoMatch
    BY <1>2, <1>4 DEF Created, Cancelled, CopyOf, Procs
  <1>5. ASSUME NEW r \in Procs, Completed(r)
        PROVE  \E t \in found[r] : c = CopyOf(t, "matched", match[r])
    BY <1>2, <1>5 DEF Completed
  <1>6. ASSUME NEW r \in Requests, GetMatchTicket(r)
        PROVE  /\ again[r] \in Tickets
               /\ c = CopyOf(again[r], status[again[r]], matchOf[again[r]])
    <2>1. again[r] \in Tickets
      BY <1>6 DEF GetMatchTicket, RowsTypeOK, Procs
    <2>2. CASE status[again[r]] = "none"
      BY <1>1, <1>6, <2>2 DEF GetMatchTicket
    <2>3. CASE status[again[r]] # "none"
      <3>1. Take(r, {CopyOf(again[r], status[again[r]], matchOf[again[r]])})
        BY <1>6, <2>3 DEF GetMatchTicket
      <3>2. r \in Procs /\ UNCHANGED swept
        BY <1>6 DEF GetMatchTicket, Procs
      <3>3. QED BY <1>2, <2>1, <3>1, <3>2
    <2>4. QED BY <2>2, <2>3
  <1>7. ASSUME NEW t \in Tickets, TimedOut(t) PROVE c.match = NoMatch
    BY <1>7 DEF TimedOut, CopyOf, Held
  <1>8. ASSUME SweepEnds PROVE FALSE
    BY <1>8 DEF SweepEnds, Held, RowsTypeOK, Procs
  <1>9. ASSUME NEW r \in Procs, UpsertMatchTicket(r) PROVE FALSE
    BY <1>9 DEF UpsertMatchTicket, Held, RowsTypeOK
  <1>10. ASSUME ServerStops PROVE FALSE
    BY <1>10 DEF ServerStops, Dropped, Held, RowsTypeOK
  <1>11. QED
    BY <1>1, <1>4, <1>5, <1>6, <1>7, <1>8, <1>9, <1>10
    DEF RowsNext, rowVars, Arrives, HotPath, NotCompleted, GivenBack,
        SweepStarts, Surroundings, UpsertMatchResult, GetMatchTicketFails

\* A row changes by the upsert of a copy that was held.
LEMMA RowFrame ==
  ASSUME RowsTypeOK, [RowsNext]_rowVars, NEW t \in Tickets, row'[t] # row[t]
  PROVE  \E c \in Held :
           c.ticket = t /\ row'[t] = [status |-> c.status, match |-> c.match]
  <1> USE DEF mirrorVars, mirror
  <1>1. ASSUME NEW r \in Procs, UpsertMatchTicket(r)
        PROVE  \E c \in Held :
                 c.ticket = t /\ row'[t] = [status |-> c.status, match |-> c.match]
    <2>1. PICK c \in unsaved[r] :
            \/ row' = [row EXCEPT ![c.ticket] =
                         [status |-> c.status, match |-> c.match]]
            \/ UNCHANGED row
      BY <1>1 DEF UpsertMatchTicket
    <2>2. QED BY <2>1 DEF Held, RowsTypeOK
  <1>2. ASSUME ~\E r \in Procs : UpsertMatchTicket(r) PROVE row' = row
    BY <1>2 DEF RowsNext, rowVars, Arrives, Created, Cancelled, GetMatchTicket,
       GetMatchTicketFails, HotPath, Completed, NotCompleted, GivenBack,
       UpsertMatchResult, SweepStarts, TimedOut, SweepEnds, Surroundings,
       ServerStops, Dropped
  <1>3. QED BY <1>1, <1>2

\* A ticket once named in a result stays named in it.
LEMMA NamedStays ==
  ASSUME IndInv, [Next]_vars, NEW t \in Tickets, NEW m \in Matches,
         owner[t] \in result[m]
  PROVE  owner'[t] \in result'[m]
  <1>1. TypeOK
    BY DEF IndInv
  <1>2. owner[t] # NoPlayer
    BY <1>1, IdAssumption DEF TypeOK
  <1>3. owner'[t] = owner[t]
    BY <1>1, <1>2, TicketFrame
    DEF ticketVars, CreateMatchTicket, WriteTicketHash, SetTicketTTL,
        IndexDeadline, RollbackCreate, CancelMatchTicket, CompleteMatch,
        TimeoutMatchTicket, LapseTicket, LapseLock, TypeOK
  <1>4. result'[m] = result[m]
    BY ResultStays
  <1>5. QED BY <1>3, <1>4

\* The tickets found are named in the result that CompleteMatch writes.
LEMMA FoundNamed ==
  ASSUME IndInv, NEW r \in Procs, CompleteMatch(r), NEW t \in found[r]
  PROVE  match[r] \in Matches /\ t \in Tickets /\ owner'[t] \in result'[match[r]]
  <1>1. TypeOK /\ LocalsInUse
    BY DEF IndInv
  <1>2. match[r] \in Matches /\ t \in Tickets
    BY <1>1 DEF CompleteMatch, LocalsInUse, InUse, MatchSteps, TypeOK
  <1>3. result'[match[r]] = Owners(found[r]) /\ owner' = owner
    BY <1>1, <1>2 DEF CompleteMatch, TypeOK
  <1>4. QED BY <1>2, <1>3 DEF Owners

\* Tickets keep naming results with their players.
LEMMA TicketsNamedStep ==
  ASSUME IndInv, TicketsNamed, [Next]_vars, NEW t \in Tickets
  PROVE  Named(t, matchOf[t])'
  <1>1. TypeOK
    BY DEF IndInv
  <1>2. CASE matchOf'[t] = matchOf[t]
    BY <1>1, <1>2, NamedStays DEF TicketsNamed, Named, TypeOK
  <1>3. ASSUME NEW r \in Procs, CompleteMatch(r), t \in found[r]
        PROVE  Named(t, matchOf[t])'
    BY <1>1, <1>3, FoundNamed DEF CompleteMatch, Named
  <1>4. ASSUME NEW r \in Procs, CompleteMatch(r), t \notin found[r]
        PROVE  matchOf'[t] = matchOf[t]
    BY <1>4, <1>1 DEF CompleteMatch, TypeOK
  <1>5. ASSUME \/ \E u \in Tickets : LapseTicket(u)
               \/ \E r \in Requests : RollbackCreate(r)
        PROVE  matchOf'[t] \in {matchOf[t], NoMatch}
    BY <1>1, <1>5 DEF LapseTicket, RollbackCreate, TypeOK
  <1>6. ~(\E r \in Procs : CompleteMatch(r))
          => matchOf'[t] \in {matchOf[t], NoMatch}
    BY <1>5, TicketFrame DEF ticketVars, CreateMatchTicket, WriteTicketHash,
       SetTicketTTL, IndexDeadline, CancelMatchTicket, TimeoutMatchTicket,
       LapseLock
  <1>7. QED BY <1>2, <1>3, <1>4, <1>6 DEF Named

\* Only the EXEC of CompleteMatch writes a result.
LEMMA ResultFrame ==
  ASSUME [RowsNext]_rowVars
  PROVE  result' = result \/ \E r \in Procs : Completed(r)
  <1> USE DEF matchVars
  <1>1. ASSUME NEW r \in Procs, HotPath(r) PROVE result' = result
    BY <1>1 DEF HotPath, SearchAndPickTicketPlayers, AllocateRoom,
       AllocateRoomFails, GetPlayerTicketID, ReadTicketToMatch,
       CompleteMatchFails, ReadTicketToRequeue, RequeuePlayer,
       WriteTicketHash, SetTicketTTL, AddPlayerToPool, RollbackCreate,
       RollbackPool, CancelFails
  <1>2. ASSUME NEW r \in Procs,
               \/ NotCompleted(r) \/ GivenBack(r)
               \/ UpsertMatchResult(r) \/ UpsertMatchTicket(r)
        PROVE  result' = result
    BY <1>2 DEF NotCompleted, PickNobody, RequeueReturns, GivenBack,
       ReleaseRoom, UpsertMatchResult, UpsertMatchTicket, vars
  <1>3. ASSUME NEW r \in Requests,
               \/ Arrives(r) \/ Created(r) \/ Cancelled(r)
               \/ GetMatchTicket(r) \/ GetMatchTicketFails(r)
        PROVE  result' = result
    BY <1>3 DEF Arrives, Arrive, CreateMatchTicket, ReadTicketToCancel,
       Created, IndexDeadline, Cancelled, CancelMatchTicket, GetMatchTicket,
       GetMatchTicketFails, vars
  <1>4. ASSUME \/ SweepStarts \/ SweepEnds \/ Surroundings
               \/ \E t \in Tickets : TimedOut(t)
        PROVE  result' = result
    BY <1>4 DEF SweepStarts, TimeoutExpiredMatchTickets, TimedOut,
       TimeoutMatchTicket, SweepEnds, ScanAllBuckets, Surroundings, Deadline,
       Disconnect, LapseTicket, LapseLock, LapseResult
  <1>5. ASSUME ServerStops PROVE result' = result
    BY <1>5 DEF ServerStops, Shutdown, Crash, Restart
  <1>6. QED
    BY <1>1, <1>2, <1>3, <1>4, <1>5 DEF RowsNext, rowVars, vars

\* Every result keeps its row, or what stands for it.
LEMMA ResultsRecordedStep ==
  ASSUME IndInv, RowsTypeOK, ResultsRecorded, [RowsNext]_rowVars,
         NEW m \in Matches, result'[m] # {}
  PROVE  \/ matchRow'[m] = result'[m] \/ m \in cut'
         \/ \E r \in Procs : newMatch'[r] = m
  <1> USE DEF mirrorVars, mirror, pending
  <1>1. TypeOK /\ [Next]_vars /\ m # NoMatch
    BY RowsStepIsStep, IdAssumption DEF IndInv
  <1>2. CASE result[m] = {}
    <2>1. PICK r \in Procs : Completed(r)
      BY <1>2, ResultFrame
    <2>2. match[r] = m
      BY <1>1, <1>2, <2>1 DEF Completed, CompleteMatch, TypeOK
    <2>3. newMatch'[r] = m
      BY <2>1, <2>2 DEF Completed, RowsTypeOK
    <2>4. QED BY <2>3
  <1>3. CASE result[m] # {}
    <2>1. result'[m] = result[m]
      BY <1>1, <1>3, ResultStays
    <2>2. CASE m \in cut
      BY <2>2, CutGrows
    <2>3. ASSUME NEW r \in Procs, UpsertMatchResult(r)
          PROVE  \/ newMatch'[r] = newMatch[r] /\ matchRow' = matchRow
                 \/ newMatch[r] \in cut' /\ matchRow' = matchRow
                 \/ matchRow' = [matchRow EXCEPT ![newMatch[r]] =
                                   result[newMatch[r]]]
      BY <2>3 DEF UpsertMatchResult
    <2>4. CASE matchRow[m] = result[m]
      <3>1. ASSUME NEW r \in Procs, UpsertMatchResult(r)
            PROVE  matchRow'[m] = matchRow[m]
        BY <2>3, <2>4, <3>1 DEF RowsTypeOK
      <3>2. matchRow' = matchRow \/ \E r \in Procs : UpsertMatchResult(r)
        BY DEF RowsNext, rowVars, Arrives, Created, Cancelled, GetMatchTicket,
           GetMatchTicketFails, HotPath, Completed, NotCompleted, GivenBack,
           UpsertMatchTicket, SweepStarts, TimedOut, SweepEnds, Surroundings,
           ServerStops, Dropped
      <3>3. QED BY <2>1, <2>4, <3>1, <3>2
    <2>5. ASSUME NEW s \in Procs, newMatch[s] = m, newMatch'[s] # m
          PROVE  matchRow'[m] = result'[m] \/ m \in cut'
      <3>1. CASE UpsertMatchResult(s)
        BY <1>1, <2>1, <2>3, <2>5, <3>1 DEF RowsTypeOK
      <3>2. ASSUME NEW r \in Procs, r # s, UpsertMatchResult(r) PROVE FALSE
        BY <2>5, <3>2 DEF UpsertMatchResult, RowsTypeOK
      <3>3. ASSUME NEW r \in Procs, Completed(r) PROVE FALSE
        BY <1>1, <2>5, <3>3 DEF Completed, Saved, RowsTypeOK
      <3>4. ASSUME NEW S \in SUBSET Procs, Dropped(S) PROVE m \in cut'
        <4>1. s \in S
          BY <2>5, <3>4 DEF Dropped
        <4>2. QED BY <1>1, <2>5, <3>4, <4>1 DEF Dropped
      <3>5. \/ newMatch' = newMatch
            \/ \E r \in Procs : UpsertMatchResult(r) \/ Completed(r)
            \/ \E S \in SUBSET Procs : Dropped(S)
        BY DEF RowsNext, rowVars, Arrives, Created, Cancelled, GetMatchTicket,
           GetMatchTicketFails, HotPath, NotCompleted, GivenBack,
           UpsertMatchTicket, SweepStarts, TimedOut, SweepEnds, Surroundings,
           ServerStops, Procs
      <3>6. QED BY <2>5, <3>1, <3>2, <3>3, <3>4, <3>5
    <2>6. QED BY <1>3, <2>2, <2>4, <2>5, <2>1 DEF ResultsRecorded
  <1>4. QED BY <1>2, <1>3

\* Every step preserves what is known of rows and copies.
LEMMA RowsInvStep ==
  ASSUME IndInv, RowsInv, [RowsNext]_rowVars
  PROVE  RowsInv'
  <1>1. /\ TypeOK /\ RowsTypeOK /\ ResultsRecorded /\ TicketsNamed
        /\ CopiesNamed /\ RowsNamed /\ [Next]_vars
    BY RowsStepIsStep DEF IndInv, RowsInv
  <1>2. RowsTypeOK'
    BY <1>1, RowsTypeStep
  <1>3. ResultsRecorded'
    BY <1>1, ResultsRecordedStep DEF ResultsRecorded
  <1>4. TicketsNamed'
    BY <1>1, TicketsNamedStep DEF TicketsNamed
  <1>5. ASSUME NEW t \in Tickets, NEW m \in Matches \cup {NoMatch}, Named(t, m)
        PROVE  Named(t, m)'
    BY <1>1, <1>5, NamedStays DEF Named
  <1>6. ASSUME NEW c \in Held' PROVE Named(c.ticket, c.match)'
    <2>1. CASE c \in Held
      <3>1. c.ticket \in Tickets /\ c.match \in Matches \cup {NoMatch}
        BY <1>1, <2>1, HeldType DEF Copies
      <3>2. QED BY <1>1, <1>5, <2>1, <3>1 DEF CopiesNamed
    <2>2. CASE c.match = NoMatch
      BY <2>2 DEF Named
    <2>3. ASSUME NEW r \in Procs, NEW t \in found[r], Completed(r),
                 c = CopyOf(t, "matched", match[r])
          PROVE  Named(c.ticket, c.match)'
      BY <2>3, FoundNamed DEF Completed, CopyOf, Named
    <2>4. ASSUME NEW r \in Requests, again[r] \in Tickets,
                 c = CopyOf(again[r], status[again[r]], matchOf[again[r]])
          PROVE  Named(c.ticket, c.match)'
      <3>1. c.ticket = again[r] /\ c.match = matchOf[again[r]]
        BY <2>4 DEF CopyOf
      <3>2. matchOf[again[r]] \in Matches \cup {NoMatch}
        BY <1>1, <2>4 DEF TypeOK
      <3>3. QED BY <1>1, <1>5, <2>4, <3>1, <3>2 DEF TicketsNamed
    <2>5. QED BY <1>1, <2>1, <2>2, <2>3, <2>4, HeldFrame
  <1>7. ASSUME NEW t \in Tickets PROVE Named(t, row[t].match)'
    <2>1. CASE row'[t] = row[t]
      <3>1. row[t].match \in Matches \cup {NoMatch}
        BY <1>1 DEF RowsTypeOK, RowStates
      <3>2. Named(t, row[t].match)
        BY <1>1 DEF RowsNamed
      <3>3. QED BY <1>1, <2>1, <3>1, <3>2, NamedStays DEF Named
    <2>2. CASE row'[t] # row[t]
      <3>1. PICK c \in Held :
              c.ticket = t /\ row'[t] = [status |-> c.status, match |-> c.match]
        BY <1>1, <2>2, RowFrame
      <3>2. row'[t].match = c.match /\ c.match \in Matches \cup {NoMatch}
        BY <1>1, <3>1, HeldType DEF Copies
      <3>3. Named(t, c.match)
        BY <1>1, <3>1 DEF CopiesNamed
      <3>4. QED BY <1>1, <3>2, <3>3, NamedStays DEF Named
    <2>3. QED BY <2>1, <2>2
  <1>8. QED BY <1>2, <1>3, <1>4, <1>6, <1>7 DEF RowsInv, CopiesNamed, RowsNamed

\* The invariant holds in every reachable state.
LEMMA RowsInductive == RowsSpec => []RowsInv
  <1>1. RowsInit => RowsInv
    <2>1. RowsInit => RowsTypeOK
      BY RowsTypeInit
    <2>2. RowsInit => ResultsRecorded /\ TicketsNamed /\ RowsNamed
      BY DEF RowsInit, Init, ResultsRecorded, TicketsNamed, RowsNamed, Named
    <2>3. RowsInit => CopiesNamed
      BY DEF RowsInit, CopiesNamed, Held
    <2>4. QED BY <2>1, <2>2, <2>3 DEF RowsInv
  <1>2. IndInv /\ RowsInv /\ [RowsNext]_rowVars => RowsInv'
    BY RowsInvStep
  <1>3. QED BY <1>1, <1>2, MirrorIsPassive, Inductive, PTL DEF RowsSpec

\* The rows and the copies of tickets keep their types.
THEOREM RowsTypeCorrect == RowsSpec => []RowsTypeOK
  <1>1. RowsInv => RowsTypeOK
    BY DEF RowsInv
  <1>2. QED BY <1>1, RowsInductive, PTL

\* A row that names a match is about one of its players, and the match has its
\* row in match_results, will get it, or lost it to a failure or a stop that
\* the history knows of (UpsertMatchResult before UpsertMatchTicket).
THEOREM MatchedRowsAreBacked == RowsSpec => []MatchedRowsHaveResults
  <1>1. ASSUME IndInv, RowsInv, NEW t \in Tickets, row[t].match # NoMatch
        PROVE  LET m == row[t].match IN
                 /\ owner[t] \in result[m]
                 /\ \/ matchRow[m] = result[m] \/ m \in cut
                    \/ \E r \in Procs : newMatch[r] = m
    <2>1. row[t].match \in Matches
      BY <1>1 DEF RowsInv, RowsTypeOK, RowStates
    <2>2. owner[t] \in result[row[t].match]
      BY <1>1 DEF RowsInv, RowsNamed, Named
    <2>3. QED BY <1>1, <2>1, <2>2 DEF RowsInv, ResultsRecorded
  <1>2. IndInv /\ RowsInv => MatchedRowsHaveResults
    BY <1>1 DEF MatchedRowsHaveResults
  <1>3. QED BY <1>2, MirrorIsPassive, Inductive, RowsInductive, PTL

-----------------------------------------------------------------------------
(* Rows and tickets.                                                       *)

\* All copies of t that are held say what t is, and if none is held its row
\* says it.  This is what RowsFollowTickets needs to be inductive: the last of
\* several equal copies writes the row.
Follows(t) ==
  status[t] # "none" /\ ~Creating(t) =>
    /\ \A c \in Held : c.ticket = t => c.status = status[t]
    /\ t \notin TicketsOf(Held) => row[t].status = status[t]

RowsAgree == \A t \in Tickets \ apart : Follows(t)

\* A step of one goroutine leaves the others where they are.
LEMMA OneMoves ==
  ASSUME TypeOK, NEW r \in Procs, NEW s \in Procs, s # r,
         \/ HotPath(r) \/ Completed(r) \/ NotCompleted(r) \/ GivenBack(r)
         \/ r \in Requests /\ (Arrives(r) \/ Created(r) \/ Cancelled(r))
  PROVE  pc'[s] = pc[s] /\ own'[s] = own[s]
  <1> USE DEF localVars, Goto
  <1> DEFINE Stays == pc'[s] = pc[s] /\ own'[s] = own[s]
  <1>1. Finish(r) => Stays
    BY FinishLocal DEF Same, Locals
  <1>2. (\E x \in Steps : pc' = [pc EXCEPT ![r] = x])
          /\ (own' = own \/ \E t : own' = [own EXCEPT ![r] = t]) => Stays
    BY DEF TypeOK
  <1>3. CASE HotPath(r)
    <2>1. \/ Finish(r)
          \/ own' = own /\ \E x \in Steps : pc' = [pc EXCEPT ![r] = x]
      BY <1>3 DEF HotPath, SearchAndPickTicketPlayers, AllocateRoom,
         AllocateRoomFails, GetPlayerTicketID, ReadTicketToMatch,
         CompleteMatchFails, ReadTicketToRequeue, RequeuePlayer,
         WriteTicketHash, SetTicketTTL, AddPlayerToPool, RollbackCreate,
         RollbackPool, CancelFails, Steps, CreateSteps, MatchSteps,
         RequeueSteps
    <2>2. QED BY <1>1, <1>2, <2>1
  <1>4. CASE Completed(r) \/ NotCompleted(r)
    BY <1>1, <1>4 DEF Completed, CompleteMatch, NotCompleted, PickNobody,
       RequeueReturns
  <1>5. CASE GivenBack(r)
    BY <1>2, <1>5 DEF GivenBack, ReleaseRoom, Steps, RequeueSteps
  <1>6. CASE r \in Requests /\ Arrives(r)
    BY <1>2, <1>6 DEF Arrives, Arrive, CreateMatchTicket, ReadTicketToCancel,
       Steps, CreateSteps
  <1>7. CASE r \in Requests /\ Created(r)
    BY <1>2, <1>7 DEF Created, IndexDeadline, Steps
  <1>8. CASE r \in Requests /\ Cancelled(r)
    BY <1>1, <1>8 DEF Cancelled, CancelMatchTicket
  <1>9. QED BY <1>3, <1>4, <1>5, <1>6, <1>7, <1>8

\* A ticket in creation whose creator stays where he is remains in creation.
LEMMA StaysCreating ==
  ASSUME NEW t \in Tickets, NEW s \in Requests,
         own[s] = t, pc[s] \in CreateSteps,
         pc'[s] = pc[s] /\ own'[s] = own[s]
  PROVE  Creating(t)'
  BY DEF Creating

\* What follows its ticket does so after a step that moves nothing about it.
LEMMA Undisturbed ==
  ASSUME NEW t \in Tickets, Follows(t), status'[t] = status[t], ~Creating(t),
         row'[t] = row[t],
         \A c \in Held \cup Held' : c.ticket = t => (c \in Held <=> c \in Held')
  PROVE  Follows(t)'
  BY DEF Follows, TicketsOf

\* What Take makes of the copies of t: those of this step alone if t is among
\* them, and nothing new about t otherwise.
LEMMA TakeFollows ==
  ASSUME RowsTypeOK, NEW r \in Procs, NEW C, Take(r, C), Saved(r),
         UNCHANGED swept, NEW t \in Tickets, t \notin apart'
  PROVE  /\ t \in TicketsOf(C) => Follows(t)'
         /\ t \notin TicketsOf(C) =>
              /\ t \notin apart
              /\ \A c \in Held \cup Held' :
                   c.ticket = t => (c \in Held <=> c \in Held')
  <1>1. \A s \in Procs : unsaved'[s] = IF s = r THEN C ELSE unsaved[s]
    BY DEF Take, RowsTypeOK
  <1>2. Held' = Held \cup C
    <2>1. unsaved[r] = {}
      BY DEF Saved
    <2>2. QED BY <1>1, <2>1 DEF Held
  <1>3. apart' = (apart \ TicketsOf(C)) \cup Crossing(C)
    BY DEF Take
  <1>4. ASSUME t \in TicketsOf(C) PROVE Follows(t)'
    <2>1. PICK d \in C : d.ticket = t
      BY <1>4 DEF TicketsOf
    <2>2. ASSUME NEW c \in C, c.ticket = t PROVE c.status = status'[t]
      BY <1>3, <2>2 DEF Crossing
    <2>3. ASSUME NEW c \in Held, c.ticket = t PROVE c.status = d.status
      BY <1>3, <2>1, <2>3 DEF Crossing
    <2>4. \A c \in Held' : c.ticket = t => c.status = status'[t]
      BY <1>2, <2>1, <2>2, <2>3
    <2>5. d \in Held'
      BY <1>2
    <2>6. t \in TicketsOf(Held)'
      BY <2>1, <2>5 DEF TicketsOf
    <2>7. QED BY <2>4, <2>6 DEF Follows
  <1>5. ASSUME t \notin TicketsOf(C)
        PROVE  /\ t \notin apart
               /\ \A c \in Held \cup Held' :
                    c.ticket = t => (c \in Held <=> c \in Held')
    BY <1>2, <1>3, <1>5 DEF TicketsOf
  <1>6. QED BY <1>4, <1>5

\* The steps of the hot path that leave no copies.
LEMMA HotPathFollows ==
  ASSUME IndInv, RowsAgree, NEW r \in Procs, HotPath(r),
         NEW t \in Tickets \ apart', status'[t] # "none", ~Creating(t)'
  PROVE  Follows(t)'
  <1>1. TypeOK /\ UnwrittenIsPrivate /\ Requests \subseteq Procs
    BY DEF IndInv, Procs
  <1>2. /\ t \notin apart /\ row' = row /\ Held' = Held
    BY DEF HotPath, mirrorVars, mirror, pending, Held
  <1>3. Follows(t)
    BY <1>2 DEF RowsAgree
  <1>4. ASSUME NEW s \in Requests, s # r, own[s] = t, pc[s] \in CreateSteps
        PROVE  FALSE
    BY <1>1, <1>4, OneMoves, StaysCreating
  <1>5. ASSUME pc[r] \notin CreateSteps PROVE ~Creating(t) /\ status' = status
    <2>1. status' = status
      BY <1>5 DEF HotPath, SearchAndPickTicketPlayers, AllocateRoom,
         AllocateRoomFails, GetPlayerTicketID, ReadTicketToMatch,
         CompleteMatchFails, ReadTicketToRequeue, RequeuePlayer, ticketVars,
         WriteTicketHash, SetTicketTTL, AddPlayerToPool, RollbackCreate,
         RollbackPool, CancelFails, CreateSteps
    <2>2. QED BY <1>4, <1>5, <2>1 DEF Creating
  <1>6. ASSUME pc[r] \in CreateSteps
        PROVE  ~Creating(t) /\ status'[t] = status[t]
    <2>1. /\ r \in Requests
          /\ \/ WriteTicketHash(r) \/ SetTicketTTL(r) \/ AddPlayerToPool(r)
             \/ RollbackCreate(r)
      BY <1>6 DEF HotPath, SearchAndPickTicketPlayers, AllocateRoom,
         AllocateRoomFails, GetPlayerTicketID, ReadTicketToMatch,
         CompleteMatchFails, ReadTicketToRequeue, RequeuePlayer,
         RollbackPool, CancelFails, CreateSteps
    <2>2. ASSUME own[r] = t PROVE FALSE
      <3>1. CASE RollbackCreate(r)
        <4>1. pc[r] = "hset" => status'[t] = status[t]
          BY <3>1 DEF RollbackCreate
        <4>2. pc[r] # "hset" => status'[t] = "none"
          BY <1>1, <2>2, <3>1 DEF RollbackCreate, TypeOK
        <4>3. pc[r] = "hset" => status[t] = "none"
          BY <1>1, <2>1, <2>2 DEF UnwrittenIsPrivate
        <4>4. QED BY <4>1, <4>2, <4>3
      <3>2. CASE WriteTicketHash(r) \/ SetTicketTTL(r) \/ AddPlayerToPool(r)
        <4>1. pc'[r] \in CreateSteps /\ own'[r] = t
          BY <1>1, <2>2, <3>2 DEF WriteTicketHash, SetTicketTTL,
             AddPlayerToPool, Goto, localVars, CreateSteps, TypeOK
        <4>2. QED BY <2>1, <4>1 DEF Creating
      <3>3. QED BY <2>1, <3>1, <3>2
    <2>3. status'[t] = status[t]
      BY <1>1, <2>1, <2>2 DEF WriteTicketHash, SetTicketTTL, AddPlayerToPool,
         RollbackCreate, ticketVars, TypeOK
    <2>4. QED BY <1>4, <2>2, <2>3 DEF Creating
  <1>7. QED BY <1>2, <1>3, <1>5, <1>6, Undisturbed

\* The steps of the hot path that leave copies.
LEMMA CopiedFollows ==
  ASSUME IndInv, RowsTypeOK, RowsAgree, NEW r \in Procs,
         \/ Completed(r)
         \/ r \in Requests /\ (Created(r) \/ Cancelled(r)),
         NEW t \in Tickets \ apart', status'[t] # "none", ~Creating(t)'
  PROVE  Follows(t)'
  <1>1. TypeOK /\ Requests \subseteq Procs
    BY DEF IndInv, Procs
  <1>2. ASSUME NEW s \in Requests, s # r, own[s] = t, pc[s] \in CreateSteps
        PROVE  FALSE
    BY <1>1, <1>2, OneMoves, StaysCreating
  <1>3. PICK C :
          /\ Take(r, C) /\ Saved(r) /\ UNCHANGED <<swept, row>>
          /\ t \notin TicketsOf(C) => status'[t] = status[t] /\ ~Creating(t)
    <2>1. CASE Completed(r)
      <3>1. pc[r] \notin CreateSteps
        BY <2>1 DEF Completed, CompleteMatch, CreateSteps
      <3>2. ~Creating(t)
        BY <1>2, <3>1 DEF Creating
      <3>3. ASSUME t \notin found[r] PROVE status'[t] = status[t]
        BY <2>1, <3>3 DEF Completed, CompleteMatch
      <3>4. ASSUME NEW u \in found[r]
            PROVE  u \in TicketsOf({CopyOf(v, "matched", match[r]) : v \in found[r]})
        <4>1. CopyOf(u, "matched", match[r]).ticket = u
          BY DEF CopyOf
        <4>2. QED BY <4>1 DEF TicketsOf
      <3>5. QED BY <2>1, <3>2, <3>3, <3>4 DEF Completed, mirror
    <2>2. CASE r \in Requests /\ Created(r)
      <3>1. status' = status
        BY <2>2 DEF Created, IndexDeadline, ticketVars
      <3>2. t # own[r] => ~Creating(t)
        BY <1>2 DEF Creating
      <3>3. own[r] \in TicketsOf({CopyOf(own[r], "queued", NoMatch)})
        BY DEF TicketsOf, CopyOf
      <3>4. QED BY <2>2, <3>1, <3>2, <3>3 DEF Created, mirror
    <2>3. CASE r \in Requests /\ Cancelled(r)
      <3>1. pc[r] \notin CreateSteps
        BY <2>3 DEF Cancelled, CancelMatchTicket, CreateSteps
      <3>2. ~Creating(t)
        BY <1>2, <3>1 DEF Creating
      <3>3. t # own[r] => status'[t] = status[t]
        BY <1>1, <2>3 DEF Cancelled, CancelMatchTicket, TypeOK
      <3>4. own[r] \in TicketsOf({CopyOf(own[r], "cancelled", NoMatch)})
        BY DEF TicketsOf, CopyOf
      <3>5. QED BY <2>3, <3>2, <3>3, <3>4 DEF Cancelled, mirror
    <2>4. QED BY <2>1, <2>2, <2>3
  <1>4. CASE t \in TicketsOf(C)
    BY <1>3, <1>4, TakeFollows
  <1>5. CASE t \notin TicketsOf(C)
    <2>1. /\ t \notin apart
          /\ \A c \in Held \cup Held' :
               c.ticket = t => (c \in Held <=> c \in Held')
      BY <1>3, <1>5, TakeFollows
    <2>2. QED BY <1>3, <1>5, <2>1, Undisturbed DEF RowsAgree
  <1>6. QED BY <1>4, <1>5

\* The step of the worker that times a ticket out.
LEMMA TimedOutFollows ==
  ASSUME IndInv, RowsTypeOK, RowsAgree, NEW u \in Tickets, TimedOut(u),
         NEW t \in Tickets \ apart', status'[t] # "none", ~Creating(t)'
  PROVE  Follows(t)'
  <1> DEFINE C == IF status[u] = "queued" THEN {CopyOf(u, "timeout", NoMatch)}
                                          ELSE {}
  <1>1. TypeOK
    BY DEF IndInv
  <1>2. /\ swept' = swept \cup C /\ unsaved' = unsaved /\ row' = row
        /\ apart' = (apart \ TicketsOf(C)) \cup Crossing(C)
    BY DEF TimedOut, mirror
  <1>3. Held' = Held \cup C
    BY <1>2 DEF Held
  <1>4. ~Creating(t)
    BY DEF TimedOut, TimeoutMatchTicket, localVars, Creating
  <1>5. CASE t = u /\ status[u] = "queued"
    <2>1. C = {CopyOf(t, "timeout", NoMatch)} /\ status'[t] = "timeout"
      BY <1>1, <1>5 DEF TimedOut, TimeoutMatchTicket, TypeOK
    <2>2. /\ CopyOf(t, "timeout", NoMatch).ticket = t
          /\ CopyOf(t, "timeout", NoMatch).status = "timeout"
      BY DEF CopyOf
    <2>3. \A e \in Held : e.ticket = t => e.status = "timeout"
      BY <1>2, <2>1, <2>2 DEF Crossing
    <2>4. \A c \in Held' : c.ticket = t => c.status = "timeout"
      BY <1>3, <2>1, <2>2, <2>3
    <2>5. t \in TicketsOf(Held)'
      BY <1>3, <2>1, <2>2 DEF TicketsOf
    <2>6. QED BY <2>1, <2>4, <2>5 DEF Follows
  <1>6. CASE ~(t = u /\ status[u] = "queued")
    <2>1. status'[t] = status[t]
      BY <1>1, <1>6 DEF TimedOut, TimeoutMatchTicket, TypeOK
    <2>2. \A c \in C : c.ticket # t
      BY <1>6 DEF CopyOf
    <2>3. t \notin apart
      BY <1>2, <2>2 DEF TicketsOf
    <2>4. \A c \in Held \cup Held' : c.ticket = t => (c \in Held <=> c \in Held')
      BY <1>3, <2>2
    <2>5. QED BY <1>2, <1>4, <2>1, <2>3, <2>4, Undisturbed DEF RowsAgree
  <1>7. QED BY <1>5, <1>6

\* A stop forgets what the goroutines held about the tickets that are apart.
LEMMA StopFollows ==
  ASSUME IndInv, RowsTypeOK, RowsAgree, NEW S \in SUBSET Procs,
         Restart(S), Dropped(S),
         \A r \in Requests \ S : pc[r] = "idle",
         NEW t \in Tickets \ apart'
  PROVE  Follows(t)'
  <1>1. status' = status /\ row' = row
    BY DEF Restart, Dropped, ticketVars, mirror
  <1>2. ~Creating(t)
    <2>1. SUFFICES ASSUME NEW r \in Requests, own[r] = t, pc[r] \in CreateSteps
                   PROVE  FALSE
      BY DEF Creating
    <2>2. r \in S
      BY <2>1 DEF CreateSteps
    <2>3. t \in apart'
      BY <2>1, <2>2 DEF Dropped
    <2>4. QED BY <2>3
  <1>3. t \notin apart
    BY DEF Dropped
  <1>4. ASSUME NEW c \in Held, c.ticket = t PROVE c \in Held'
    <2>1. c \notin swept
      BY <1>4 DEF Dropped, TicketsOf
    <2>2. PICK r \in Procs : c \in unsaved[r]
      BY <1>4, <2>1 DEF Held
    <2>3. r \notin S
      BY <1>4, <2>2 DEF Dropped, TicketsOf
    <2>4. c \in unsaved'[r]
      BY <2>2, <2>3 DEF Dropped
    <2>5. QED BY <2>4 DEF Held
  <1>5. Held' \subseteq Held
    BY DEF Dropped, Held
  <1>6. QED BY <1>1, <1>2, <1>3, <1>4, <1>5, Undisturbed DEF RowsAgree

\* Every step keeps what the rows say about their tickets.
LEMMA RowsAgreeStep ==
  ASSUME IndInv, RowsTypeOK, RowsAgree, [RowsNext]_rowVars,
         NEW t \in Tickets \ apart'
  PROVE  Follows(t)'
  <1> SUFFICES ASSUME status'[t] # "none", ~Creating(t)' PROVE Follows(t)'
    BY DEF Follows
  <1> USE DEF mirrorVars, mirror, pending
  <1>1. TypeOK /\ Requests \subseteq Procs
    BY DEF IndInv, Procs
  <1>2. ASSUME UNCHANGED <<unsaved, swept>> PROVE Held' = Held
    BY <1>2 DEF Held
  <1>3. ASSUME UNCHANGED <<row, unsaved, swept, apart>>,
               status'[t] = status[t], ~Creating(t)
        PROVE  Follows(t)'
    BY <1>2, <1>3, Undisturbed DEF RowsAgree
  <1>4. ASSUME NEW r \in Procs, pc[r] \notin CreateSteps,
               \A s \in Requests \ {r} : pc'[s] = pc[s] /\ own'[s] = own[s]
        PROVE  ~Creating(t)
    BY <1>4, StaysCreating DEF Creating
  <1>5. UNCHANGED vars => status'[t] = status[t] /\ ~Creating(t)
    BY DEF vars, ticketVars, localVars, Creating
  <1>6. ASSUME NEW r \in Requests, Arrives(r) PROVE Follows(t)'
    <2>1. ~Creating(t)
      BY <1>1, <1>4, <1>6, OneMoves DEF Arrives, Returned, CreateSteps
    <2>2. status' = status
      BY <1>6 DEF Arrives, Arrive, CreateMatchTicket, ReadTicketToCancel,
         ticketVars
    <2>3. QED BY <1>3, <1>6, <2>1, <2>2 DEF Arrives
  <1>7. ASSUME NEW r \in Procs, NotCompleted(r) \/ GivenBack(r)
        PROVE  Follows(t)'
    <2>1. pc[r] \notin CreateSteps
      BY <1>7 DEF NotCompleted, PickNobody, RequeueReturns, RequeueSteps,
         GivenBack, ReleaseRoom, CreateSteps
    <2>2. ~Creating(t)
      BY <1>1, <1>4, <1>7, <2>1, OneMoves
    <2>3. status' = status
      BY <1>7 DEF NotCompleted, PickNobody, RequeueReturns, GivenBack,
         ReleaseRoom, ticketVars
    <2>4. QED BY <1>3, <1>7, <2>2, <2>3 DEF NotCompleted, GivenBack
  <1>8. ASSUME NEW r \in Procs, UpsertMatchResult(r) PROVE Follows(t)'
    BY <1>3, <1>5, <1>8 DEF UpsertMatchResult
  <1>9. ASSUME NEW r \in Requests, GetMatchTicketFails(r) PROVE Follows(t)'
    BY <1>3, <1>5, <1>9 DEF GetMatchTicketFails
  <1>10. ASSUME NEW r \in Requests, GetMatchTicket(r) PROVE Follows(t)'
    <2>1. CASE status[again[r]] = "none"
      BY <1>3, <1>5, <1>10, <2>1 DEF GetMatchTicket
    <2>2. CASE status[again[r]] # "none"
      <3>1. PICK C : Take(r, C) /\ Saved(r) /\ UNCHANGED <<swept, row>>
        BY <1>10, <2>2 DEF GetMatchTicket
      <3>2. t \in TicketsOf(C) => Follows(t)'
        BY <1>1, <3>1, TakeFollows
      <3>3. t \notin TicketsOf(C) =>
              /\ t \notin apart
              /\ \A c \in Held \cup Held' :
                   c.ticket = t => (c \in Held <=> c \in Held')
        BY <1>1, <3>1, TakeFollows
      <3>4. status'[t] = status[t] /\ ~Creating(t)
        BY <1>5, <1>10 DEF GetMatchTicket
      <3>5. QED BY <3>1, <3>2, <3>3, <3>4, Undisturbed DEF RowsAgree
    <2>3. QED BY <2>1, <2>2
  <1>11. ASSUME NEW r \in Procs, UpsertMatchTicket(r) PROVE Follows(t)'
    <2>1. PICK c \in unsaved[r] :
            /\ unsaved' = [unsaved EXCEPT ![r] = @ \ {c}]
            /\ \/ /\ row' = [row EXCEPT ![c.ticket] =
                               [status |-> c.status, match |-> c.match]]
                  /\ UNCHANGED apart
               \/ apart' = apart \cup {c.ticket} /\ UNCHANGED row
      BY <1>11 DEF UpsertMatchTicket
    <2>2. status'[t] = status[t] /\ ~Creating(t) /\ swept' = swept
      BY <1>5, <1>11 DEF UpsertMatchTicket
    <2>3. t \notin apart /\ Follows(t)
      BY <2>1 DEF RowsAgree
    <2>4. c \in Held /\ Held' \subseteq Held /\ Held \ {c} \subseteq Held'
      <3>1. \A s \in Procs :
              unsaved'[s] = IF s = r THEN unsaved[r] \ {c} ELSE unsaved[s]
        BY <2>1 DEF RowsTypeOK
      <3>2. QED BY <2>1, <2>2, <3>1 DEF Held
    <2>5. CASE c.ticket # t
      <3>1. row'[t] = row[t]
        BY <2>1, <2>5 DEF RowsTypeOK
      <3>2. QED BY <2>2, <2>3, <2>4, <2>5, <3>1, Undisturbed
    <2>6. CASE c.ticket = t
      <3>1. row'[t] = [status |-> c.status, match |-> c.match]
        BY <2>1, <2>6 DEF RowsTypeOK
      <3>2. row'[t].status = c.status
        BY <3>1
      <3>3. c.status = status[t]
        BY <2>2, <2>3, <2>4, <2>6 DEF Follows
      <3>4. \A d \in Held' : d.ticket = t => d.status = status'[t]
        BY <2>2, <2>3, <2>4 DEF Follows
      <3>5. QED BY <2>2, <3>2, <3>3, <3>4 DEF Follows
    <2>7. QED BY <2>5, <2>6
  <1>12. ASSUME SweepStarts PROVE Follows(t)'
    <2>1. status' = status /\ ~Creating(t)
      BY <1>12, IdAssumption DEF SweepStarts, TimeoutExpiredMatchTickets,
         ticketVars, localVars, Goto, Creating
    <2>2. QED BY <1>3, <1>12, <2>1 DEF SweepStarts
  <1>13. ASSUME SweepEnds PROVE Follows(t)'
    <2>1. status' = status /\ ~Creating(t)
      BY <1>13, IdAssumption DEF SweepEnds, ScanAllBuckets, ticketVars, Goto,
         Creating
    <2>2. Held' = Held
      <3>1. unsaved[Worker] = {} /\ swept' = {}
        BY <1>13 DEF SweepEnds, Saved
      <3>2. \A s \in Procs :
              unsaved'[s] = IF s = Worker THEN swept ELSE unsaved[s]
        BY <1>13 DEF SweepEnds, RowsTypeOK
      <3>3. QED BY <3>1, <3>2 DEF Held, Procs
    <2>3. QED BY <1>13, <2>1, <2>2, Undisturbed DEF RowsAgree, SweepEnds
  <1>14. ASSUME Surroundings PROVE Follows(t)'
    <2>1. status'[t] = status[t] /\ ~Creating(t)
      BY <1>1, <1>14 DEF Surroundings, Deadline, LapseTicket, Disconnect,
         LapseLock, LapseResult, ticketVars, localVars, Creating, TypeOK
    <2>2. QED BY <1>3, <1>14, <2>1 DEF Surroundings
  <1>15. ASSUME ServerStops PROVE Follows(t)'
    <2>1. CASE Shutdown /\ Dropped({Worker})
      BY <2>1, StopFollows DEF Shutdown, Procs
    <2>2. CASE Crash /\ Dropped(Procs)
      BY <1>1, <2>2, StopFollows DEF Crash
    <2>3. QED BY <1>15, <2>1, <2>2 DEF ServerStops
  <1>16. CASE UNCHANGED rowVars
    BY <1>3, <1>5, <1>16 DEF rowVars
  <1>17. QED
    BY <1>1, <1>6, <1>7, <1>8, <1>9, <1>10, <1>11, <1>12, <1>13, <1>14, <1>15,
       <1>16, HotPathFollows, CopiedFollows, TimedOutFollows DEF RowsNext

\* A ticket has the row that says what has become of it, once the upserts of
\* its copies are done and none of them crossed or was lost since
\* (CreateTicket, CancelTicket, completePickedPlayers, TimeoutExpiredTickets).
THEOREM RowsAreFollowing == RowsSpec => []RowsFollowTickets
  <1>1. RowsInit => RowsAgree
    BY DEF RowsInit, Init, RowsAgree, Follows
  <1>2. IndInv /\ RowsInv /\ RowsAgree /\ [RowsNext]_rowVars => RowsAgree'
    BY RowsAgreeStep DEF RowsInv, RowsAgree
  <1>3. RowsAgree => RowsFollowTickets
    BY DEF RowsAgree, Follows, RowsFollowTickets
  <1>4. QED
    BY <1>1, <1>2, <1>3, MirrorIsPassive, Inductive, RowsInductive, PTL
    DEF RowsSpec
=============================================================================
