----------------------------- MODULE TicketRows -----------------------------
(***************************************************************************)
(* MatchTickets with the MySQL mirror that MatchService keeps beside it:   *)
(* the rows of match_tickets and match_results.  Redis decides, MySQL      *)
(* follows: after a step of the hot path a goroutine upserts copies of the *)
(* tickets it changed, one statement after the other, and goes on when     *)
(* they are done.  A statement that fails is only logged.                  *)
(*                                                                         *)
(* Nothing orders the upserts of two goroutines, so a row may be older     *)
(* than its ticket.  apart and cut are history: they tell whether that, or *)
(* a failure, has happened.                                                *)
(***************************************************************************)
EXTENDS MatchTickets

VARIABLES
  row,       \* match_tickets: status and match_id by ticket, "none": no row
  matchRow,  \* match_results: player_ids by match, {}: no row
  unsaved,   \* copies of tickets that each goroutine has still to upsert
  newMatch,  \* a result that each goroutine has to upsert before them
  again,     \* the ticket that CreateTicket still has to read at its end
  swept,     \* copies of the tickets timed out so far in this sweep
  apart,     \* history: tickets whose upserts crossed, failed or were cut off
  cut        \* history: matches whose upsert or release failed or was cut off

mirror == <<row, matchRow>>
pending == <<unsaved, newMatch, again, swept>>
mirrorVars == <<mirror, pending, apart, cut>>
rowVars == <<vars, mirrorVars>>

RowStates == [status : Statuses, match : Matches \cup {NoMatch}]
Copies ==
  [ticket : Tickets, status : Statuses, match : Matches \cup {NoMatch}]

RowsTypeOK ==
  /\ row \in [Tickets -> RowStates]
  /\ matchRow \in [Matches -> SUBSET Players]
  /\ unsaved \in [Procs -> SUBSET Copies]
  /\ newMatch \in [Procs -> Matches \cup {NoMatch}]
  /\ again \in [Procs -> Tickets \cup {NoTicket}]
  /\ swept \subseteq Copies
  /\ apart \subseteq Tickets
  /\ cut \subseteq Matches

RowsInit ==
  /\ Init
  /\ row = [t \in Tickets |-> [status |-> "none", match |-> NoMatch]]
  /\ matchRow = [m \in Matches |-> {}]
  /\ unsaved = [r \in Procs |-> {}]
  /\ newMatch = [r \in Procs |-> NoMatch]
  /\ again = [r \in Procs |-> NoTicket]
  /\ swept = {}
  /\ apart = {}
  /\ cut = {}

-----------------------------------------------------------------------------
CopyOf(t, s, m) == [ticket |-> t, status |-> s, match |-> m]

TicketsOf(C) == {c.ticket : c \in C}

\* Copies that some goroutine holds and may still upsert.
Held == swept \cup UNION {unsaved[r] : r \in Procs}

\* All statements of r have returned: r goes on with the hot path.
Saved(r) == unsaved[r] = {} /\ newMatch[r] = NoMatch

\* r has returned to its caller.
Returned(r) == pc[r] = "idle" /\ Saved(r) /\ again[r] = NoTicket

\* Making the copies C settles what was apart about their tickets, unless a
\* copy that says something else is on its way, or the ticket has moved on.
Crossing(C) ==
  {c.ticket : c \in {d \in C :
     \/ status'[d.ticket] # d.status
     \/ \E e \in Held : e.ticket = d.ticket /\ e.status # d.status}}

\* r holds the copies C from now on.
Take(r, C) ==
  /\ unsaved' = [unsaved EXCEPT ![r] = C]
  /\ apart' = (apart \ TicketsOf(C)) \cup Crossing(C)

-----------------------------------------------------------------------------
(* Slips.                                                                  *)

SlipNoCopy(r) ==
  /\ again[r] # NoTicket /\ Saved(r)
  /\ again' = [again EXCEPT ![r] = NoTicket]
  /\ apart' = apart \ {again[r]}
  /\ UNCHANGED <<vars, mirror, unsaved, newMatch, swept, cut>>

SlipForgetResult(r) ==
  /\ newMatch[r] # NoMatch
  /\ newMatch' = [newMatch EXCEPT ![r] = NoMatch]
  /\ UNCHANGED <<vars, mirror, unsaved, again, swept, apart, cut>>

-----------------------------------------------------------------------------
(* The steps of the hot path, with the copies they leave to be upserted.   *)

\* The id of a ticket is known once the request that created it has returned.
Arrives(r) ==
  /\ Returned(r)
  /\ Arrive(r)
  /\ \A s \in Requests : again[s] # own'[r]
  /\ UNCHANGED mirrorVars

HotPath(r) ==
  /\ Saved(r)
  /\ \/ SearchAndPickTicketPlayers(r)
     \/ \E m \in Matches : AllocateRoom(r, m)
     \/ AllocateRoomFails(r)
     \/ \E p \in Players : GetPlayerTicketID(r, p)
     \/ ReadTicketToMatch(r) \/ CompleteMatchFails(r)
     \/ ReadTicketToRequeue(r) \/ RequeuePlayer(r)
     \/ /\ r \in Requests
        /\ \/ WriteTicketHash(r) \/ SetTicketTTL(r) \/ AddPlayerToPool(r)
           \/ RollbackCreate(r) \/ RollbackPool(r) \/ CancelFails(r)
  /\ UNCHANGED mirrorVars

\* CreateTicket upserts the ticket as it created it.
Created(r) ==
  /\ Saved(r)
  /\ IndexDeadline(r)
  /\ Take(r, {CopyOf(own[r], "queued", NoMatch)})
  /\ UNCHANGED <<mirror, newMatch, again, swept, cut>>

\* completePickedPlayers upserts the result, then the tickets in it, and
\* CreateTicket its own ticket after them.
Completed(r) ==
  /\ Saved(r)
  /\ CompleteMatch(r)
  /\ newMatch' = [newMatch EXCEPT ![r] = match[r]]
  /\ Take(r, {CopyOf(t, "matched", match[r]) : t \in found[r]})
  /\ again' = [again EXCEPT ![r] = own[r]]
  /\ UNCHANGED <<mirror, swept, cut>>

\* TryCompleteMatch made no match.  CreateTicket reads its ticket again,
\* unless it returns the error of a command that failed.
NotCompleted(r) ==
  /\ Saved(r)
  /\ PickNobody(r) \/ RequeueReturns(r)
  /\ \/ r \notin gone /\ again' = [again EXCEPT ![r] = own[r]]
     \/ UNCHANGED again
  /\ UNCHANGED <<mirror, unsaved, newMatch, swept, apart, cut>>

\* A release that fails with its request leaves the slots reserved.
GivenBack(r) ==
  /\ Saved(r)
  /\ ReleaseRoom(r)
  /\ cut' = IF r \in gone THEN cut \cup {match[r]} ELSE cut
  /\ UNCHANGED <<mirror, pending, apart>>

Cancelled(r) ==
  /\ Saved(r)
  /\ CancelMatchTicket(r)
  /\ Take(r, {CopyOf(own[r], "cancelled", NoMatch)})
  /\ UNCHANGED <<mirror, newMatch, again, swept, cut>>

\* The sweep upserts what it timed out when it is through.
SweepStarts ==
  /\ Saved(Worker)
  /\ TimeoutExpiredMatchTickets
  /\ UNCHANGED mirrorVars

TimedOut(t) ==
  LET C == IF status[t] = "queued" THEN {CopyOf(t, "timeout", NoMatch)} ELSE {}
  IN /\ Saved(Worker)
     /\ TimeoutMatchTicket(t)
     /\ swept' = swept \cup C
     /\ apart' = (apart \ TicketsOf(C)) \cup Crossing(C)
     /\ UNCHANGED <<mirror, unsaved, newMatch, again, cut>>

SweepEnds ==
  /\ Saved(Worker)
  /\ ScanAllBuckets
  /\ unsaved' = [unsaved EXCEPT ![Worker] = swept]
  /\ swept' = {}
  /\ UNCHANGED <<mirror, newMatch, again, apart, cut>>

-----------------------------------------------------------------------------
(* The statements.                                                         *)

\* INSERT ... ON DUPLICATE KEY UPDATE.  A statement that fails, among them
\* every one under a cancelled context, is not repeated.
UpsertMatchResult(r) ==
  /\ newMatch[r] # NoMatch
  /\ newMatch' = [newMatch EXCEPT ![r] = NoMatch]
  /\ \/ matchRow' = [matchRow EXCEPT ![newMatch[r]] = result[newMatch[r]]]
        /\ UNCHANGED cut
     \/ cut' = cut \cup {newMatch[r]} /\ UNCHANGED matchRow
  /\ UNCHANGED <<vars, row, unsaved, again, swept, apart>>

UpsertMatchTicket(r) ==
  /\ newMatch[r] = NoMatch
  /\ \E c \in unsaved[r] :
       /\ unsaved' = [unsaved EXCEPT ![r] = @ \ {c}]
       /\ \/ /\ row' = [row EXCEPT ![c.ticket] =
                          [status |-> c.status, match |-> c.match]]
             /\ UNCHANGED apart
          \/ apart' = apart \cup {c.ticket} /\ UNCHANGED row
  /\ UNCHANGED <<vars, matchRow, newMatch, again, swept, cut>>

\* CreateTicket reads its ticket again and upserts what it is by now.
GetMatchTicket(r) ==
  /\ again[r] # NoTicket /\ Saved(r)
  /\ UNCHANGED vars
  /\ again' = [again EXCEPT ![r] = NoTicket]
  /\ IF status[again[r]] = "none"
       THEN UNCHANGED <<unsaved, apart>>
       ELSE Take(r, {CopyOf(again[r], status[again[r]], matchOf[again[r]])})
  /\ UNCHANGED <<mirror, newMatch, swept, cut>>

GetMatchTicketFails(r) ==
  /\ again[r] # NoTicket /\ Saved(r)
  /\ again' = [again EXCEPT ![r] = NoTicket]
  /\ UNCHANGED <<vars, mirror, unsaved, newMatch, swept, apart, cut>>

-----------------------------------------------------------------------------
\* The goroutines in S are gone, with the copies and the match they held and
\* the tickets they were creating.
Dropped(S) ==
  /\ unsaved' = [r \in Procs |-> IF r \in S THEN {} ELSE unsaved[r]]
  /\ newMatch' = [r \in Procs |-> IF r \in S THEN NoMatch ELSE newMatch[r]]
  /\ again' = [r \in Procs |-> IF r \in S THEN NoTicket ELSE again[r]]
  /\ swept' = {}
  /\ apart' = apart \cup TicketsOf(swept \cup UNION {unsaved[r] : r \in S})
                   \cup {own[r] : r \in {s \in S : pc[s] \in CreateSteps}}
  /\ cut' = cut \cup (({match[r] : r \in S} \cup {newMatch[r] : r \in S})
                        \ {NoMatch})
  /\ UNCHANGED mirror

ServerStops ==
  \/ Shutdown /\ (\A r \in Requests : Returned(r)) /\ Dropped({Worker})
  \/ Crash /\ Dropped(Procs)

Surroundings ==
  /\ \/ \E t \in Tickets : Deadline(t) \/ LapseTicket(t)
     \/ \E r \in Requests : Disconnect(r)
     \/ \E p \in Players : LapseLock(p)
     \/ \E m \in Matches : LapseResult(m)
  /\ UNCHANGED mirrorVars

RowsNext ==
  \/ \E r \in Requests :
       Arrives(r) \/ Created(r) \/ Cancelled(r)
         \/ GetMatchTicket(r) \/ GetMatchTicketFails(r)
  \/ \E r \in Procs :
       HotPath(r) \/ Completed(r) \/ NotCompleted(r) \/ GivenBack(r)
         \/ UpsertMatchResult(r) \/ UpsertMatchTicket(r)
  \/ SweepStarts \/ (\E t \in Tickets : TimedOut(t)) \/ SweepEnds
  \/ Surroundings
  \/ ServerStops

RowsSpec == RowsInit /\ [][RowsNext]_rowVars

-----------------------------------------------------------------------------
(* What a reader of the database may rely on.                              *)

\* A ticket has the row that says what has become of it, once nobody holds a
\* copy of it any more -- unless copies of it crossed on their way, or one was
\* lost, and no later upsert has put it right: the second upsert of
\* CreateTicket repairs whatever went wrong before it.
RowsFollowTickets ==
  \A t \in Tickets \ apart :
    status[t] # "none" /\ ~Creating(t) /\ t \notin TicketsOf(Held)
      => row[t].status = status[t]

\* A row that names a match is about one of its players, and the result has a
\* row with the same players, unless its own goroutine has still to write it,
\* failed to or was stopped before it could: another goroutine may have read
\* the matched ticket and be ahead.
MatchedRowsHaveResults ==
  \A t \in Tickets : LET m == row[t].match IN m # NoMatch =>
    /\ owner[t] \in result[m]
    /\ matchRow[m] = result[m] \/ m \in cut
         \/ \E r \in Procs : newMatch[r] = m

\* Room slots stay reserved only for a result, for a match in the making, or
\* for one whose release failed with its request or that a stop cut off.
RoomsAccountedFor ==
  \A m \in reserved :
    result[m] # {} \/ m \in cut \/ \E r \in Procs : match[r] = m
=============================================================================
