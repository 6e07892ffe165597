---------------------------- MODULE MatchTickets ----------------------------
(***************************************************************************)
(* The match-ticket lifecycle of CoreRank: the Redis keys that the         *)
(* PlayerRepository keeps for tickets, and the goroutines that read and    *)
(* write them -- one per HTTP or gRPC request, and the MatchWorker.        *)
(*                                                                         *)
(* Every Redis command (a Lua script and a MULTI/EXEC pipeline count as    *)
(* one) is one action, so whatever a goroutine has read may be stale when  *)
(* it writes.  Three kinds of data are abstracted:                         *)
(*   - scores: a search window may yield any two members of the pool, or   *)
(*     nothing (MatchWindow is about which scores a window reaches);       *)
(*   - clocks: "due" holds the tickets whose max_wait has elapsed;         *)
(*   - rooms: the allocator either reserves room for a match or fails      *)
(*     (RoomRegistry is about the servers behind it).                      *)
(* MySQL mirroring, metrics and the read-only replies are left out.        *)
(***************************************************************************)
EXTENDS Naturals, FiniteSets

CONSTANTS
  Players,      \* player ids
  Tickets,      \* ids that newID("ticket") may draw; bounds the tickets created
  Matches,      \* ids that newID("match") may draw; bounds the matches made
  Requests,     \* slots for concurrent requests, each a goroutine of its own
  Worker,       \* the MatchWorker goroutine
  NoPlayer, NoTicket, NoMatch,
  SweepLimit,   \* timeoutSweepLimit
  Buckets,      \* how many score buckets the worker scans in a tick
  MaxStops,     \* bound on the stops and restarts of the server
  Env           \* which of Hazards may happen

\* "longwait": a client asks for a max_wait of a day or more; nothing caps it.
Hazards ==
  {"cancel", "deadline", "disconnect", "lapse", "longwait", "shutdown", "crash"}

ASSUME IdAssumption ==
  /\ Worker \notin Requests
  /\ NoPlayer \notin Players
  /\ NoTicket \notin Tickets
  /\ NoMatch \notin Matches
ASSUME BoundAssumption ==
  SweepLimit \in Nat \ {0} /\ Buckets \in Nat \ {0} /\ MaxStops \in Nat
ASSUME EnvAssumption == Env \subseteq Hazards

VARIABLES
  owner,     \* match:ticket:{id} player_id; written once, with the id itself
  status,    \* match:ticket:{id} status, "none" when the hash does not exist
  matchOf,   \* match:ticket:{id} match_id
  volatile,  \* the ticket hashes on which EXPIRE was set
  key,       \* match:player_ticket:{player}, the lock against double queuing
  pool,      \* {match:ticket_pool}
  expiry,    \* {match:ticket_expiry}
  result,    \* player_ids written to match:result:{id}, {} before its EXEC
  dropped,   \* the results that Redis has dropped since, at the end of their TTL
  reserved,  \* the matches for which the allocator holds room slots
  pc, own, held, todo, look, found, match, \* what each goroutine is doing
  scan,      \* how many buckets the worker still has to scan in this tick
  batch,     \* the due tickets the worker still has to time out in this sweep
  due,       \* tickets whose expires_at has passed
  gone,      \* requests whose context is cancelled
  stops      \* how often the server was stopped and restarted

ticketVars == <<owner, status, matchOf, volatile>>
indexVars == <<key, pool, expiry>>
matchVars == <<result, dropped, reserved>>
envVars == <<due, gone, stops>>
localVars == <<own, held, todo, look, found, match, scan>>
vars == <<ticketVars, indexVars, matchVars, pc, localVars, batch, envVars>>

Procs == Requests \cup {Worker}

Statuses == {"none", "queued", "matched", "cancelled", "timeout"}
CreateSteps == {"hset", "expire", "pool", "expiry"}
MatchSteps == {"getkey", "getticket", "release"}
RequeueSteps == {"reqkey", "reqticket", "requeue"}
Steps == CreateSteps \cup MatchSteps \cup RequeueSteps
           \cup {"idle", "unpool", "pick", "alloc", "cancel", "sweep"}

TypeOK ==
  /\ owner \in [Tickets -> Players \cup {NoPlayer}]
  /\ status \in [Tickets -> Statuses]
  /\ matchOf \in [Tickets -> Matches \cup {NoMatch}]
  /\ volatile \subseteq Tickets
  /\ key \in [Players -> Tickets \cup {NoTicket}]
  /\ pool \subseteq Players
  /\ expiry \subseteq Tickets
  /\ result \in [Matches -> SUBSET Players]
  /\ dropped \subseteq Matches
  /\ reserved \subseteq Matches
  /\ pc \in [Procs -> Steps]
  /\ own \in [Procs -> Tickets \cup {NoTicket}]
  /\ held \in [Procs -> SUBSET Players]
  /\ todo \in [Procs -> SUBSET Players]
  /\ look \in [Procs -> Tickets \cup {NoTicket}]
  /\ found \in [Procs -> SUBSET Tickets]
  /\ match \in [Procs -> Matches \cup {NoMatch}]
  /\ scan \in 0 .. Buckets
  /\ batch \subseteq Tickets
  /\ due \subseteq Tickets
  /\ gone \subseteq Requests
  /\ stops \in 0 .. MaxStops

Init ==
  /\ owner = [t \in Tickets |-> NoPlayer]
  /\ status = [t \in Tickets |-> "none"]
  /\ matchOf = [t \in Tickets |-> NoMatch]
  /\ volatile = {}
  /\ key = [p \in Players |-> NoTicket]
  /\ pool = {}
  /\ expiry = {}
  /\ result = [m \in Matches |-> {}]
  /\ dropped = {}
  /\ reserved = {}
  /\ pc = [r \in Procs |-> "idle"]
  /\ own = [r \in Procs |-> NoTicket]
  /\ held = [r \in Procs |-> {}]
  /\ todo = [r \in Procs |-> {}]
  /\ look = [r \in Procs |-> NoTicket]
  /\ found = [r \in Procs |-> {}]
  /\ match = [r \in Procs |-> NoMatch]
  /\ scan = 0
  /\ batch = {}
  /\ due = {}
  /\ gone = {}
  /\ stops = 0

-----------------------------------------------------------------------------
(* Slips: definitions below with one plausible bug each.  The mutants put   *)
(* them in the place of the correct one to see that a property notices.     *)

SlipAnyFound(S) == S # {}             \* one ticket found is enough
SlipNoUnlock(S) == key                \* the lock is not deleted
SlipOwners(S) == S                    \* ticket ids for player ids
SlipSetWithoutNX(p) == p \in Players  \* an existing lock is overwritten
SlipKeepRoom(r) == reserved           \* the room of a failed match is kept
SlipNoTTL(p) == p \notin Players      \* the lock is set without a TTL

-----------------------------------------------------------------------------
(* Shared vocabulary.                                                      *)

\* Two distinct members: what len(tickets) >= 2 asks of the tickets found.
Enough(S) == \E a, b \in S : a # b

\* The lock of every player in S deleted, whichever ticket it names.
Unlock(S) == [p \in Players |-> IF p \in S THEN NoTicket ELSE key[p]]

Owners(S) == {owner[t] : t \in S}

\* SETNX on the player's lock succeeds.
NotLocked(p) == key[p] = NoTicket

\* An id that names nothing yet; newID draws 64 random bits.
FreshMatch(m) ==
  /\ result[m] = {} /\ m \notin reserved
  /\ \A s \in Procs : match[s] # m

\* ReleaseRoom runs under the request's context, so it may fail.
Released(r) == IF r \in gone THEN reserved ELSE reserved \ {match[r]}

Goto(r, step) == pc' = [pc EXCEPT ![r] = step]

\* The request returns; the worker goes on to its next bucket, if any.
Finish(r) ==
  /\ Goto(r, IF r = Worker /\ scan > 1 THEN "pick" ELSE "idle")
  /\ scan' = IF r = Worker /\ scan > 0 THEN scan - 1 ELSE scan
  /\ own' = [own EXCEPT ![r] = NoTicket]
  /\ held' = [held EXCEPT ![r] = {}]
  /\ todo' = [todo EXCEPT ![r] = {}]
  /\ look' = [look EXCEPT ![r] = NoTicket]
  /\ found' = [found EXCEPT ![r] = {}]
  /\ match' = [match EXCEPT ![r] = NoMatch]
  /\ gone' = gone \ {r}

\* Some request is still writing ticket t for the first time.
Creating(t) == \E r \in Requests : own[r] = t /\ pc[r] \in CreateSteps

-----------------------------------------------------------------------------
(* Slips in whole operations.                                              *)

\* The hash is written again after the player became visible in the pool.
SlipLateHash(r) ==
  /\ pc[r] = "expiry" /\ r \notin gone
  /\ expiry' = expiry \cup {own[r]}
  /\ status' = [status EXCEPT ![own[r]] = "queued"]
  /\ matchOf' = [matchOf EXCEPT ![own[r]] = NoMatch]
  /\ Goto(r, "pick")
  /\ UNCHANGED <<owner, volatile, key, pool, matchVars, localVars, batch,
                 envVars>>

\* The players found are not removed in the same script.
SlipPickWithoutRemove(r) ==
  /\ pc[r] = "pick" /\ r \notin gone
  /\ \E p, q \in pool : p # q /\ held' = [held EXCEPT ![r] = {p, q}]
  /\ Goto(r, "alloc")
  /\ UNCHANGED <<ticketVars, indexVars, matchVars, own, todo, look, found,
                 match, scan, batch, envVars>>

\* The players of a failed allocation are not put back.
SlipDropPicked(r) ==
  /\ pc[r] = "alloc"
  /\ Finish(r)
  /\ UNCHANGED <<ticketVars, indexVars, matchVars, batch, due, stops>>

\* Putting a player back queues his ticket again, whatever it has become.
SlipRequeueTicket(r) ==
  /\ pc[r] = "requeue" /\ r \notin gone
  /\ pool' = pool \cup {owner[look[r]]}
  /\ status' = [status EXCEPT ![look[r]] = "queued"]
  /\ Goto(r, "reqkey")
  /\ UNCHANGED <<owner, matchOf, volatile, key, expiry, matchVars, localVars,
                 batch, envVars>>

\* The result is left out of the EXEC that ends the tickets.
SlipNoResult(r) ==
  /\ pc[r] = "getkey" /\ todo[r] = {} /\ r \notin gone
  /\ Enough(found[r])
  /\ status' = [t \in Tickets |->
                  IF t \in found[r] THEN "matched" ELSE status[t]]
  /\ matchOf' = [t \in Tickets |->
                   IF t \in found[r] THEN match[r] ELSE matchOf[t]]
  /\ key' = Unlock(Owners(found[r]))
  /\ expiry' = expiry \ found[r]
  /\ Finish(r)
  /\ UNCHANGED <<owner, volatile, pool, matchVars, batch, due, stops>>

\* The EXEC ends one of the tickets found and leaves the other queued.
SlipHalfMatch(r) ==
  /\ pc[r] = "getkey" /\ todo[r] = {} /\ r \notin gone
  /\ Enough(found[r])
  /\ \E t \in found[r] :
       /\ status' = [status EXCEPT ![t] = "matched"]
       /\ matchOf' = [matchOf EXCEPT ![t] = match[r]]
  /\ key' = Unlock(Owners(found[r]))
  /\ expiry' = expiry \ found[r]
  /\ result' = [result EXCEPT ![match[r]] = Owners(found[r])]
  /\ Finish(r)
  /\ UNCHANGED <<owner, volatile, pool, dropped, reserved, batch, due, stops>>

\* The sweep takes the due tickets out of the index when it reads them.
SlipSweepPops ==
  /\ pc[Worker] = "idle"
  /\ batch' = expiry \cap due
  /\ expiry' = expiry \ due
  /\ Goto(Worker, "sweep")
  /\ UNCHANGED <<ticketVars, key, pool, matchVars, localVars, envVars>>

-----------------------------------------------------------------------------
(* MatchService.CreateTicket: PlayerRepository.CreateMatchTicket, then     *)
(* TryCompleteMatch.                                                       *)

\* SETNX on the player's lock; a player whose lock exists is turned away
\* with ErrPlayerAlreadyQueued and nothing changes.
CreateMatchTicket(r, p, t) ==
  /\ pc[r] = "idle"
  /\ owner[t] = NoPlayer
  /\ NotLocked(p)
  /\ key' = [key EXCEPT ![p] = t]
  /\ owner' = [owner EXCEPT ![t] = p]
  /\ own' = [own EXCEPT ![r] = t]
  /\ Goto(r, "hset")
  /\ UNCHANGED <<status, matchOf, volatile, pool, expiry, matchVars,
                 held, todo, look, found, match, scan, batch, envVars>>

WriteTicketHash(r) ==
  /\ pc[r] = "hset" /\ r \notin gone
  /\ status' = [status EXCEPT ![own[r]] = "queued"]
  /\ Goto(r, "expire")
  /\ UNCHANGED <<owner, matchOf, volatile, indexVars, matchVars, localVars,
                 batch, envVars>>

SetTicketTTL(r) ==
  /\ pc[r] = "expire" /\ r \notin gone
  /\ volatile' = volatile \cup {own[r]}
  /\ Goto(r, "pool")
  /\ UNCHANGED <<owner, status, matchOf, indexVars, matchVars, localVars,
                 batch, envVars>>

AddPlayerToPool(r) ==
  /\ pc[r] = "pool" /\ r \notin gone
  /\ pool' = pool \cup {owner[own[r]]}
  /\ Goto(r, "expiry")
  /\ UNCHANGED <<ticketVars, key, expiry, matchVars, localVars, batch,
                 envVars>>

IndexDeadline(r) ==
  /\ pc[r] = "expiry" /\ r \notin gone
  /\ expiry' = expiry \cup {own[r]}
  /\ Goto(r, "pick")
  /\ UNCHANGED <<ticketVars, key, pool, matchVars, localVars, batch, envVars>>

\* A command of CreateMatchTicket failed: the keys written so far are
\* deleted under context.Background(), the pool entry by a command of its
\* own, and the request returns the error.
RollbackCreate(r) ==
  /\ pc[r] \in CreateSteps /\ r \in gone
  /\ key' = Unlock({owner[own[r]]})
  /\ IF pc[r] = "hset"
       THEN UNCHANGED <<status, matchOf, volatile>>
       ELSE /\ status' = [status EXCEPT ![own[r]] = "none"]
            /\ matchOf' = [matchOf EXCEPT ![own[r]] = NoMatch]
            /\ volatile' = volatile \ {own[r]}
  /\ IF pc[r] = "expiry"
       THEN Goto(r, "unpool") /\ UNCHANGED <<localVars, gone>>
       ELSE Finish(r)
  /\ UNCHANGED <<owner, pool, expiry, matchVars, batch, due, stops>>

RollbackPool(r) ==
  /\ pc[r] = "unpool"
  /\ pool' = pool \ {owner[own[r]]}
  /\ Finish(r)
  /\ UNCHANGED <<ticketVars, key, expiry, matchVars, batch, due, stops>>

-----------------------------------------------------------------------------
(* TryCompleteMatch and the worker's matchInBucket: pick two players, have *)
(* a room allocated, turn their tickets into a match.                      *)

\* AtomicMatchScript: two members found and removed in one script.
SearchAndPickTicketPlayers(r) ==
  /\ pc[r] = "pick" /\ r \notin gone
  /\ \E p, q \in pool :
       /\ p # q
       /\ pool' = pool \ {p, q}
       /\ held' = [held EXCEPT ![r] = {p, q}]
  /\ Goto(r, "alloc")
  /\ UNCHANGED <<ticketVars, key, expiry, matchVars, own, todo, look, found,
                 match, scan, batch, envVars>>

\* The window held fewer than two players, or the search failed.
PickNobody(r) ==
  /\ pc[r] = "pick"
  /\ Finish(r)
  /\ UNCHANGED <<ticketVars, indexVars, matchVars, batch, due, stops>>

AllocateRoom(r, m) ==
  /\ pc[r] = "alloc" /\ r \notin gone
  /\ FreshMatch(m)
  /\ reserved' = reserved \cup {m}
  /\ match' = [match EXCEPT ![r] = m]
  /\ todo' = [todo EXCEPT ![r] = held[r]]
  /\ Goto(r, "getkey")
  /\ UNCHANGED <<ticketVars, indexVars, result, dropped, own, held, look, found,
                 scan, batch, envVars>>

\* ErrNoAvailableRoomServer, or a failed registry command.
AllocateRoomFails(r) ==
  /\ pc[r] = "alloc"
  /\ todo' = [todo EXCEPT ![r] = held[r]]
  /\ Goto(r, "reqkey")
  /\ UNCHANGED <<ticketVars, indexVars, matchVars, own, held, look, found,
                 match, scan, batch, envVars>>

\* GET on a player's lock, in CompleteMatch and in RequeueMatchTicketPlayers;
\* a player without a lock is skipped.
GetPlayerTicketID(r, p) ==
  /\ pc[r] \in {"getkey", "reqkey"} /\ r \notin gone
  /\ p \in todo[r]
  /\ todo' = [todo EXCEPT ![r] = @ \ {p}]
  /\ look' = [look EXCEPT ![r] = key[p]]
  /\ Goto(r, IF key[p] = NoTicket THEN pc[r]
             ELSE IF pc[r] = "getkey" THEN "getticket" ELSE "reqticket")
  /\ UNCHANGED <<ticketVars, indexVars, matchVars, own, held, found, match,
                 scan, batch, envVars>>

\* HGETALL in CompleteMatch: only a ticket read as queued is kept.
ReadTicketToMatch(r) ==
  /\ pc[r] = "getticket" /\ r \notin gone
  /\ found' = [found EXCEPT ![r] =
                 IF status[look[r]] = "queued" THEN @ \cup {look[r]} ELSE @]
  /\ look' = [look EXCEPT ![r] = NoTicket]
  /\ Goto(r, "getkey")
  /\ UNCHANGED <<ticketVars, indexVars, matchVars, own, held, todo, match,
                 scan, batch, envVars>>

\* The EXEC of CompleteMatch: it writes what was read as queued without
\* looking again, and leaves the pool alone.
CompleteMatch(r) ==
  /\ pc[r] = "getkey" /\ todo[r] = {} /\ r \notin gone
  /\ Enough(found[r])
  /\ status' = [t \in Tickets |->
                  IF t \in found[r] THEN "matched" ELSE status[t]]
  /\ matchOf' = [t \in Tickets |->
                   IF t \in found[r] THEN match[r] ELSE matchOf[t]]
  /\ key' = Unlock(Owners(found[r]))
  /\ expiry' = expiry \ found[r]
  /\ result' = [result EXCEPT ![match[r]] = Owners(found[r])]
  /\ Finish(r)
  /\ UNCHANGED <<owner, volatile, pool, dropped, reserved, batch, due, stops>>

\* Fewer than two tickets are still queued, or a command failed.
CompleteMatchFails(r) ==
  /\ \/ pc[r] = "getkey" /\ todo[r] = {} /\ ~Enough(found[r])
     \/ pc[r] \in {"getkey", "getticket"} /\ r \in gone
  /\ Goto(r, "release")
  /\ UNCHANGED <<ticketVars, indexVars, matchVars, localVars, batch, envVars>>

\* Whether the room could be released or not, the players are requeued.
ReleaseRoom(r) ==
  /\ pc[r] = "release"
  /\ reserved' = Released(r)
  /\ match' = [match EXCEPT ![r] = NoMatch]
  /\ found' = [found EXCEPT ![r] = {}]
  /\ look' = [look EXCEPT ![r] = NoTicket]
  /\ todo' = [todo EXCEPT ![r] = held[r]]
  /\ Goto(r, "reqkey")
  /\ UNCHANGED <<ticketVars, indexVars, result, dropped, own, held, scan, batch,
                 envVars>>

-----------------------------------------------------------------------------
(* RequeueMatchTicketPlayers: put back the players picked in vain.         *)

\* HGETALL: only a ticket that is still queued puts its player back.
ReadTicketToRequeue(r) ==
  /\ pc[r] = "reqticket" /\ r \notin gone
  /\ Goto(r, IF status[look[r]] = "queued" THEN "requeue" ELSE "reqkey")
  /\ UNCHANGED <<ticketVars, indexVars, matchVars, localVars, batch, envVars>>

RequeuePlayer(r) ==
  /\ pc[r] = "requeue" /\ r \notin gone
  /\ pool' = pool \cup {owner[look[r]]}
  /\ Goto(r, "reqkey")
  /\ UNCHANGED <<ticketVars, key, expiry, matchVars, localVars, batch,
                 envVars>>

\* All players handled, or a command failed and the rest are given up.
RequeueReturns(r) ==
  /\ \/ pc[r] = "reqkey" /\ todo[r] = {}
     \/ pc[r] \in RequeueSteps /\ r \in gone
  /\ Finish(r)
  /\ UNCHANGED <<ticketVars, indexVars, matchVars, batch, due, stops>>

-----------------------------------------------------------------------------
(* MatchService.CancelTicket.  The id is known to a client once the        *)
(* request that created the ticket has returned.                           *)

\* HGETALL and the test for "queued"; any other ticket is refused.
ReadTicketToCancel(r, t) ==
  /\ "cancel" \in Env
  /\ pc[r] = "idle"
  /\ status[t] = "queued"
  /\ \A s \in Requests : own[s] = t => pc[s] = "cancel"
  /\ own' = [own EXCEPT ![r] = t]
  /\ Goto(r, "cancel")
  /\ UNCHANGED <<ticketVars, indexVars, matchVars, held, todo, look, found,
                 match, scan, batch, envVars>>

\* The EXEC of CancelMatchTicket, again without a second look.
CancelMatchTicket(r) ==
  /\ pc[r] = "cancel" /\ r \notin gone
  /\ status' = [status EXCEPT ![own[r]] = "cancelled"]
  /\ key' = Unlock({owner[own[r]]})
  /\ pool' = pool \ {owner[own[r]]}
  /\ expiry' = expiry \ {own[r]}
  /\ Finish(r)
  /\ UNCHANGED <<owner, matchOf, volatile, matchVars, batch, due, stops>>

CancelFails(r) ==
  /\ pc[r] = "cancel" /\ r \in gone
  /\ Finish(r)
  /\ UNCHANGED <<ticketVars, indexVars, matchVars, batch, due, stops>>

-----------------------------------------------------------------------------
(* The MatchWorker's tick: sweep the due tickets, then scan the buckets.   *)

\* ZRANGEBYSCORE on the deadlines, at most SweepLimit of them.
TimeoutExpiredMatchTickets ==
  /\ pc[Worker] = "idle"
  /\ \E S \in SUBSET (expiry \cap due) :
       /\ Cardinality(S) <= SweepLimit
       /\ S = expiry \cap due \/ Cardinality(S) = SweepLimit
       /\ batch' = S
  /\ Goto(Worker, "sweep")
  /\ UNCHANGED <<ticketVars, indexVars, matchVars, localVars, envVars>>

\* TimeoutMatchTicketScript.  The HGETALL before it learns only who owns the
\* ticket, which never changes, so the two are one step.
TimeoutMatchTicket(t) ==
  /\ pc[Worker] = "sweep"
  /\ t \in batch
  /\ batch' = batch \ {t}
  /\ expiry' = expiry \ {t}
  /\ IF status[t] = "queued"
       THEN /\ status' = [status EXCEPT ![t] = "timeout"]
            /\ key' = Unlock({owner[t]})
            /\ pool' = pool \ {owner[t]}
       ELSE UNCHANGED <<status, key, pool>>
  /\ UNCHANGED <<owner, matchOf, volatile, matchVars, pc, localVars, envVars>>

ScanAllBuckets ==
  /\ pc[Worker] = "sweep" /\ batch = {}
  /\ Goto(Worker, "pick")
  /\ scan' = Buckets
  /\ UNCHANGED <<ticketVars, indexVars, matchVars, own, held, todo, look, found,
                 match, batch, envVars>>

-----------------------------------------------------------------------------
(* What happens to the program: time, clients, Redis TTLs, stops.          *)

Deadline(t) ==
  /\ "deadline" \in Env
  /\ owner[t] # NoPlayer /\ t \notin due
  /\ due' = due \cup {t}
  /\ UNCHANGED <<ticketVars, indexVars, matchVars, pc, localVars, batch, gone,
                 stops>>

\* The client of an active request goes away: net/http and gRPC cancel the
\* request's context, and go-redis refuses every later command under it.
Disconnect(r) ==
  /\ "disconnect" \in Env
  /\ pc[r] # "idle" /\ r \notin gone
  /\ gone' = gone \cup {r}
  /\ UNCHANGED <<ticketVars, indexVars, matchVars, pc, localVars, batch, due,
                 stops>>

\* At max_wait + 5 minutes after the ticket was created, Redis drops the lock
\* and the hash, each by its own TTL; no index is touched.
LapseLock(p) ==
  /\ "lapse" \in Env
  /\ key[p] \in due /\ ~Creating(key[p])
  /\ key' = [key EXCEPT ![p] = NoTicket]
  /\ UNCHANGED <<ticketVars, pool, expiry, matchVars, pc, localVars, batch,
                 envVars>>

LapseTicket(t) ==
  /\ "lapse" \in Env
  /\ t \in volatile \cap due /\ ~Creating(t)
  /\ status' = [status EXCEPT ![t] = "none"]
  /\ matchOf' = [matchOf EXCEPT ![t] = NoMatch]
  /\ volatile' = volatile \ {t}
  /\ UNCHANGED <<owner, indexVars, matchVars, pc, localVars, batch, envVars>>

\* A day after its EXEC Redis drops a result.  The hash of a ticket that names
\* it lives for max_wait + 5 minutes from its creation, which is over by then
\* unless the client asked for a longer wait, or for ever if it has no TTL.
LapseResult(m) ==
  /\ "lapse" \in Env
  /\ result[m] # {} /\ m \notin dropped
  /\ \A t \in Tickets : matchOf[t] = m =>
       ~Creating(t) /\ (t \in volatile => "longwait" \in Env)
  /\ dropped' = dropped \cup {m}
  /\ UNCHANGED <<ticketVars, indexVars, result, reserved, pc, localVars, batch,
                 envVars>>

\* The goroutines in S are gone and fresh ones stand in their place.
Restart(S) ==
  /\ stops < MaxStops
  /\ stops' = stops + 1
  /\ pc' = [r \in Procs |-> IF r \in S THEN "idle" ELSE pc[r]]
  /\ own' = [r \in Procs |-> IF r \in S THEN NoTicket ELSE own[r]]
  /\ held' = [r \in Procs |-> IF r \in S THEN {} ELSE held[r]]
  /\ todo' = [r \in Procs |-> IF r \in S THEN {} ELSE todo[r]]
  /\ look' = [r \in Procs |-> IF r \in S THEN NoTicket ELSE look[r]]
  /\ found' = [r \in Procs |-> IF r \in S THEN {} ELSE found[r]]
  /\ match' = [r \in Procs |-> IF r \in S THEN NoMatch ELSE match[r]]
  /\ scan' = 0
  /\ batch' = {}
  /\ gone' = gone \ S
  /\ UNCHANGED <<ticketVars, indexVars, matchVars, due>>

\* SIGTERM: the HTTP and gRPC servers drain their requests, then main
\* returns without waiting for the worker, and the server is started again.
Shutdown ==
  /\ "shutdown" \in Env
  /\ \A r \in Requests : pc[r] = "idle"
  /\ Restart({Worker})

Crash ==
  /\ "crash" \in Env
  /\ Restart(Procs)

-----------------------------------------------------------------------------
CreateStep(r) ==
  \/ WriteTicketHash(r) \/ SetTicketTTL(r)
  \/ AddPlayerToPool(r) \/ IndexDeadline(r)
  \/ RollbackCreate(r) \/ RollbackPool(r)

MatchStep(r) ==
  \/ SearchAndPickTicketPlayers(r) \/ PickNobody(r)
  \/ \E m \in Matches : AllocateRoom(r, m)
  \/ AllocateRoomFails(r)
  \/ \E p \in Players : GetPlayerTicketID(r, p)
  \/ ReadTicketToMatch(r) \/ CompleteMatch(r)
  \/ CompleteMatchFails(r) \/ ReleaseRoom(r)
  \/ ReadTicketToRequeue(r) \/ RequeuePlayer(r) \/ RequeueReturns(r)

CancelStep(r) == CancelMatchTicket(r) \/ CancelFails(r)

SweepStep ==
  \/ TimeoutExpiredMatchTickets
  \/ \E t \in Tickets : TimeoutMatchTicket(t)
  \/ ScanAllBuckets

RequestStep(r) == CreateStep(r) \/ MatchStep(r) \/ CancelStep(r)
WorkerStep == SweepStep \/ MatchStep(Worker)

Arrive(r) ==
  \/ \E p \in Players, t \in Tickets : CreateMatchTicket(r, p, t)
  \/ \E t \in Tickets : ReadTicketToCancel(r, t)

Environment ==
  \/ \E t \in Tickets : Deadline(t)
  \/ \E r \in Requests : Disconnect(r)
  \/ \E p \in Players : LapseLock(p)
  \/ \E t \in Tickets : LapseTicket(t)
  \/ \E m \in Matches : LapseResult(m)
  \/ Shutdown \/ Crash

Next ==
  \/ \E r \in Requests : Arrive(r) \/ RequestStep(r)
  \/ WorkerStep
  \/ Environment

Spec == Init /\ [][Next]_vars

\* A request that has begun and the worker keep running, time passes, and
\* Redis drops what has outlived its TTL.
Fairness ==
  /\ \A r \in Requests : WF_vars(RequestStep(r))
  /\ WF_vars(WorkerStep)
  /\ \A t \in Tickets : WF_vars(Deadline(t))
  /\ \A p \in Players : WF_vars(LapseLock(p))

FairSpec == Spec /\ Fairness

-----------------------------------------------------------------------------
(* What holds whatever the environment does.                               *)

Terminal == {"matched", "cancelled", "timeout"}

\* A lock names a ticket of its own player that is queued, or whose hash is
\* not there: no finished ticket keeps its player from queuing again, however
\* the cancellations, matches and timeouts of that ticket interleave.
LockOnlyForOpenTicket ==
  \A p \in Players : \A t \in Tickets :
    key[p] = t => owner[t] = p /\ status[t] \in {"none", "queued"}

\* Every queued ticket whose creation has ended is in the deadline index, so
\* the sweep will find it: what CreateMatchTicket's rollbacks and the ZREMs of
\* the three ways out of the queue must not break.  A crash in the middle of
\* a creation does break it.
QueuedIsIndexed ==
  "crash" \notin Env \/ stops = 0 =>
    \A t \in Tickets : status[t] = "queued" /\ ~Creating(t) => t \in expiry

\* The players of match m that Redis still knows.
Stored(m) == IF m \in dropped THEN {} ELSE result[m]

\* A ticket whose hash outlives the result it names: it has no TTL, because it
\* was written again after a rollback or its TTL had deleted it or because its
\* creation stopped before EXPIRE, or a TTL longer than the result's.
OutlivesResult(t) ==
  matchOf[t] \in dropped /\ (t \in volatile => "longwait" \in Env)

\* A client that polls a matched ticket finds the result it names, and its
\* own player in it -- also when tickets were cancelled, timed out or created
\* between the reads of CompleteMatch and its EXEC -- unless the ticket has
\* outlived the result.
MatchedHasResult ==
  \A t \in Tickets : status[t] = "matched" =>
    /\ matchOf[t] # NoMatch
    /\ owner[t] \in Stored(matchOf[t]) \/ OutlivesResult(t)

\* A result, once written, is about two different players, and the room slots
\* taken for it are still reserved: no result outlives its ReleaseRoom.
ResultIsAPairWithRoom ==
  \A m \in Matches : result[m] # {} =>
    /\ m \in reserved
    /\ \E p, q \in Players : p # q /\ result[m] = {p, q}

\* A ticket that was cancelled, matched, timed out or rolled back is never
\* queued again, by no requeue and no late step of its creation.
NoResurrection ==
  [][\A t \in Tickets :
       status[t] # "queued" /\ owner[t] # NoPlayer /\ ~Creating(t)
         => status'[t] # "queued"]_vars

\* Slots stay reserved only for a result or for a match in the making, as
\* long as ReleaseRoom is not cut short with its request or its server.
RoomsBalanced ==
  Env \cap {"disconnect", "shutdown", "crash"} = {} =>
    \A m \in reserved : result[m] # {} \/ \E r \in Procs : match[r] = m

\* How far a ticket has come: "new" until its hash is written for the first
\* time, "gone" when the hash is no longer there or never will be.
Stage(t) ==
  IF status[t] # "none" THEN status[t]
  ELSE IF owner[t] = NoPlayer \/ \E r \in Requests : own[r] = t /\ pc[r] = "hset"
    THEN "new" ELSE "gone"

Loose == INSTANCE LooseMatchmaking WITH
  playerOf <- owner, stage <- [t \in Tickets |-> Stage(t)],
  partOf <- matchOf, members <- result

\* Whatever cancellations, deadlines, disconnects, lapses and stops come between
\* the commands, tickets are queued once, and matches are made of two different
\* players' tickets in one step, under an id that no other match has had.
MatchesLikeLoose == Loose!Spec

\* The tickets of a match are of the players of its result, one of each: no
\* interleaving puts a third ticket into a match, or two of the same player.
PairedOnce ==
  \A t, u \in Tickets : matchOf[t] # NoMatch =>
    /\ owner[t] \in result[matchOf[t]]
    /\ matchOf[u] = matchOf[t] /\ owner[u] = owner[t] => u = t

-----------------------------------------------------------------------------
(* The inductive invariant behind the safety properties above: what the    *)
(* local state of a goroutine says about the shared state.                 *)

\* Whatever ticket is referred to has been created.
RefsCreated ==
  /\ \A t \in Tickets : owner[t] = NoPlayer => status[t] = "none"
  /\ \A r \in Procs :
       /\ own[r] # NoTicket => owner[own[r]] # NoPlayer
       /\ look[r] # NoTicket => owner[look[r]] # NoPlayer
       /\ \A t \in found[r] : owner[t] # NoPlayer

\* A matched ticket's player was written to the result of its match.
MatchedIsNamed ==
  \A t \in Tickets : status[t] = "matched" =>
    matchOf[t] # NoMatch /\ owner[t] \in result[matchOf[t]]

\* Only a result that was written is dropped, and no hash that lives shorter
\* than a result names one that was.
DroppedLate ==
  /\ \A m \in dropped : result[m] # {}
  /\ \A t \in Tickets :
       matchOf[t] \in dropped => ~Creating(t) /\ OutlivesResult(t)

\* Which local variables are in use at which step.
InUse(r) ==
  /\ pc[r] \in CreateSteps \cup {"unpool", "cancel"} => own[r] # NoTicket
  /\ pc[r] \in {"getticket", "reqticket", "requeue"} => look[r] # NoTicket
  /\ match[r] # NoMatch <=> pc[r] \in MatchSteps
  /\ pc[r] \notin MatchSteps => found[r] = {}
  /\ pc[r] \notin MatchSteps \cup RequeueSteps => todo[r] = {}

LocalsInUse == \A r \in Procs : InUse(r)

\* A match in the making has its room, no result yet, and one maker.
MatchesInMaking ==
  \A r \in Procs : match[r] # NoMatch =>
    /\ match[r] \in reserved /\ result[match[r]] = {}
    /\ \A s \in Procs : match[s] = match[r] => s = r

\* The tickets found so far are of different players among those picked, and
\* of none that is still to be looked up.
PickedBy(r) ==
  /\ held[r] = {} \/ \E p, q \in Players : p # q /\ held[r] = {p, q}
  /\ todo[r] \subseteq held[r]
  /\ Owners(found[r]) \subseteq held[r] \ todo[r]
  /\ pc[r] = "getticket" =>
       owner[look[r]] \in held[r] \ (todo[r] \cup Owners(found[r]))
  /\ \A t, u \in found[r] : owner[t] = owner[u] => t = u

FoundAmongPicked == \A r \in Procs : PickedBy(r)

\* A ticket whose hash is still to be written is known to its creator alone.
UnwrittenIsPrivate ==
  \A r \in Requests : pc[r] = "hset" =>
    /\ status[own[r]] = "none"
    /\ \A s \in Procs : own[r] \notin found[s] /\ (own[s] = own[r] => s = r)

IndInv ==
  /\ TypeOK /\ LockOnlyForOpenTicket /\ MatchedIsNamed
  /\ ResultIsAPairWithRoom
  /\ RefsCreated /\ LocalsInUse /\ MatchesInMaking /\ FoundAmongPicked
  /\ UnwrittenIsPrivate

-----------------------------------------------------------------------------
(* What holds as long as nothing ends a ticket but a match: the documents   *)
(* claim these of the system, and the races with cancellation, deadlines,   *)
(* disconnects and shutdown break them (see the README).                    *)

\* The players a goroutine has picked and not yet matched or put back.
InHands(r) ==
  IF pc[r] = "reqkey" THEN todo[r]
  ELSE IF pc[r] \in {"reqticket", "requeue"} THEN todo[r] \cup {owner[look[r]]}
  ELSE held[r]

\* The player of a queued ticket waits in the pool, or is in the hands of a
\* goroutine that will match it or put it back: no queued ticket is forgotten.
QueuedNotLost ==
  \A t \in Tickets : status[t] = "queued" =>
    \/ owner[t] \in pool
    \/ \E r \in Procs : owner[t] \in InHands(r)
    \/ \E r \in Requests : own[r] = t /\ pc[r] \in {"expire", "pool"}

\* Nobody is in the hands of two goroutines, or of one and in the pool.
ExclusivePick ==
  \A r \in Procs :
    /\ InHands(r) \cap pool = {}
    /\ \A s \in Procs \ {r} : InHands(r) \cap InHands(s) = {}

\* A player has at most one queued ticket.
OneQueuedTicketPerPlayer ==
  \A t, u \in Tickets :
    status[t] = "queued" /\ status[u] = "queued" /\ owner[t] = owner[u] => t = u

\* A ticket leaves the queue once, for one of the three final states.
TerminalIsFinal ==
  [][\A t \in Tickets : status[t] \in Terminal => status'[t] = status[t]]_vars

\* A ticket is put into one match only.
NoRematch ==
  [][\A t \in Tickets : matchOf[t] # NoMatch => matchOf'[t] = matchOf[t]]_vars

Ideal == INSTANCE Matchmaking WITH
  playerOf <- [t \in Tickets |-> IF status[t] = "none" THEN NoPlayer ELSE owner[t]],
  waiting <- {t \in Tickets : status[t] = "queued"},
  partOf <- matchOf

\* To its players, the goroutines' separate commands are a queue that takes one
\* ticket of each and a match of two of them in one step: CompleteMatch ends two
\* tickets that both still wait, with a match that no ticket is in, and a
\* player whom CreateMatchTicket lets in is not waiting.
MatchesLikeIdeal == Ideal!Spec

-----------------------------------------------------------------------------
(* Liveness, under FairSpec.                                               *)

\* A queued ticket whose creation got as far as its deadline is eventually
\* matched, cancelled or timed out, also when its player was dropped from the
\* pool by a disconnect or a crash: the sweep gets to it.
EveryTicketSettles ==
  \A t \in Tickets :
    status[t] = "queued" /\ t \in expiry ~> status[t] # "queued"

\* No lock keeps its player out for ever.
EveryLockReleased ==
  \A p \in Players : \A t \in Tickets : key[p] = t ~> key[p] # t

=============================================================================
