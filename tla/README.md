# CoreRank in TLA+

This directory is a verification project for CoreRank, the matchmaking and
leaderboard service under `src/`. Its modules are translated from the Go code
and the Redis scripts; TLC checks them on small instances and TLAPS proves the
safety properties that matter most for all instances.

## The system and its parts

CoreRank is one server process (`cmd/server`) that keeps all of its hot state in
Redis, optionally mirrors it to MySQL, and hands matched players over to room
servers (`cmd/roomserver`), each a process with its state in memory. Requests
arrive by HTTP (`internal/handler/http_handler.go`) and by gRPC
(`match_handler.go`, `rank_handler.go`); each is a goroutine. One more goroutine,
the match worker, ticks every 100 ms. Nothing in the process is shared between
these goroutines but Redis: there is no lock and no transaction spanning two
commands, and the only atomic units are a Redis command, a Lua script and a
MULTI/EXEC.

| part | state | operations | who uses it |
|---|---|---|---|
| match tickets (`match_repo.go`, `match_service.go`, `lua_scripts.go`) | ticket hashes, player locks, ticket pool, deadline index, results | create, cancel, complete a match, requeue, time out | requests, the worker |
| match worker windows (`matcher.go`, `player_repo.go`) | five score buckets with a window and a count of empty scans | scan a bucket, widen its window, reset it | the worker; requests search a window of their own |
| room registry (`room_server_repo.go`, `room_allocator.go`) | server hashes, list by heartbeat, load index | register, heartbeat, allocate, release, list | requests; every match |
| room server (`internal/roomserver`) | two maps under a mutex: rooms, player's room | join, ready, leave | TCP clients; its heartbeat goroutine |
| leaderboard and settlement (`rank_service.go`, `player_repo.go`, settle in `http_handler.go`) | one ZSet per board | set scores, top, rank, settle a match | requests |
| MySQL mirror (`mysql_repo.go`) | players, match_tickets, match_results, rank_snapshots | upserts after the Redis step | ticket and rank services |
| server process (`cmd/server/main.go`, `mysql_repo.go`) | clients of the stores, schema, two servers, two ports, the worker's context | start, serve, drain, exit | the operating system, signals |
| legacy pool (`/api/match/pool`) | one ZSet | add, remove | requests; nothing matches from it any more |
| surroundings | | metrics, agent endpoints, Redis client, robot, scripts, generated protobuf | |

What is hard in it, and what makes each part correct:

* **Tickets.** A cancellation, a match, a time-out and a creation of the same
  ticket are sequences of Redis commands that interleave freely, and each tests a
  status it read some commands ago. Requests are cut off when their client goes
  away, and all goroutines at a stop or crash; TTLs drop keys behind the code's
  back. Correct means: a ticket ends once, is in one match, is not forgotten while
  queued; a player has one queued ticket; locks and rooms are given back; results
  are complete.
* **Windows.** Correct means: a window always holds its bucket, grows evenly and
  only for want of players, and any two players whom a window can reach are
  matched in the end.
* **Registry.** Heartbeats are a read, a change and a write of a whole hash, while
  two scripts change the load in it. Correct means: no server takes more players
  than it has slots, nobody is refused although a server is free, a server that
  does not want matches gets none.
* **Room server.** Requests for a player come over any connection, in any order,
  more than once. Correct means: its maps agree, and a complete room is announced.
* **Leaderboard.** A score lives in Redis and in MySQL, written one after the
  other by goroutines without order; a settlement is one write per player, and
  any of them may fail. Correct means: the rows follow the board unless updates
  overlap or fail, what was answered with success is written, a snapshot is a
  ranking.
* **MySQL mirror of tickets.** Every step of a ticket upserts its row from its own
  goroutine. Correct means: the rows agree with Redis when nothing is on its way,
  unless upserts crossed or failed; a row that names a match has the match's row
  beside it.
* **Room server and registry together.** The number a heartbeat brings counts players
  who joined, the number it overwrites counts reserved slots, and requests of an
  earlier life of the process may still run. Correct means: who serves can be found,
  the two numbers meet again when players settle, an overfull server gets no match.
* **Server process.** Stores, schema, ports and goroutines are set up and taken down
  in an order in which every step may fail, while another process does the same.
  Correct means: nothing is served without its stores, an exit code says what was
  served, one worker is at work, every start and stop ends.

`PROJECT.json` lists every component, with its status, and every hazard at its line.

## The modules

| module | what it is |
|---|---|
| `MatchTickets`, `MCMatchTickets`, `MatchTickets_proofs` | the ticket lifecycle in Redis; implements `LooseMatchmaking`, and `Matchmaking` when only matches end tickets |
| `Matchmaking` | a queue in which two tickets are matched in one step |
| `LooseMatchmaking` | what is left of it when tickets are also cancelled, time out and expire, and requests and servers stop half-way |
| `TicketRows`, `MCTicketRows`, `TicketRows_proofs` | `MatchTickets` and the MySQL rows kept beside it |
| `MatchWindow`, `MCMatchWindow`, `MatchWindow_proofs` | which players a search reaches, and the worker's windows |
| `RoomRegistry`, `MCRoomRegistry`, `RoomRegistry_proofs` | the registry of room servers and the allocator; implements `RoomBooking` |
| `RoomBooking` | what a match relies on when it has a room allocated |
| `RoomServer`, `MCRoomServer`, `RoomServer_proofs` | the state of one room server; implements `Lobby` |
| `Lobby` | what a room server promises its players |
| `RoomHost`, `MCRoomHost`, `RoomHost_proofs` | a room server's process composed with the registry: `RoomRegistry` and `RoomServer` together |
| `ServerProcess`, `MCServerProcess`, `ServerProcess_proofs` | start, service and stop of server processes |
| `Leaderboard`, `MCLeaderboard`, `Leaderboard_proofs` | score updates, settlements and snapshots |

In all of them a Redis command, a Lua script, a MULTI/EXEC or a MySQL statement is
one action, a goroutine has a program counter `pc`, and what it has read is kept in
a variable of its own (`found`, `look`, `seen`, `job`, `top`, ...), so that it may be
stale when it is used. The `Slip...` definitions are copies of definitions with one
plausible bug; they are used only to see that each property can fail.

**MatchTickets.** `owner`, `status`, `matchOf` are fields of `match:ticket:{id}`,
`key` is `match:player_ticket:{player}`, `pool` and `expiry` are
`{match:ticket_pool}` and `{match:ticket_expiry}`, `result` is `match:result:{id}`.
A request runs through the steps of `CreateTicket` and `TryCompleteMatch`, or of
`CancelTicket`; the worker through a sweep and a scan of its buckets, each scan with
the steps of `TryCompleteMatch`. `Env` says which hazards a run allows: `cancel`,
`deadline` (a ticket's time is up), `disconnect` (a client goes away and its
request's context is cancelled, at any point), `lapse` (a TTL drops a key),
`longwait` (a client asks for a `max_wait_ms` of a day or more, which nothing caps),
`shutdown`, `crash`. A lock and a ticket's hash lapse `max_wait` and five minutes
after the ticket was created, a result a day after its EXEC; `result` is what was
written, `dropped` are the results that have lapsed since. Abstracted: scores (a
search may find any two members of the pool, or none), the clock, the servers behind
a room. A pick takes two players, the count that both callers ask for. Not modelled
here: Redis errors other than a cancelled context; a command that is in flight when
its context is cancelled; the order in which several players are looked up (any
order is allowed); read-only replies.

**TicketRows** extends `MatchTickets`: each action of it is conjoined with what the
goroutine copies for MySQL (`unsaved`, `newMatch`, `swept`, `again`), and a
goroutine that still has copies to upsert does not go on. `row` and `matchRow` are
the tables `match_tickets` and `match_results`. An upsert may fail, which is only
logged. The history variables `apart` and `cut` name the tickets whose upserts
crossed or failed and the matches whose upsert or release failed; only for these the
properties make an exception. A server without MySQL is one whose upserts all fail.
Left out: columns that no property tells apart, and upserts of several processes.

**MatchWindow.** A member of the pool has the composite score `mmr_score` plus a
fraction that grows with the time it was added; `score` and the order `earlier` stand for it.
`FirstTwo` is the pick of `AtomicMatchScript` in a window given by centre and
delta, both by integer division as in `SearchAndPickTicketPlayers`; `low`, `high`,
`empty` are a bucket's window and counter, `turn` the bucket scanned next. A picked
pair is completed or put back as it may be in `MatchTickets`.

**RoomRegistry.** `mode`, `capacity`, `load`, `status`, `fresh` are `server:info:{id}`,
`listed` is `server:heartbeat`, `index` and `score` are `server:load:{mode}`; a score
is the pair of the load and the capacity whose quotient it is. Each registration may
bring another mode and another capacity (one of `Capacities`); a heartbeat writes back
those it has read. A handler reads
the hash (heartbeats only), writes all of it, and then the two indexes; an
allocation lists the servers of a mode by load, and reads and reserves one after the
other. `unhealthy` servers behave as `draining` ones and stand with them.

**RoomServer.** `rooms` and `playerRooms` are the two maps. Every request runs under
the mutex and is one action; a request that is answered with an error changes
nothing.

**RoomHost** extends `RoomRegistry` and has an instance `Room` of `RoomServer`. `phase`
is how far `main` of `cmd/roomserver` is, `waiting` the registry's handler whose
answer it waits for. A request of the process is an action of the registry with the
process's own load (`Reported`) and status; it may be given up while its handler goes
on. `Stop` empties the rooms and tells the registry nothing. `Drain` is an operator's
heartbeat. Left out: TCP framing, requests that fail before they reach a handler
while the process serves.

**ServerProcess.** `stage` is where `main` is; `redis`, `mysql`, `http`, `grpc`,
`worker` are what it has started; `port` and `schema` are shared by the processes of
one machine. `InitSchema` looks a part up and adds it in two statements. The startup
context (`late`) and the shutdown context (`overdue`) expire at any time; a process
may be killed at any step. `Config` is what the two `CORERANK_MYSQL_...` variables
ask for. Left out: the metrics server, which is like the HTTP server and on which
nothing depends, the banner, tables that have not changed since their creation, what
the calls do. The HTTP server is launched before the gRPC port is bound: when that
fails, `main` exits with 1 although HTTP requests may have been served, and players
matched by them. `ExitCodeTells` therefore speaks of RPCs and of the worker, and
says that requests were taken only with all stores connected. `OneWorkerServes` is
about processes with the same `GRPC_ADDR`; with different ones nothing keeps two
workers apart. Serve may fail at once or after it has been up (`broken`).

**Leaderboard.** `board` is the ZSet of each type, `row` the column `rank_score` of
`players`, `snapshot` what the last insertion put into `rank_snapshots`, `mysql` whether
the server has connected MySQL, which is decided anew at each start. A write
request has a list of entries: one for `UpdateScore` and `POST /api/rank/score`, all
players for a settlement, which updates and then reads the rank of each in turn. A
label such as `GLOBAL` is normalised first. Each command may fail, and a failing
write may have been carried out. Scores count halves, so that the rounding of `row`
and the truncation of `snapshot` differ. Lists name different players. Rank and
score are read by one step, as both only go into the reply. Not modelled: a write
that Redis carries out after its failure was reported, retries inside the Redis
client, scores beyond int64, older snapshots.

## The runs

| run | module, bounds | what it shows |
|---|---|---|
| `core` | 3 players, 4 tickets, 2 matches, 2 requests and the worker; `Env = {}` | as long as matches alone end tickets, no queued ticket is forgotten, nobody is picked twice, a player has one queued ticket, a ticket ends once and is in one match, `Matchmaking` is implemented |
| `races` | 2 players, 2 tickets, 1 match, 2 requests and the worker, 1 stop; every hazard but `longwait` | queued tickets stay in the deadline index until a crash, no finished ticket holds the lock, a result is a pair and keeps its room, a matched ticket names a result with its player, or outlives it for want of a TTL, `LooseMatchmaking` is implemented: no ticket comes back, a match is made in one step, of two players, under an id of its own |
| `failures` | the same with 1 request, and the MySQL rows; every hazard, failing upserts | rows follow their tickets, a row with a match has the match's row beside it, reserved rooms are accounted for |
| `liveness` | 2 players, 2 tickets, 1 match, 1 request, 1 crash; deadlines, TTLs | every indexed ticket is settled, every lock is released |
| `stale_match` | 2 players, 4 tickets, 2 matches, 2 requests; cancellations | violation: a ticket is put into two matches |
| `lost_on_shutdown` | 2 players, 2 tickets, 1 match, 2 requests; 1 shutdown | violation: picked players are in no pool after a stop |
| `window` | 3 players with scores 4 or 9; buckets 0-4 and 5-8, threshold 2, step 5, maximum 10, delta 1 | windows grow evenly and are reset whole, equal scores are served in order, in the end nobody waits beside another |
| `registry` | a server registered with 1 slot or 2, one with 1 slot, 1 mode, 1 match, 1 handler; every hazard but `drain` | nobody is refused although a server was free all along, a match gets the least loaded of these; what can be allocated is listed |
| `room_host` | 1 server registered with 1 slot or 2, 2 players, 1 room, 1 match, 1 handler; every hazard | loads stay in 0..capacity, who serves can be found, loads converge to the players, an overfull server goes stale |
| `room_server` | 4 players, 3 rooms | the two maps agree, complete rooms are announced, `Lobby` is implemented |
| `leaderboard` | 2 players, 2 boards, 4 labels, 5 write requests, top 1 and 2, 2 requests at a time; a server with MySQL or without | rows follow the board, answered writes stick, snapshots are rankings |
| `process` | 2 processes, one of which requires MySQL, 1 call at a time of each server | calls find their stores, the schema is complete before use, exit codes say what was served, one worker serves, starts and stops end |

**Why these bounds.** Every race in this code is between two goroutines about one
player, ticket, server or score. `core` has two requests and the worker, a third
player for the competition about a partner, and a ticket more than players, so that
a player comes back after his first ticket ended. `races` has the same goroutines
and every hazard but `longwait`, on the two tickets that a match needs or that one
player has one after the other; its ids are used up by one match, which is why
`stale_match`, whose violation needs a second one, has more of them. `longwait` is
in `failures` only and in the proofs: in `races` the TTL of a hash is always over
before that of the result, which is the stronger setting for `MatchedHasResult`.
`failures` adds the rows: the upserts that cross are those of a request and of the
worker, and each hazard of `MatchTickets` happens beside them. `SweepLimit = 1`
makes the limited sweep happen with two due tickets, `Buckets = 1` keeps the number
of scans in a tick small: a scan keeps nothing for the next. In `window` two buckets
and two far scores are what widening needs: 9 is outside both base windows and is
reached by a window that has grown, 4 is the top of a bucket, which is outside its
own base window (see below); a third player makes the order of service matter. In
`registry` two servers of different capacity are what the order by load and the scan
need; the load of one of them may be between nothing and full, and its capacity may
change between the listing and the reservation. A server may become full or stale
during the scan; that it may also be set to `draining`, which the script refuses in
the same way, is left to the proofs and to `room_host`. In `room_host` two players
on a server of one slot make it overfull, and on one of two slots do not; a handler
of an earlier life of the process, which may bring another capacity, is the same one
handler, late; more handlers at once are covered by the proofs. One room is enough
there, as moves between rooms are in `room_server`. A room starts at two players;
four players and three rooms allow a departure from a complete room while others
change rooms. In `leaderboard` one list is long enough to stop in its middle, and
two requests write the same player's score on the global board, in both orders. In
`process` two processes compete for the ports and for the schema, with different
needs of MySQL. `CHECK_DEADLOCK FALSE` is set where the system may stop: the ids
that `newID` draws run out in the bounded `MatchTickets`, each match is allocated
once in `RoomRegistry`, and processes end in `ServerProcess`. `liveness`, `window`,
`room_host` and `process` use no symmetry.

**Fairness.** `MatchTickets!FairSpec`: a request that has begun goes on (the Go
scheduler and the Redis timeouts see to it), the worker's loop ticks for ever, a
ticket's deadline comes, and Redis drops a lock whose TTL is over. Nothing is
assumed of clients, disconnects, stops or the outcome of a search.
`MatchWindow!Fairness`: requests go on, a picked pair is completed or put back, and
the worker scans its buckets, with searches that do not fail for ever.
`OnlyOneLeftWaiting` assumes besides that tickets stop coming and that pairs are
not put back for ever: with ever new tickets near each other a far score may wait
until its deadline, because each match resets the window. `RoomHost!HostFairness`: the
ticker goes on, time passes, and each step of a handler that is possible again and
again is taken in the end, that is, requests are not cut off for ever (strong
fairness, because a cut or a stop can disable the step in between); nobody has to
join, leave, stop or start. `ServerProcess!FairSpec`: `main` goes on at each
stage, and the contexts it started expire; calls need not end, signals need not come.

## The proofs

All theorems hold for any values of the constants that satisfy the modules'
assumptions (`IdAssumption`, `BucketAssumption`, `SizeAssumption`, ...): the special
values are no ids, bounds are positive, base windows are ordered and below the
maximum, `Spelled` maps labels to boards, the players in a list are different. TLC
evaluates these assumptions in the runs.

* **MatchTickets.** `IndInv` strengthens the safety properties by what a goroutine's
  local state says about the keys: a ticket referred to exists (`RefsCreated`),
  which variables are in use at which step (`LocalsInUse`), a match in the making
  has its room, no result and one maker (`MatchesInMaking`), the tickets found are
  of different players among those picked (`FoundAmongPicked`), and a ticket whose
  hash is not written is known to its creator alone (`UnwrittenIsPrivate`). Without
  the last two, `CompleteMatch` could write a result of one player, or match a ticket
  that its creator then sets to queued. `NoResurrection`, `QueuedIsIndexed` and
  `RoomsBalanced` follow with one more invariant each. All hold with every hazard,
  the last two with the exceptions they name.
  `LooseMatchmakingImplemented` holds with every hazard, too. It rests on `HashesInv`
  (a hash that is not there names no match, what is due has been created) and `PairedOnce` (no third ticket joins
  a match, nor a second one of a player): the first HSET of a
  hash is `Queue`, the EXEC of `CompleteMatch` is `Pair` whatever its two tickets have
  become, a roll-back, a TTL or a request that stops before its HSET is `Drop`.
  `RequestsEnd` and `TicksEnd` give each request, and each tick of the worker, a number
  of commands that are still to come (`CommandsLeft`, `TickLeft`). A step of its own
  lowers it and a step of another goroutine does not raise it: a request returns after
  at most 19 commands, and tickets that come due during a tick do not prolong it.
  `TicksEnd` assumes that ids are finitely many, as those that exist at a time are.
  What holds only as long as matches alone end tickets (`QueuedNotLost`,
  `ExclusivePick`, `OneQueuedTicketPerPlayer`, `TerminalIsFinal`, `NoRematch`, all
  under `Env = {}`) rests on `CalmInv`: locks, places and tickets fit one to one. A
  queued ticket holds its player's lock; whoever is in the pool or in a goroutine's
  hands has a queued ticket, and no creation is still to put him there; what a
  goroutine has read about the players in its hands is still so.
  `MatchmakingImplemented` uses it, too: the HSET of a ticket's hash is `Queue`,
  because the lock says that no other ticket of the player waits; the EXEC of
  `CompleteMatch` is `Pair`, because what it has read as queued still is; all other
  commands are unseen. A late cancellation or a stop breaks this fit, as
  `stale_match` and `lost_on_shutdown` show.
* **TicketRows.** `MirrorIsPassive`: every step is a step of `MatchTickets` or a
  stutter, so the theorems above hold beside the mirror. `RowsFollowTickets`,
  `MatchedRowsHaveResults` and `RoomsAccountedFor` need what a goroutine holds at each
  step: copies are of tickets that were in that state, a ticket that moved on has a
  newer copy on its way or is in `apart`.
* **MatchWindow.** `Windows` adds to `GrowsEvenly` the ranges of windows and
  counters; growing evenly is inductive because cutting off at a bound and then
  widening is the same as widening more and then cutting off. `PlacesAgree` is
  inductive with the types and gives `SameScoreInOrder`: a pick takes a pair that
  nobody in its window is ahead of, and a window contains all players of a score or
  none. `OrderInv` (the pool is finite and its composite scores are ordered) gives
  `SearchesFindTwo`: a search comes back empty only from a window of at most one.
  With it a window that is widened to both bounds misses nobody
  (`FullWindowsMissNobody`), and `Widening`, the sum of what a window has grown and
  counted in steps, is a measure for `OnlyOneLeftWaiting`: a scan while two players wait takes
  two away or raises it, and only a match lowers it (`EveryScanGetsOn`). Both say so
  for an even maximum score, as 10000 is: centre and delta are rounded down, and a full
  window of odd width would lose its last score.
* **RoomRegistry.** `Sound` adds to the types which values a handler and an
  allocation hold, and gives `LoadWithinCapacity`. `WatchInv` (a server that was
  ready all along is still to be tried) gives `NoFalseRefusal`, and with `ScanInv` (the
  server about to be reserved comes first in what is left of the listing)
  `LeastLoadedIsChosen`. `AllocationsEnd`: for finitely many servers an allocation always
  finds a next one to try, as the order by load is total whatever the capacities, and
  it ends after at most two commands for each server. `ListedInv` (what
  an allocation or a handler refers to is registered and listed) gives
  `AllocatableIsListed`. `BookInv` (every booked slot is counted in the load, and a
  server being registered has none) gives the step of the refinement of
  `RoomBooking`, without heartbeats and repeated registrations: with them it is
  false (see below). This refinement is proved only.
* **RoomServer.** `TypeOK /\ MapsAgree` is inductive, and with it every step maps to
  a step of `Lobby` or stutters.
* **RoomHost.** `HostIsARegistryClient` and `HostIsARoomServer`: the composition
  implements both of its parts, so `LoadWithinCapacity` and `MapsAgree` hold in it.
  `PhaseInv` and `WaitsForItself` (after the answer to its registration the server is
  in the list and in an index, and a handler the process waits for works for it) give
  `ServesOnlyRegistered`, for any number of handlers that are late.
* **ServerProcess.** `ProcessInv` says for each stage of `main` what has been
  connected, launched and closed (`StageTells`), which parts of the schema have been
  seen (`SchemaTells`) and who holds the gRPC port (`PortHeld`). The four safety
  properties follow for any number of processes, calls and configurations.
* **Leaderboard.** `Sound`: the types, and that listings waiting to be saved are
  rankings. `Mirror`: a copy on its way holds the board's score, and is the only one,
  unless the history says otherwise; it gives `RowFollowsBoard`. `Lists`: what a
  request has behind it in its list, and every list that was answered, was written,
  and a score on a board is one that its writer's list gives that player; it gives
  `AnsweredWritesStick`. `ListingsAndRanksAgree`: a board has exactly one listing of
  each size, ties included, and a player's place in it is the rank that is read for
  him, so the set `Listings` from which a snapshot is taken is never empty.

The type invariants of `Leaderboard`, `RoomServer`, `RoomRegistry`, `ServerProcess` and
`TicketRows`, `PlacesAgree` of `MatchWindow`, and `NoResurrection`, `PairedOnce`,
`NoRematch` and `RoomsBalanced` of `MatchTickets` are theorems that no passing run
checks.

Only model-checked are the liveness properties (`EveryTicketSettles`,
`EveryLockReleased`, `OnlyOneLeftWaiting`, `LoadsConverge`, `OverfullGoesStale`,
`StartEnds`, `SignalEndsProcess`): the proof system has no rules for fairness and
ENABLED. What these rest on without fairness is proved where a measure shows it:
requests and ticks end (`RequestsEnd`, `TicksEnd`), scans get on
(`EveryScanGetsOn`), allocations end (`AllocationsEnd`), queued tickets are in the
index that the time-outs are found by (`QueuedTicketsIndexed`).

## Where the code and its documents disagree

Two disagreements are shown by runs, and are findings in `PROJECT.json`:

1. `stale_match`: `CompleteMatch` (`match_repo.go:152-169`) and `CancelMatchTicket`
   (`:104`) test a status that they read some commands before their EXEC. Two players are
   picked, and cancel their tickets before the goroutine that holds them reads those;
   they queue again and are picked by another goroutine. Both goroutines then read
   the new tickets as queued and run their EXECs, and each ticket is put into two
   matches (`docs/interview-notes.md:45` says the Lua script avoids repeated matches).
2. `lost_on_shutdown`: `main` (`main.go:312`) does not wait for the worker, whose
   picked players are lost from the pool, although `main.go:271` says it completes
   the matches under way. Such tickets end by their time-out.

More were seen while modelling, and have no run of their own:

* The same stale tests let a cancelled ticket become matched and a matched one
  cancelled, so a final state is not final (`TerminalIsFinal` is checked in `core`,
  without cancellations).
* A result is dropped a day after its EXEC (`match_repo.go:194`), but the hash of a
  ticket that names it may have no TTL: the EXEC, or a late cancellation, wrote it
  again after a rollback or its TTL had deleted it (`:169`), or its creation stopped
  before EXPIRE (`:68`). Such a ticket stays `matched` for ever and names a result
  that is gone; so does, for a while, one whose `max_wait_ms` is more than a day.
  `MatchedHasResult` says that there are no others.
* `CancelMatchTicket`, `CompleteMatch` and the time-out delete the player's lock whichever ticket it
  names (`match_repo.go:116`): the lock of a newer ticket can go, and a player can
  have two queued tickets (`architecture.md:184`).
* The requeue after a failed match runs under the request's context
  (`match_service.go:236`): if the client left, the players picked are not put back
  (`architecture.md:148`).
* A heartbeat writes back a load that does not count a reservation
  (`room_server_repo.go:133-138`), so more slots may be reserved than `capacity` allows
  (`docs/api.md:67`); the slots of a match are never given back when its game ends.
  `LoadsConverge` says that the next heartbeats put it right once players settle.
* HSET and ZADD of a heartbeat are apart, so the load index may keep an older load
  than the hash (`room_server_repo.go:147`, `architecture.md:187`).
* A heartbeat that read `active` undoes a `draining` set since (`:138`,
  `api.md:66`); a server that registers in another mode between the allocator's read
  and its script gets a match of the old mode (`:222`).
* A stopped room server tells the registry nothing: matches are sent to it until its
  last heartbeat is too old. A late registration of an earlier life of it, with
  another `MATCH_MODE` or capacity, may overwrite those of the present one: with a
  smaller capacity than the server has players its heartbeats are refused until
  somebody leaves, which `LoadsConverge` leaves out and `OverfullGoesStale` covers.
* A process that is started beside a running one, and gets the HTTP port but not the
  gRPC port, serves requests and matches players until it exits with 1
  (`main.go:192-214`). One that comes up without MySQL writes scores that the rows
  never get (`rank_service.go:56`).
* `CORERANK_MYSQL_REQUIRED` without a DSN has no effect. Of two processes that bring
  the schema up to date at the same time, the second fails at its ALTER
  (`mysql_repo.go:136`), and goes on without MySQL or exits.
* `GracefulStop` has no timeout and a second SIGTERM is not read (`main.go:308`): an RPC
  that stays open keeps the process. After the 5 seconds that `main.go:294` grants the
  HTTP server its requests are cut off by the exit.
* Only a ready starts a room: when the last player who is not ready leaves, the rest
  are all ready and nothing starts (`roomserver/server.go:239`, `api.md:544`).
  `StartMissedOnlyByDeparture` says that this is the only way.
* Windows are half open: a bucket's top score (and, for an odd sum of its bounds,
  the one below) is outside its base window and waits for widening; scores below 0 or
  from 10000 on are in no window (`matcher.go:371`, `player_repo.go:64`).
* `players` rounds a score and `rank_snapshots` truncates it (`mysql_repo.go:162`,
  `rank_service.go:98`); a settlement that is sent again overwrites later scores.

## Order of the work

The modules were written in the order tickets, room server, registry, windows,
leaderboard, process, ticket rows, room host; each was checked before it was proved
about. What could follow:

1. An instance of `RoomRegistry` in the place of the abstract rooms of `MatchTickets`;
   modes of tickets and rooms (the pool mixes modes).
2. That `TicketRows` loses no row for good once upserts stop failing, and the
   measures of `RoomHost` behind `LoadsConverge`.

## Not modelled

Metrics, the Redis client's pool options, configuration, generated protobuf code, the
robot, demonstration scripts and deployment files keep no state that a decision of
the system depends on, or are clients of it. The agent endpoints describe the
service. The legacy pool is one ZSet with an atomic add and an atomic remove, which
nothing matches from. Handlers decode a request, call one operation and encode its
reply; what they add to the behaviour, concurrency and contexts that end, is in the
models of the operations. TCP framing of the room server, Redis errors other than a
cancelled context (in `MatchTickets`), and the metrics server are left out. Shutdown
in `MatchTickets` lets HTTP requests end, as `main` does unless its timeout gives them
up, which `ServerProcess` models.
