----------------------------- MODULE Leaderboard -----------------------------
(***************************************************************************)
(* The leaderboards: requests that write players' scores (gRPC             *)
(* UpdateScore, POST /api/rank/score and the settlement of a match, which  *)
(* writes a list of scores), requests that read the top of a board, the    *)
(* Redis ZSets, and the copies in MySQL -- the players table, and the rank *)
(* snapshots that reading the global board leaves behind.                  *)
(*                                                                         *)
(* Every Redis command and every MySQL statement or transaction is one     *)
(* action of the request's goroutine.  Any of them may fail, and a write   *)
(* that fails may have been carried out all the same (the connection broke *)
(* after it was sent).  A failed Redis command ends the request with an    *)
(* error, in the middle of its list if need be; a failed MySQL statement   *)
(* is logged and the request goes on.  A server that could not connect     *)
(* MySQL when it was started, and need not have it, copies nothing.        *)
(*                                                                         *)
(* Scores are floats in Redis and integers in MySQL; here they are         *)
(* integers that count halves, so that rounding means something.  A        *)
(* player's number is the place of his id in the lexicographic order that  *)
(* Redis breaks ties by.  Whether the match of a settlement exists is      *)
(* asked once, before the list, and is left out, as are the replies.       *)
(***************************************************************************)
EXTENDS Integers, Sequences, FiniteSets

CONSTANTS
  Players,    \* the players' ids
  NoPlayer,   \* player_id is missing in the request
  Labels,     \* what a request may give for leaderboard_type
  Boards,     \* the leaderboard types after normalisation
  Global,     \* GlobalLeaderboardType
  Invalid,    \* ErrInvalidLeaderboardType
  Spelled,    \* which board a label means, as a function
  Writes,     \* the write requests that clients send, and send again
  Sizes,      \* topN of the read requests
  Requests,   \* slots for concurrent requests, each a goroutine of its own
  NoWrite, NoScore

Entry == [player : Players \cup {NoPlayer}, score : Int]

\* entries: what is written, in that order (one entry but for settlements).
\* ranked: each entry is followed by a read of the player's rank (REST only).
WriteRequest == [label : Labels, entries : Seq(Entry), ranked : BOOLEAN]

ASSUME PlayerAssumption ==
  Players \subseteq Nat /\ IsFiniteSet(Players) /\ NoPlayer \notin Players
ASSUME BoardAssumption ==
  Global \in Boards /\ Invalid \notin Boards /\ Spelled \in [Labels -> Boards \cup {Invalid}]
ASSUME WriteAssumption ==
  /\ Writes \subseteq WriteRequest
  /\ \A w \in Writes :
       /\ w.entries # <<>>
       /\ \A i, j \in DOMAIN w.entries :
            w.entries[i].player = w.entries[j].player => i = j
  /\ NoWrite \notin Writes /\ NoScore \notin Int
ASSUME SizeAssumption == Sizes \subseteq Nat \ {0}

VARIABLES
  board,     \* {rank:<type>}: the score of each player in each ZSet
  row,       \* players.rank_score
  snapshot,  \* the rows that the last insertion into rank_snapshots made
  mysql,     \* whether the server has a mysqlRepo
  pc, work, at, top,  \* a request: its step, its write and how far it is in
                      \* the list, the listing it read
  apart,     \* history: the players whose two scores may differ for good
  writer,    \* history: the write request whose ZADD came last
  answered   \* history: the write requests that were answered with success

storeVars == <<board, row, snapshot>>
localVars == <<pc, work, at, top>>
historyVars == <<apart, writer, answered>>
vars == <<storeVars, mysql, localVars, historyVars>>

Ranking == [player : Players, score : Int]

TypeOK ==
  /\ board \in [Boards -> [Players -> Int \cup {NoScore}]]
  /\ row \in [Players -> Int \cup {NoScore}]
  /\ snapshot \in Seq(Ranking)
  /\ mysql \in BOOLEAN
  /\ pc \in [Requests -> {"idle", "zadd", "upsert", "rank", "save"}]
  /\ work \in [Requests -> Writes \cup {NoWrite}]
  /\ at \in [Requests -> Nat]
  /\ \A r \in Requests : pc[r] \in {"zadd", "upsert", "rank"} =>
       work[r] # NoWrite /\ at[r] \in DOMAIN work[r].entries
  /\ top \in [Requests -> Seq(Ranking)]
  /\ apart \subseteq Players
  /\ writer \in [Boards -> [Players -> Writes \cup {NoWrite}]]
  /\ answered \subseteq Writes

Init ==
  /\ board = [b \in Boards |-> [p \in Players |-> NoScore]]
  /\ row = [p \in Players |-> NoScore]
  /\ snapshot = <<>>
  /\ mysql \in BOOLEAN
  /\ pc = [r \in Requests |-> "idle"]
  /\ work = [r \in Requests |-> NoWrite]
  /\ at = [r \in Requests |-> 0]
  /\ top = [r \in Requests |-> <<>>]
  /\ apart = {}
  /\ writer = [b \in Boards |-> [p \in Players |-> NoWrite]]
  /\ answered = {}

-----------------------------------------------------------------------------
(* Slips: definitions below with one plausible bug each, for the mutants.  *)

\* The label is compared with "global" before it is normalised.
SlipRawLabel(l) == mysql /\ l = Global

\* The score is added to the player's (ZINCRBY).
SlipIncrement(b, p, s) == IF board[b][p] = NoScore THEN s ELSE board[b][p] + s

\* The scores of a snapshot are read again when it is saved.
SlipReadAgain(list) ==
  [i \in DOMAIN list |->
     [player |-> list[i].player, score |-> board[Global][list[i].player]]]

-----------------------------------------------------------------------------
NormalizeLeaderboardType(l) == Spelled[l]

\* The updates that are copied to the players table, and the listings that
\* are saved as snapshots: those of the global board, if there is MySQL.
Mirrored(l) == mysql /\ NormalizeLeaderboardType(l) = Global

\* math.Round, half away from zero, and the conversion int64(score).
Round(s) == IF s >= 0 THEN (s + 1) \div 2 ELSE -((1 - s) \div 2)
Truncate(s) == IF s >= 0 THEN s \div 2 ELSE -((-s) \div 2)

\* What ZADD leaves as the player's score.
Scored(b, p, s) == s

\* The players of a ZSet that ZREVRANGE lists before p.
Ranked(b) == {p \in Players : board[b][p] # NoScore}
Above(b, p) ==
  {q \in Ranked(b) : \/ board[b][q] > board[b][p]
                     \/ board[b][q] = board[b][p] /\ q > p}

\* ZREVRANGE 0 n-1: the first players in that order, nobody left out.
Smaller(m, n) == IF m < n THEN m ELSE n
Listings(b, n) ==
  {list \in [1 .. Smaller(n, Cardinality(Ranked(b))) -> Ranked(b)] :
     /\ \A i, j \in DOMAIN list : i < j => list[i] \in Above(b, list[j])
     /\ \A j \in DOMAIN list : \A q \in Above(b, list[j]) :
          \E i \in DOMAIN list : list[i] = q}

WithScores(b, list) ==
  [i \in DOMAIN list |-> [player |-> list[i], score |-> board[b][list[i]]]]

\* The entry that request r is at.
Label(r) == work[r].label
Player(r) == work[r].entries[at[r]].player
Score(r) == work[r].entries[at[r]].score

\* Request r has written p's score to the global board, and not yet its copy.
Copying(r, p) == pc[r] = "upsert" /\ Player(r) = p

-----------------------------------------------------------------------------
(* Requests that write scores.                                             *)

Goto(r, step) == pc' = [pc EXCEPT ![r] = step]

Return(r) ==
  /\ Goto(r, "idle")
  /\ work' = [work EXCEPT ![r] = NoWrite]
  /\ at' = [at EXCEPT ![r] = 0]
  /\ top' = [top EXCEPT ![r] = <<>>]

\* The body was decoded; the label and the players are looked at later.
Begin(r, w) ==
  /\ pc[r] = "idle"
  /\ Goto(r, "zadd")
  /\ work' = [work EXCEPT ![r] = w]
  /\ at' = [at EXCEPT ![r] = 1]
  /\ UNCHANGED <<storeVars, top, historyVars>>

\* A missing player id, or an invalid leaderboard type: the request is
\* answered with an error.  What it wrote for earlier entries stays.
Refuse(r) ==
  /\ pc[r] = "zadd"
  /\ Player(r) = NoPlayer \/ NormalizeLeaderboardType(Label(r)) = Invalid
  /\ Return(r)
  /\ UNCHANGED <<storeVars, historyVars>>

\* Is there another entry in the list?
More(r) == at[r] < Len(work[r].entries)

\* The loop goes on to the next entry, or the request is answered.
Advance(r) ==
  IF More(r)
    THEN /\ Goto(r, "zadd")
         /\ at' = [at EXCEPT ![r] = @ + 1]
         /\ UNCHANGED <<work, top, answered>>
    ELSE /\ Return(r)
         /\ answered' = answered \cup {work[r]}

\* After the update of an entry: its rank is read, if the request does so.
AfterUpdate(r) ==
  IF work[r].ranked
    THEN Goto(r, "rank") /\ UNCHANGED <<work, at, top, answered>>
    ELSE Advance(r)

\* The ZADD of request r's entry.
Put(r) ==
  LET b == NormalizeLeaderboardType(Label(r))
      p == Player(r)
  IN /\ board' = [board EXCEPT ![b][p] = Scored(b, p, Score(r))]
     /\ writer' = [writer EXCEPT ![b][p] = work[r]]

CanPut(r) ==
  /\ pc[r] = "zadd" /\ Player(r) # NoPlayer
  /\ NormalizeLeaderboardType(Label(r)) # Invalid

\* The history forgets that a player's scores may differ when this one will
\* be copied and no other copy of his score is on its way.
UpdatePlayerScore(r) ==
  /\ CanPut(r)
  /\ Put(r)
  /\ apart' = IF NormalizeLeaderboardType(Label(r)) # Global THEN apart
              ELSE IF ~mysql \/ \E s \in Requests \ {r} : Copying(s, Player(r))
                THEN apart \cup {Player(r)} ELSE apart \ {Player(r)}
  /\ IF Mirrored(Label(r))
       THEN Goto(r, "upsert") /\ UNCHANGED <<work, at, top, answered>>
       ELSE AfterUpdate(r)
  /\ UNCHANGED <<row, snapshot>>

\* The ZADD failed, carried out or not, and so does the request.
UpdateFails(r) ==
  /\ CanPut(r)
  /\ \/ UNCHANGED <<board, writer, apart>>
     \/ /\ Put(r)
        /\ apart' = IF NormalizeLeaderboardType(Label(r)) # Global THEN apart
                    ELSE apart \cup {Player(r)}
  /\ Return(r)
  /\ UNCHANGED <<row, snapshot, answered>>

UpsertPlayerScore(r) ==
  /\ pc[r] = "upsert"
  /\ row' = [row EXCEPT ![Player(r)] = Round(Score(r))]
  /\ AfterUpdate(r)
  /\ UNCHANGED <<board, snapshot, apart, writer>>

\* The statement failed, carried out or not; the failure is only logged.
UpsertFails(r) ==
  /\ pc[r] = "upsert"
  /\ \/ UNCHANGED row
     \/ row' = [row EXCEPT ![Player(r)] = Round(Score(r))]
  /\ apart' = apart \cup {Player(r)}
  /\ AfterUpdate(r)
  /\ UNCHANGED <<board, snapshot, writer>>

\* ZREVRANK and ZSCORE; what they return goes into the reply only.
GetPlayerRank(r) ==
  /\ pc[r] = "rank"
  /\ Advance(r)
  /\ UNCHANGED <<storeVars, apart, writer>>

\* One of them failed; the rest of the list is not written.
GetPlayerRankFails(r) ==
  /\ pc[r] = "rank"
  /\ Return(r)
  /\ UNCHANGED <<storeVars, historyVars>>

-----------------------------------------------------------------------------
(* Requests that list the top of the global board.  Listings of the other  *)
(* boards, and listings of nobody, change nothing.                         *)

GetTopPlayers(r, l, n) ==
  /\ pc[r] = "idle" /\ Mirrored(l) /\ Ranked(Global) # {}
  /\ \E list \in Listings(Global, n) :
       top' = [top EXCEPT ![r] = WithScores(Global, list)]
  /\ Goto(r, "save")
  /\ UNCHANGED <<storeVars, work, at, historyVars>>

\* The rows made of a listing.
SnapshotRows(list) ==
  [i \in DOMAIN list |->
     [player |-> list[i].player, score |-> Truncate(list[i].score)]]

\* One transaction.
SaveRankSnapshot(r) ==
  /\ pc[r] = "save"
  /\ snapshot' = SnapshotRows(top[r])
  /\ Return(r)
  /\ UNCHANGED <<board, row, historyVars>>

\* The transaction was rolled back; the failure is only logged.
SaveFails(r) ==
  /\ pc[r] = "save"
  /\ Return(r)
  /\ UNCHANGED <<storeVars, historyVars>>

-----------------------------------------------------------------------------
\* The server process ends and is started again, with MySQL or without.
Crash ==
  /\ mysql' \in BOOLEAN
  /\ apart' = apart \cup {p \in Players : \E r \in Requests : Copying(r, p)}
  /\ pc' = [r \in Requests |-> "idle"]
  /\ work' = [r \in Requests |-> NoWrite]
  /\ at' = [r \in Requests |-> 0]
  /\ top' = [r \in Requests |-> <<>>]
  /\ UNCHANGED <<storeVars, writer, answered>>

Update(r) ==
  \/ UpdatePlayerScore(r) \/ UpdateFails(r)
  \/ UpsertPlayerScore(r) \/ UpsertFails(r)
  \/ GetPlayerRank(r) \/ GetPlayerRankFails(r)
  \/ Refuse(r)

Step(r) ==
  /\ \/ \E w \in Writes : Begin(r, w)
     \/ Update(r)
     \/ \E l \in Labels, n \in Sizes : GetTopPlayers(r, l, n)
     \/ SaveRankSnapshot(r) \/ SaveFails(r)
  /\ UNCHANGED mysql

Next == (\E r \in Requests : Step(r)) \/ Crash

Spec == Init /\ [][Next]_vars

-----------------------------------------------------------------------------
\* MySQL never knows a player that the global board does not, and its score of
\* a player is the rounded one of the board -- while no copy is on its way, and
\* unless the last update of the player overlapped the copying of another one,
\* failed, was cut off, or came to a server without MySQL.  The next undisturbed
\* update that is copied mends the row again.
RowFollowsBoard ==
  \A p \in Players :
    /\ board[Global][p] = NoScore => row[p] = NoScore
    /\ p \notin apart /\ board[Global][p] # NoScore
         /\ (\A r \in Requests : ~Copying(r, p))
       => row[p] = Round(board[Global][p])

\* A write request answered with success has every one of its scores on the
\* board, until another request writes that player's: neither its own failed
\* or repeated attempts, before or after, nor writes to other boards disturb it.
AnsweredWritesStick ==
  \A w \in answered : \A i \in DOMAIN w.entries :
    LET b == NormalizeLeaderboardType(w.label)
        e == w.entries[i]
    IN /\ b # Invalid /\ e.player # NoPlayer
       /\ writer[b][e.player] # NoWrite
       /\ writer[b][e.player] = w => board[b][e.player] = e.score

\* A snapshot is a ranking: no player twice, and nobody before a player of a
\* higher score, although scores change between its listing and its insertion.
SnapshotIsARanking ==
  \A i, j \in DOMAIN snapshot : i < j =>
    /\ snapshot[i].player # snapshot[j].player
    /\ snapshot[i].score >= snapshot[j].score
=============================================================================
