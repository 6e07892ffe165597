------------------------- MODULE Leaderboard_proofs -------------------------
(* Proofs about Leaderboard, for any players, boards, lists of scores and  *)
(* requests.                                                               *)
EXTENDS Leaderboard, FiniteSetTheorems, TLAPS

-----------------------------------------------------------------------------
(* Facts about the data.                                                   *)

\* A write request that a client may send.
LEMMA WriteType ==
  ASSUME NEW w \in Writes
  PROVE  /\ w # NoWrite
         /\ w.label \in Labels
         /\ w.ranked \in BOOLEAN
         /\ Len(w.entries) \in Nat \ {0}
         /\ DOMAIN w.entries = 1 .. Len(w.entries)
         /\ \A i \in DOMAIN w.entries :
              /\ w.entries[i].player \in Players \cup {NoPlayer}
              /\ w.entries[i].score \in Int
         /\ \A i, j \in DOMAIN w.entries :
              w.entries[i].player = w.entries[j].player => i = j
  <1>1. w \in WriteRequest /\ w.entries # <<>> /\ w # NoWrite
    BY WriteAssumption
  <1>2. w.label \in Labels /\ w.ranked \in BOOLEAN /\ w.entries \in Seq(Entry)
    BY <1>1 DEF WriteRequest
  <1>3. Len(w.entries) \in Nat \ {0} /\ DOMAIN w.entries = 1 .. Len(w.entries)
    BY <1>1, <1>2
  <1>4. \A i \in DOMAIN w.entries : w.entries[i] \in Entry
    BY <1>2, <1>3
  <1>5. QED BY <1>1, <1>2, <1>3, <1>4, WriteAssumption DEF Entry

LEMMA NormalizeType ==
  ASSUME NEW l \in Labels
  PROVE  NormalizeLeaderboardType(l) \in Boards \cup {Invalid}
  BY BoardAssumption DEF NormalizeLeaderboardType

\* Both conversions give integers; truncation keeps the order.
LEMMA Conversions ==
  ASSUME NEW s \in Int, NEW t \in Int, s >= t
  PROVE  /\ Round(s) \in Int /\ Truncate(s) \in Int
         /\ Truncate(s) >= Truncate(t)
  BY DEF Round, Truncate

\* A ranking: no player twice, nobody before a player of a higher score.
IsRanking(list) ==
  \A i, j \in DOMAIN list : i < j =>
    /\ list[i].player # list[j].player
    /\ list[i].score >= list[j].score

-----------------------------------------------------------------------------
(* The local state of the requests.                                        *)

Writing == {"zadd", "upsert", "rank"}

\* The part of TypeOK about the requests, and: an entry whose score was
\* written has a player and a board, and is copied on the global board only;
\* a listing that will be saved is a ranking.
LocalOK ==
  /\ pc \in [Requests -> {"idle", "zadd", "upsert", "rank", "save"}]
  /\ work \in [Requests -> Writes \cup {NoWrite}]
  /\ at \in [Requests -> Nat]
  /\ top \in [Requests -> Seq(Ranking)]
  /\ \A r \in Requests :
       /\ pc[r] \in Writing => work[r] \in Writes /\ at[r] \in DOMAIN work[r].entries
       /\ pc[r] \in {"upsert", "rank"} =>
            Player(r) \in Players /\ NormalizeLeaderboardType(Label(r)) \in Boards
       /\ pc[r] = "upsert" => NormalizeLeaderboardType(Label(r)) = Global
       /\ pc[r] = "save" => IsRanking(top[r])

\* The part of TypeOK about the stores and the history.
StoreOK ==
  /\ board \in [Boards -> [Players -> Int \cup {NoScore}]]
  /\ row \in [Players -> Int \cup {NoScore}]
  /\ snapshot \in Seq(Ranking) /\ IsRanking(snapshot)
  /\ apart \subseteq Players
  /\ writer \in [Boards -> [Players -> Writes \cup {NoWrite}]]
  /\ answered \subseteq Writes

Sound == LocalOK /\ StoreOK

LEMMA SoundTypes ==
  ASSUME Sound
  PROVE  /\ mysql \in BOOLEAN => TypeOK
         /\ SnapshotIsARanking
  <1>1. mysql \in BOOLEAN => TypeOK
    BY WriteAssumption DEF Sound, LocalOK, StoreOK, TypeOK, Writing
  <1>2. SnapshotIsARanking
    BY DEF Sound, StoreOK, IsRanking, SnapshotIsARanking
  <1>3. QED BY <1>1, <1>2

\* The entry a request is at.
LEMMA EntryType ==
  ASSUME LocalOK, NEW r \in Requests, pc[r] \in Writing
  PROVE  /\ work[r] \in Writes
         /\ at[r] \in 1 .. Len(work[r].entries)
         /\ Len(work[r].entries) \in Nat
         /\ Player(r) \in Players \cup {NoPlayer}
         /\ Score(r) \in Int
         /\ Label(r) \in Labels
         /\ NormalizeLeaderboardType(Label(r)) \in Boards \cup {Invalid}
  <1>1. work[r] \in Writes /\ at[r] \in DOMAIN work[r].entries
    BY DEF LocalOK
  <1>2. QED BY <1>1, WriteType, NormalizeType DEF Player, Score, Label

\* What the other requests do is not disturbed by a step of r.
Others(r) ==
  \A s \in Requests \ {r} :
    /\ pc'[s] = pc[s] /\ work'[s] = work[s] /\ at'[s] = at[s] /\ top'[s] = top[s]

LEMMA ReturnEffect ==
  ASSUME LocalOK, NEW r \in Requests, Return(r)
  PROVE  /\ LocalOK' /\ Others(r) /\ pc'[r] = "idle"
  <1>1. /\ pc' = [pc EXCEPT ![r] = "idle"] /\ work' = [work EXCEPT ![r] = NoWrite]
        /\ at' = [at EXCEPT ![r] = 0] /\ top' = [top EXCEPT ![r] = <<>>]
    BY DEF Return, Goto
  <1>2. Others(r) /\ pc'[r] = "idle"
    BY <1>1 DEF LocalOK, Others
  <1>3. /\ pc' \in [Requests -> {"idle", "zadd", "upsert", "rank", "save"}]
        /\ work' \in [Requests -> Writes \cup {NoWrite}]
        /\ at' \in [Requests -> Nat]
    BY <1>1 DEF LocalOK
  <1>4. top' \in [Requests -> Seq(Ranking)]
    BY <1>1 DEF LocalOK
  <1>5. QED BY <1>2, <1>3, <1>4 DEF LocalOK, Others, Writing, Player, Label

\* A step of r that leaves its write, or goes on in it, with a new pc and at.
LEMMA MoveEffect ==
  ASSUME LocalOK, NEW r \in Requests, NEW step \in Writing, NEW n \in Nat,
         NEW w \in Writes, n \in DOMAIN w.entries,
         \/ step = "zadd"
         \/ /\ w.entries[n].player \in Players
            /\ NormalizeLeaderboardType(w.label) \in Boards,
         step # "upsert" \/ NormalizeLeaderboardType(w.label) = Global,
         pc' = [pc EXCEPT ![r] = step], work' = [work EXCEPT ![r] = w],
         at' = [at EXCEPT ![r] = n], top' = top
  PROVE  /\ LocalOK' /\ Others(r)
         /\ pc'[r] = step /\ work'[r] = w /\ at'[r] = n
  <1>1. Others(r) /\ pc'[r] = step /\ work'[r] = w /\ at'[r] = n
    BY DEF LocalOK, Others
  <1>2. /\ pc' \in [Requests -> {"idle", "zadd", "upsert", "rank", "save"}]
        /\ work' \in [Requests -> Writes \cup {NoWrite}]
        /\ at' \in [Requests -> Nat]
        /\ top' \in [Requests -> Seq(Ranking)]
    BY DEF LocalOK, Writing
  <1>3. QED
    BY <1>1, <1>2 DEF LocalOK, Others, Writing, Player, Label

\* What the answer to a write request, or its next entry, leaves.
LEMMA AdvanceEffect ==
  ASSUME LocalOK, NEW r \in Requests, pc[r] \in Writing, Advance(r)
  PROVE  /\ LocalOK' /\ Others(r)
         /\ \/ /\ pc'[r] = "idle"
               /\ at[r] = Len(work[r].entries)
               /\ answered' = answered \cup {work[r]}
            \/ /\ pc'[r] = "zadd" /\ work'[r] = work[r] /\ at'[r] = at[r] + 1
               /\ answered' = answered
  <1>0. /\ work[r] \in Writes /\ at[r] \in 1 .. Len(work[r].entries)
        /\ Len(work[r].entries) \in Nat
        /\ DOMAIN work[r].entries = 1 .. Len(work[r].entries)
    BY EntryType, WriteType
  <1>1. CASE More(r)
    <2>1. /\ pc' = [pc EXCEPT ![r] = "zadd"]
          /\ at' = [at EXCEPT ![r] = at[r] + 1]
          /\ work' = work /\ top' = top /\ answered' = answered
      BY <1>1 DEF Advance, Goto
    <2>2. PICK w \in Writes, n \in Nat : w = work[r] /\ n = at[r] + 1
      BY <1>0
    <2>3. n \in DOMAIN w.entries
      BY <1>0, <1>1, <2>2 DEF More
    <2>4. /\ pc' = [pc EXCEPT ![r] = "zadd"] /\ work' = [work EXCEPT ![r] = w]
          /\ at' = [at EXCEPT ![r] = n] /\ top' = top
      BY <2>1, <2>2 DEF LocalOK
    <2>5. LocalOK' /\ Others(r) /\ pc'[r] = "zadd" /\ work'[r] = w /\ at'[r] = n
      BY <2>3, <2>4, MoveEffect DEF Writing
    <2>6. QED BY <2>1, <2>2, <2>5
  <1>2. CASE ~More(r)
    <2>1. Return(r) /\ answered' = answered \cup {work[r]}
      BY <1>2 DEF Advance
    <2>2. at[r] = Len(work[r].entries)
      BY <1>0, <1>2 DEF More
    <2>3. QED BY <2>1, <2>2, ReturnEffect
  <1>3. QED BY <1>1, <1>2

LEMMA AfterUpdateEffect ==
  ASSUME LocalOK, NEW r \in Requests, pc[r] \in Writing, AfterUpdate(r),
         Player(r) \in Players, NormalizeLeaderboardType(Label(r)) \in Boards
  PROVE  /\ LocalOK' /\ Others(r)
         /\ \/ /\ pc'[r] = "idle"
               /\ at[r] = Len(work[r].entries)
               /\ answered' = answered \cup {work[r]}
            \/ /\ pc'[r] = "zadd" /\ work'[r] = work[r] /\ at'[r] = at[r] + 1
               /\ answered' = answered
            \/ /\ pc'[r] = "rank" /\ work'[r] = work[r] /\ at'[r] = at[r]
               /\ answered' = answered
  <1>1. CASE work[r].ranked
    <2>1. /\ pc' = [pc EXCEPT ![r] = "rank"]
          /\ work' = work /\ at' = at /\ top' = top /\ answered' = answered
      BY <1>1 DEF AfterUpdate, Goto
    <2>2. PICK w \in Writes, n \in Nat : w = work[r] /\ n = at[r]
      BY DEF LocalOK
    <2>3. /\ n \in DOMAIN w.entries
          /\ w.entries[n].player \in Players
          /\ NormalizeLeaderboardType(w.label) \in Boards
      BY <2>2 DEF LocalOK, Player, Label
    <2>4. work' = [work EXCEPT ![r] = w] /\ at' = [at EXCEPT ![r] = n]
      BY <2>1, <2>2 DEF LocalOK
    <2>5. LocalOK' /\ Others(r) /\ pc'[r] = "rank" /\ work'[r] = w /\ at'[r] = n
      BY <2>1, <2>3, <2>4, MoveEffect DEF Writing
    <2>6. QED BY <2>1, <2>2, <2>5
  <1>2. CASE ~work[r].ranked
    BY <1>2, AdvanceEffect DEF AfterUpdate
  <1>3. QED BY <1>1, <1>2

\* The copies on their way after a step of r that does not begin one.
LEMMA CopyingAfter ==
  ASSUME NEW r \in Requests, Others(r), pc'[r] # "upsert"
  PROVE  \A s \in Requests, p \in Players :
           /\ Copying(s, p)' => s # r /\ Copying(s, p)
           /\ Copying(s, p)' => Score(s)' = Score(s)
           /\ s # r /\ Copying(s, p) => Copying(s, p)'
  BY DEF Others, Copying, Player, Score

-----------------------------------------------------------------------------
(* Types and rankings: Sound is an invariant.                              *)

LEMMA PutEffect ==
  ASSUME Sound, NEW r \in Requests, CanPut(r), Put(r)
  PROVE  /\ Player(r) \in Players /\ Score(r) \in Int
         /\ NormalizeLeaderboardType(Label(r)) \in Boards
         /\ board' \in [Boards -> [Players -> Int \cup {NoScore}]]
         /\ writer' \in [Boards -> [Players -> Writes \cup {NoWrite}]]
         /\ \A b \in Boards, p \in Players :
              IF b = NormalizeLeaderboardType(Label(r)) /\ p = Player(r)
                THEN board'[b][p] = Score(r) /\ writer'[b][p] = work[r]
                ELSE board'[b][p] = board[b][p] /\ writer'[b][p] = writer[b][p]
  <1>1. PICK q \in Players, c \in Boards, n \in Int, w \in Writes :
          q = Player(r) /\ c = NormalizeLeaderboardType(Label(r)) /\ n = Score(r) /\ w = work[r]
    BY EntryType DEF CanPut, Sound, Writing
  <1>2. board' = [board EXCEPT ![c][q] = n] /\ writer' = [writer EXCEPT ![c][q] = w]
    BY <1>1 DEF Put, Scored
  <1>3. /\ board \in [Boards -> [Players -> Int \cup {NoScore}]]
        /\ writer \in [Boards -> [Players -> Writes \cup {NoWrite}]]
    BY DEF Sound, StoreOK
  <1>4. QED BY <1>1, <1>2, <1>3

\* What listing the top reads is a ranking of players.
LEMMA ListingIsARanking ==
  ASSUME Sound, NEW n \in Sizes, NEW list \in Listings(Global, n)
  PROVE  WithScores(Global, list) \in Seq(Ranking) /\ IsRanking(WithScores(Global, list))
  <1> DEFINE size == Smaller(n, Cardinality(Ranked(Global)))
  <1>1. size \in Nat
    <2>1. IsFiniteSet(Ranked(Global))
      BY PlayerAssumption, FS_Subset DEF Ranked
    <2>2. QED BY <2>1, FS_CardinalityType, SizeAssumption DEF Smaller
  <1>2. list \in [1 .. size -> Ranked(Global)]
    BY DEF Listings
  <1>3. \A p \in Ranked(Global) : p \in Players /\ p \in Nat /\ board[Global][p] \in Int
    BY BoardAssumption, PlayerAssumption DEF Ranked, Sound, StoreOK
  <1>4. \A i \in 1 .. size :
          /\ list[i] \in Players /\ list[i] \in Nat /\ board[Global][list[i]] \in Int
          /\ WithScores(Global, list)[i] = [player |-> list[i], score |-> board[Global][list[i]]]
    BY <1>2, <1>3 DEF WithScores
  <1>5. WithScores(Global, list) \in [1 .. size -> Ranking]
    BY <1>2, <1>4 DEF WithScores, Ranking
  <1>6. WithScores(Global, list) \in Seq(Ranking) /\ DOMAIN WithScores(Global, list) = 1 .. size
    BY <1>1, <1>5
  <1>7. ASSUME NEW i \in 1 .. size, NEW j \in 1 .. size, i < j
        PROVE  /\ list[i] # list[j]
               /\ board[Global][list[i]] >= board[Global][list[j]]
    <2>1. list[i] \in Above(Global, list[j])
      BY <1>2, <1>7 DEF Listings
    <2>2. PICK p \in Players, q \in Players : p = list[i] /\ q = list[j]
      BY <1>4
    <2>3. /\ p \in Nat /\ q \in Nat
          /\ board[Global][p] \in Int /\ board[Global][q] \in Int
      BY <1>4, <2>2
    <2>4. \/ board[Global][p] > board[Global][q]
          \/ board[Global][p] = board[Global][q] /\ p > q
      BY <2>1, <2>2 DEF Above
    <2>5. p # q /\ board[Global][p] >= board[Global][q]
      BY <2>3, <2>4
    <2>6. QED BY <2>2, <2>5
  <1>8. QED BY <1>4, <1>6, <1>7 DEF IsRanking

\* Truncating the scores of a ranking leaves a ranking.
LEMMA SnapshotRowsRank ==
  ASSUME NEW list \in Seq(Ranking), IsRanking(list)
  PROVE  SnapshotRows(list) \in Seq(Ranking) /\ IsRanking(SnapshotRows(list))
  <1>1. DOMAIN list = 1 .. Len(list) /\ Len(list) \in Nat
    OBVIOUS
  <1>2. \A i \in DOMAIN list :
          /\ list[i].player \in Players /\ list[i].score \in Int
          /\ SnapshotRows(list)[i] =
               [player |-> list[i].player, score |-> Truncate(list[i].score)]
          /\ SnapshotRows(list)[i].player = list[i].player
          /\ SnapshotRows(list)[i].score = Truncate(list[i].score)
          /\ Truncate(list[i].score) \in Int
    <2>1. \A i \in DOMAIN list : list[i] \in Ranking
      BY <1>1
    <2>2. \A s \in Int : Truncate(s) \in Int
      BY Conversions
    <2>3. QED BY <2>1, <2>2 DEF Ranking, SnapshotRows
  <1>3. SnapshotRows(list) \in [1 .. Len(list) -> Ranking]
    BY <1>1, <1>2 DEF SnapshotRows, Ranking
  <1>4. SnapshotRows(list) \in Seq(Ranking) /\ DOMAIN SnapshotRows(list) = DOMAIN list
    BY <1>1, <1>3
  <1>5. ASSUME NEW i \in DOMAIN list, NEW j \in DOMAIN list, i < j
        PROVE  /\ SnapshotRows(list)[i].player # SnapshotRows(list)[j].player
               /\ SnapshotRows(list)[i].score >= SnapshotRows(list)[j].score
    <2>1. list[i].player # list[j].player /\ list[i].score >= list[j].score
      BY <1>5 DEF IsRanking
    <2>2. Truncate(list[i].score) >= Truncate(list[j].score)
      BY <1>2, <2>1, Conversions
    <2>3. /\ SnapshotRows(list)[i].player = list[i].player
          /\ SnapshotRows(list)[j].player = list[j].player
          /\ SnapshotRows(list)[i].score = Truncate(list[i].score)
          /\ SnapshotRows(list)[j].score = Truncate(list[j].score)
      BY <1>2
    <2>4. QED BY <2>1, <2>2, <2>3
  <1>6. QED BY <1>4, <1>5 DEF IsRanking

LEMMA SoundInit ==
  ASSUME Init
  PROVE  Sound
  <1>1. LocalOK
    BY DEF Init, LocalOK, Writing
  <1>2. IsRanking(<<>>) /\ <<>> \in Seq(Ranking)
    BY DEF IsRanking
  <1>3. QED BY <1>1, <1>2 DEF Init, Sound, StoreOK

\* One case per action; Return and Advance account for the local state.
LEMMA SoundStep ==
  ASSUME Sound, NEW r \in Requests, Step(r)
  PROVE  Sound' /\ Others(r)
  <1> USE DEF Sound
  <1>1. ASSUME NEW w \in Writes, Begin(r, w) PROVE Sound' /\ Others(r)
    <2>1. /\ pc' = [pc EXCEPT ![r] = "zadd"] /\ work' = [work EXCEPT ![r] = w]
          /\ at' = [at EXCEPT ![r] = 1] /\ top' = top
      BY <1>1 DEF Begin, Goto
    <2>2. 1 \in DOMAIN w.entries
      BY WriteType
    <2>3. LocalOK' /\ Others(r)
      BY <2>1, <2>2, MoveEffect DEF Writing
    <2>4. QED BY <1>1, <2>3 DEF Begin, StoreOK, storeVars, historyVars
  <1>2. CASE UpdatePlayerScore(r)
    <2>1. CanPut(r) /\ Put(r) /\ pc[r] \in Writing
      BY <1>2 DEF UpdatePlayerScore, CanPut, Writing
    <2>2. LocalOK' /\ Others(r) /\ answered' \subseteq Writes
      <3>1. CASE Mirrored(Label(r))
        <4>1. /\ pc' = [pc EXCEPT ![r] = "upsert"]
              /\ work' = work /\ at' = at /\ top' = top /\ answered' = answered
          BY <1>2, <3>1 DEF UpdatePlayerScore, Goto
        <4>2. PICK w \in Writes, n \in Nat : w = work[r] /\ n = at[r]
          BY <2>1 DEF LocalOK
        <4>3. /\ n \in DOMAIN w.entries /\ w.entries[n].player \in Players
              /\ NormalizeLeaderboardType(w.label) \in Boards
              /\ NormalizeLeaderboardType(w.label) = Global
          BY <2>1, <3>1, <4>2, PutEffect DEF LocalOK, Player, Label, Mirrored
        <4>4. work' = [work EXCEPT ![r] = w] /\ at' = [at EXCEPT ![r] = n]
          BY <4>1, <4>2 DEF LocalOK
        <4>5. LocalOK' /\ Others(r)
          BY <4>1, <4>3, <4>4, MoveEffect DEF Writing
        <4>6. QED BY <4>1, <4>5 DEF StoreOK
      <3>2. CASE ~Mirrored(Label(r))
        <4>1. AfterUpdate(r)
          BY <1>2, <3>2 DEF UpdatePlayerScore
        <4>2. /\ Player(r) \in Players /\ work[r] \in Writes
              /\ NormalizeLeaderboardType(Label(r)) \in Boards
          BY <2>1, PutEffect, EntryType
        <4>3. answered' = answered \/ answered' = answered \cup {work[r]}
          BY <2>1, <4>1, <4>2, AfterUpdateEffect
        <4>4. LocalOK' /\ Others(r)
          BY <2>1, <4>1, <4>2, AfterUpdateEffect
        <4>5. QED BY <4>2, <4>3, <4>4 DEF StoreOK
      <3>3. QED BY <3>1, <3>2
    <2>3. apart' \subseteq Players
      BY <1>2, <2>1, PutEffect DEF UpdatePlayerScore, StoreOK
    <2>4. QED BY <1>2, <2>1, <2>2, <2>3, PutEffect DEF UpdatePlayerScore, StoreOK
  <1>3. CASE UpdateFails(r)
    <2>1. LocalOK' /\ Others(r)
      BY <1>3, ReturnEffect DEF UpdateFails
    <2>2. CASE UNCHANGED <<board, writer, apart>>
      BY <1>3, <2>1, <2>2 DEF UpdateFails, StoreOK
    <2>3. CASE Put(r) /\ apart' \subseteq apart \cup {Player(r)}
      BY <1>3, <2>1, <2>3, PutEffect DEF UpdateFails, StoreOK
    <2>4. QED BY <1>3, <2>2, <2>3 DEF UpdateFails
  <1>4. CASE UpsertPlayerScore(r) \/ UpsertFails(r)
    <2>1. /\ pc[r] \in Writing /\ Player(r) \in Players /\ work[r] \in Writes
          /\ NormalizeLeaderboardType(Label(r)) \in Boards /\ Round(Score(r)) \in Int
      <3>1. pc[r] = "upsert"
        BY <1>4 DEF UpsertPlayerScore, UpsertFails
      <3>2. Score(r) \in Int
        BY <3>1, EntryType DEF Writing
      <3>3. QED BY <3>1, <3>2, Conversions DEF LocalOK, Writing
    <2>2. LocalOK' /\ Others(r) /\ answered' \subseteq Writes
      <3>1. AfterUpdate(r)
        BY <1>4 DEF UpsertPlayerScore, UpsertFails
      <3>2. answered' = answered \/ answered' = answered \cup {work[r]}
        BY <2>1, <3>1, AfterUpdateEffect
      <3>3. LocalOK' /\ Others(r)
        BY <2>1, <3>1, AfterUpdateEffect
      <3>4. QED BY <2>1, <3>2, <3>3 DEF StoreOK
    <2>3. row' \in [Players -> Int \cup {NoScore}]
      BY <1>4, <2>1 DEF UpsertPlayerScore, UpsertFails, StoreOK
    <2>4. QED BY <1>4, <2>1, <2>2, <2>3 DEF UpsertPlayerScore, UpsertFails, StoreOK
  <1>5. CASE GetPlayerRank(r)
    <2>1. pc[r] \in Writing /\ work[r] \in Writes
      BY <1>5 DEF GetPlayerRank, Writing, LocalOK
    <2>2. LocalOK' /\ Others(r) /\ answered' \subseteq Writes
      BY <1>5, <2>1, AdvanceEffect DEF GetPlayerRank, StoreOK
    <2>3. QED BY <1>5, <2>2 DEF GetPlayerRank, StoreOK, storeVars
  <1>6. CASE GetPlayerRankFails(r) \/ Refuse(r) \/ SaveFails(r)
    BY <1>6, ReturnEffect DEF GetPlayerRankFails, Refuse, SaveFails, StoreOK,
       storeVars, historyVars
  <1>7. ASSUME NEW l \in Labels, NEW n \in Sizes, GetTopPlayers(r, l, n)
        PROVE  Sound' /\ Others(r)
    <2>1. PICK list \in Listings(Global, n) :
            top' = [top EXCEPT ![r] = WithScores(Global, list)]
      BY <1>7 DEF GetTopPlayers
    <2>2. WithScores(Global, list) \in Seq(Ranking) /\ IsRanking(WithScores(Global, list))
      BY ListingIsARanking
    <2>3. /\ pc' = [pc EXCEPT ![r] = "save"] /\ work' = work /\ at' = at
          /\ UNCHANGED <<storeVars, historyVars>>
      BY <1>7 DEF GetTopPlayers, Goto
    <2>4. /\ pc' \in [Requests -> {"idle", "zadd", "upsert", "rank", "save"}]
          /\ top' \in [Requests -> Seq(Ranking)]
          /\ Others(r) /\ pc'[r] = "save" /\ top'[r] = WithScores(Global, list)
      BY <2>1, <2>2, <2>3 DEF LocalOK, Others
    <2>5. IsRanking(top'[r])
      BY <2>2, <2>4
    <2>6. \A s \in Requests : IsRanking(top[s])' <=> IsRanking(top'[s])
      BY DEF IsRanking
    <2>7. \A s \in Requests : pc'[s] = "save" => IsRanking(top[s])'
      <3>1. ASSUME NEW s \in Requests \ {r}, pc'[s] = "save" PROVE IsRanking(top'[s])
        <4>1. IsRanking(top[s]) /\ top'[s] = top[s]
          BY <2>4, <3>1 DEF LocalOK, Others
        <4>2. QED BY <4>1
      <3>2. QED BY <2>5, <2>6, <3>1
    <2>8. LocalOK'
      BY <2>3, <2>4, <2>7 DEF LocalOK, Others, Writing, Player, Label
    <2>9. QED BY <2>3, <2>4, <2>8 DEF StoreOK, storeVars, historyVars
  <1>8. CASE SaveRankSnapshot(r)
    <2>1. LocalOK' /\ Others(r)
      BY <1>8, ReturnEffect DEF SaveRankSnapshot
    <2>2. PICK list \in Seq(Ranking) : list = top[r]
      BY DEF LocalOK
    <2>3. IsRanking(list) /\ snapshot' = SnapshotRows(list)
      BY <1>8, <2>2 DEF SaveRankSnapshot, LocalOK
    <2>4. snapshot' \in Seq(Ranking) /\ IsRanking(snapshot')
      BY <2>3, SnapshotRowsRank
    <2>5. IsRanking(snapshot)'
      BY <2>4 DEF IsRanking
    <2>6. QED BY <1>8, <2>1, <2>4, <2>5 DEF SaveRankSnapshot, StoreOK, historyVars
  <1>9. QED BY <1>1, <1>2, <1>3, <1>4, <1>5, <1>6, <1>7, <1>8 DEF Step, Update

LEMMA SoundCrash ==
  ASSUME Sound, Crash
  PROVE  Sound'
  <1>1. LocalOK'
    BY DEF Crash, LocalOK, Writing
  <1>2. StoreOK'
    BY DEF Crash, Sound, StoreOK, storeVars
  <1>3. QED BY <1>1, <1>2 DEF Sound

LEMMA SoundNext ==
  ASSUME Sound, [Next]_vars
  PROVE  Sound'
  <1>1. CASE UNCHANGED vars
    BY <1>1 DEF Sound, LocalOK, StoreOK, vars, storeVars, localVars, historyVars,
       IsRanking, Player, Label
  <1>2. CASE Next
    BY <1>2, SoundStep, SoundCrash DEF Next
  <1>3. QED BY <1>1, <1>2

\* The leaderboards, their copies and every request are well typed, for any
\* players, boards, lists of scores and requests.
THEOREM TypeCorrect == Spec => []TypeOK
  <1>1. Spec => []Sound
    BY SoundInit, SoundNext, PTL DEF Spec
  <1>2. mysql \in BOOLEAN /\ [Next]_vars => (mysql \in BOOLEAN)'
    BY DEF Next, Step, Crash, vars
  <1>3. Spec => [](mysql \in BOOLEAN)
    BY <1>2, PTL DEF Spec, Init
  <1>4. Sound /\ mysql \in BOOLEAN => TypeOK
    BY SoundTypes
  <1>5. QED BY <1>1, <1>3, <1>4, PTL

\* Every snapshot that is saved is a ranking: no player twice, and nobody
\* before a player of a higher score.
THEOREM SnapshotsAreRankings == Spec => []SnapshotIsARanking
  <1>1. Spec => []Sound
    BY SoundInit, SoundNext, PTL DEF Spec
  <1>2. Sound => SnapshotIsARanking
    BY SoundTypes
  <1>3. QED BY <1>1, <1>2, PTL

-----------------------------------------------------------------------------
(* The players table follows the global board.                             *)

\* A score on its way to MySQL is one that was put on the board; it still is
\* the board's, and no other is on its way, unless the history says so.
CopiesOK ==
  \A r \in Requests, p \in Players : Copying(r, p) =>
    /\ board[Global][p] # NoScore
    /\ p \notin apart =>
         /\ Score(r) = board[Global][p]
         /\ \A s \in Requests : Copying(s, p) => s = r

Mirror == CopiesOK /\ RowFollowsBoard

\* Steps that neither put a score on the global board nor copy one.
LEMMA QuietMirror ==
  ASSUME Mirror, NEW r \in Requests, Others(r),
         pc[r] # "upsert", pc'[r] # "upsert",
         \A p \in Players : board'[Global][p] = board[Global][p],
         row' = row, apart' = apart
  PROVE  Mirror'
  <1>1. \A s \in Requests, p \in Players :
          /\ Copying(s, p)' <=> Copying(s, p)
          /\ Copying(s, p) => Score(s)' = Score(s)
    <2>1. \A p \in Players : ~Copying(r, p)
      BY DEF Copying
    <2>2. QED BY <2>1, CopyingAfter DEF Copying, Others, Player, Score
  <1>2. CopiesOK'
    BY <1>1 DEF Mirror, CopiesOK
  <1>3. RowFollowsBoard'
    BY <1>1 DEF Mirror, RowFollowsBoard
  <1>4. QED BY <1>2, <1>3 DEF Mirror

\* A score put on the global board that will not be copied.
LEMMA ApartMirror ==
  ASSUME Sound, Mirror, NEW r \in Requests, Others(r), CanPut(r), Put(r),
         NormalizeLeaderboardType(Label(r)) = Global,
         pc'[r] # "upsert", row' = row, apart' = apart \cup {Player(r)}
  PROVE  Mirror'
  <1>1. PICK q \in Players : q = Player(r)
    BY PutEffect
  <1>2. \A p \in Players :
          board'[Global][p] = IF p = q THEN Score(r) ELSE board[Global][p]
    BY <1>1, PutEffect, BoardAssumption
  <1>3. Score(r) # NoScore
    BY PutEffect, WriteAssumption
  <1>4. \A s \in Requests, p \in Players :
          /\ Copying(s, p)' <=> Copying(s, p)
          /\ Copying(s, p) => Score(s)' = Score(s)
    BY CopyingAfter DEF Copying, CanPut
  <1>5. CopiesOK'
    BY <1>1, <1>2, <1>3, <1>4 DEF Mirror, CopiesOK
  <1>6. RowFollowsBoard'
    BY <1>1, <1>2, <1>3, <1>4 DEF Mirror, RowFollowsBoard
  <1>7. QED BY <1>5, <1>6 DEF Mirror

\* A score put on the global board begins to be copied, if there is MySQL.
LEMMA UpdateMirror ==
  ASSUME Sound, Mirror, NEW r \in Requests, UpdatePlayerScore(r), Others(r)
  PROVE  Mirror'
  <1>1. PICK q \in Players : q = Player(r)
    BY PutEffect DEF UpdatePlayerScore
  <1>2. /\ CanPut(r) /\ Put(r) /\ pc[r] = "zadd" /\ pc[r] \in Writing
        /\ Score(r) \in Int /\ Score(r) # NoScore
    BY PutEffect, WriteAssumption DEF UpdatePlayerScore, CanPut, Writing
  <1>3. CASE NormalizeLeaderboardType(Label(r)) = Global /\ mysql
    <2>1. /\ pc' = [pc EXCEPT ![r] = "upsert"] /\ work' = work /\ at' = at
      BY <1>3 DEF UpdatePlayerScore, Mirrored, Goto
    <2>2. pc'[r] = "upsert" /\ Player(r)' = q /\ Score(r)' = Score(r)
      BY <1>1, <2>1 DEF Sound, LocalOK, Player, Score
    <2>3. \A p \in Players :
            board'[Global][p] = IF p = q THEN Score(r) ELSE board[Global][p]
      BY <1>1, <1>2, <1>3, PutEffect, BoardAssumption
    <2>4. \A s \in Requests \ {r}, p \in Players :
            /\ Copying(s, p)' <=> Copying(s, p)
            /\ Score(s)' = Score(s)
      BY DEF Others, Copying, Player, Score
    <2>5. \A p \in Players : Copying(r, p)' <=> p = q
      BY <2>2 DEF Copying
    <2>6. apart' = IF \E s \in Requests \ {r} : Copying(s, q)
                     THEN apart \cup {q} ELSE apart \ {q}
      BY <1>1, <1>3 DEF UpdatePlayerScore
    <2>7. \A p \in Players : ~Copying(r, p)
      BY <1>2 DEF Copying
    <2>8. row' = row
      BY DEF UpdatePlayerScore
    <2>9. CopiesOK'
      <3>1. ASSUME NEW s \in Requests, NEW p \in Players, Copying(s, p)', p # q
            PROVE  /\ board'[Global][p] # NoScore
                   /\ p \notin apart' =>
                        /\ Score(s)' = board'[Global][p]
                        /\ \A t \in Requests : Copying(t, p)' => t = s
        BY <2>3, <2>4, <2>5, <2>6, <2>7, <3>1 DEF Mirror, CopiesOK
      <3>2. ASSUME NEW s \in Requests, Copying(s, q)'
            PROVE  /\ board'[Global][q] # NoScore
                   /\ q \notin apart' =>
                        /\ Score(s)' = board'[Global][q]
                        /\ \A t \in Requests : Copying(t, q)' => t = s
        BY <1>2, <2>2, <2>3, <2>4, <2>5, <2>6, <3>2
      <3>3. QED BY <3>1, <3>2 DEF CopiesOK
    <2>10. RowFollowsBoard'
      <3>1. ASSUME NEW p \in Players, p # q
            PROVE  /\ board'[Global][p] = NoScore => row'[p] = NoScore
                   /\ p \notin apart' /\ board'[Global][p] # NoScore
                        /\ (\A s \in Requests : ~Copying(s, p)')
                      => row'[p] = Round(board'[Global][p])
        BY <2>3, <2>4, <2>5, <2>6, <2>7, <2>8, <3>1 DEF Mirror, RowFollowsBoard
      <3>2. board'[Global][q] # NoScore /\ Copying(r, q)'
        BY <1>2, <2>3, <2>5
      <3>3. QED BY <3>1, <3>2 DEF RowFollowsBoard
    <2>11. QED BY <2>9, <2>10 DEF Mirror
  <1>4. CASE NormalizeLeaderboardType(Label(r)) # Global
    <2>1. \A p \in Players : board'[Global][p] = board[Global][p]
      BY <1>2, <1>4, PutEffect, BoardAssumption
    <2>2. AfterUpdate(r) /\ row' = row /\ apart' = apart
      BY <1>4 DEF UpdatePlayerScore, Mirrored
    <2>3. pc'[r] # "upsert"
      BY <1>2, <2>2, PutEffect, AfterUpdateEffect DEF Sound
    <2>4. QED BY <1>2, <2>1, <2>2, <2>3, QuietMirror
  <1>5. CASE NormalizeLeaderboardType(Label(r)) = Global /\ ~mysql
    <2>1. AfterUpdate(r) /\ row' = row /\ apart' = apart \cup {Player(r)}
      BY <1>5 DEF UpdatePlayerScore, Mirrored
    <2>2. pc'[r] # "upsert"
      BY <1>2, <2>1, PutEffect, AfterUpdateEffect DEF Sound
    <2>3. QED BY <1>2, <1>5, <2>1, <2>2, ApartMirror
  <1>6. QED BY <1>3, <1>4, <1>5

LEMMA UpdateFailsMirror ==
  ASSUME Sound, Mirror, NEW r \in Requests, UpdateFails(r), Others(r)
  PROVE  Mirror'
  <1>1. pc[r] = "zadd" /\ pc'[r] # "upsert" /\ row' = row /\ CanPut(r)
    BY ReturnEffect DEF UpdateFails, CanPut, Sound
  <1>2. CASE UNCHANGED <<board, writer, apart>>
    BY <1>1, <1>2, QuietMirror
  <1>3. CASE Put(r) /\ NormalizeLeaderboardType(Label(r)) # Global /\ apart' = apart
    <2>1. \A p \in Players : board'[Global][p] = board[Global][p]
      BY <1>1, <1>3, PutEffect, BoardAssumption
    <2>2. QED BY <1>1, <1>3, <2>1, QuietMirror
  <1>4. CASE Put(r) /\ NormalizeLeaderboardType(Label(r)) = Global
               /\ apart' = apart \cup {Player(r)}
    BY <1>1, <1>4, ApartMirror
  <1>5. QED BY <1>2, <1>3, <1>4 DEF UpdateFails

\* The copy arrives, or is given up.
LEMMA UpsertMirror ==
  ASSUME Sound, Mirror, NEW r \in Requests, Others(r),
         UpsertPlayerScore(r) \/ UpsertFails(r)
  PROVE  Mirror'
  <1>1. PICK q \in Players : q = Player(r)
    BY DEF UpsertPlayerScore, UpsertFails, Sound, LocalOK
  <1>2. pc[r] = "upsert" /\ AfterUpdate(r) /\ board' = board
    BY DEF UpsertPlayerScore, UpsertFails
  <1>3. pc'[r] # "upsert"
    BY <1>1, <1>2, AfterUpdateEffect DEF Sound, LocalOK, Writing
  <1>4. Copying(r, q) /\ (\A p \in Players : Copying(r, p) => p = q)
    BY <1>1, <1>2 DEF Copying
  <1>5. \A s \in Requests, p \in Players :
          /\ Copying(s, p)' <=> s # r /\ Copying(s, p)
          /\ Copying(s, p)' => Score(s)' = Score(s)
    BY <1>3, CopyingAfter
  <1>6. /\ \A p \in Players \ {q} : row'[p] = row[p]
        /\ apart' = apart \/ apart' = apart \cup {q}
        /\ q \notin apart' => row'[q] = Round(Score(r))
    BY <1>1 DEF UpsertPlayerScore, UpsertFails, Sound, StoreOK
  <1>7. CopiesOK'
    BY <1>2, <1>5, <1>6 DEF Mirror, CopiesOK
  <1>8. RowFollowsBoard'
    <2>1. ASSUME NEW p \in Players, p # q
          PROVE  /\ board'[Global][p] = NoScore => row'[p] = NoScore
                 /\ p \notin apart' /\ board'[Global][p] # NoScore
                      /\ (\A s \in Requests : ~Copying(s, p)')
                    => row'[p] = Round(board'[Global][p])
      BY <1>2, <1>4, <1>5, <1>6, <2>1 DEF Mirror, RowFollowsBoard
    <2>2. /\ board'[Global][q] # NoScore
          /\ q \notin apart' => row'[q] = Round(board'[Global][q])
      BY <1>2, <1>4, <1>6 DEF Mirror, CopiesOK
    <2>3. QED BY <2>1, <2>2 DEF RowFollowsBoard
  <1>9. QED BY <1>7, <1>8 DEF Mirror

LEMMA MirrorStep ==
  ASSUME Sound, Mirror, NEW r \in Requests, Step(r)
  PROVE  Mirror'
  <1>1. Others(r)
    BY SoundStep
  <1>2. CASE \E w \in Writes : Begin(r, w)
    <2>1. pc[r] # "upsert" /\ pc'[r] # "upsert" /\ UNCHANGED <<board, row, apart>>
      BY <1>2 DEF Begin, Goto, Sound, LocalOK, storeVars, historyVars
    <2>2. QED BY <1>1, <2>1, QuietMirror
  <1>3. CASE UpdatePlayerScore(r)
    BY <1>1, <1>3, UpdateMirror
  <1>4. CASE UpdateFails(r)
    BY <1>1, <1>4, UpdateFailsMirror
  <1>5. CASE UpsertPlayerScore(r) \/ UpsertFails(r)
    BY <1>1, <1>5, UpsertMirror
  <1>6. CASE GetPlayerRank(r)
    <2>1. pc[r] = "rank" /\ pc[r] \in Writing /\ UNCHANGED <<board, row, apart>>
      BY <1>6 DEF GetPlayerRank, Writing, storeVars
    <2>2. pc'[r] # "upsert"
      BY <1>6, <2>1, AdvanceEffect DEF GetPlayerRank, Sound
    <2>3. QED BY <1>1, <2>1, <2>2, QuietMirror
  <1>7. CASE GetPlayerRankFails(r) \/ Refuse(r) \/ SaveFails(r) \/ SaveRankSnapshot(r)
    <2>1. pc[r] # "upsert" /\ Return(r) /\ UNCHANGED <<board, row, apart>>
      BY <1>7 DEF GetPlayerRankFails, Refuse, SaveFails, SaveRankSnapshot,
         storeVars, historyVars
    <2>2. pc'[r] # "upsert"
      BY <2>1, ReturnEffect DEF Sound
    <2>3. QED BY <1>1, <2>1, <2>2, QuietMirror
  <1>8. CASE \E l \in Labels, n \in Sizes : GetTopPlayers(r, l, n)
    <2>1. pc[r] # "upsert" /\ pc'[r] # "upsert" /\ UNCHANGED <<board, row, apart>>
      BY <1>8 DEF GetTopPlayers, Goto, Sound, LocalOK, storeVars, historyVars
    <2>2. QED BY <1>1, <2>1, QuietMirror
  <1>9. QED BY <1>2, <1>3, <1>4, <1>5, <1>6, <1>7, <1>8 DEF Step, Update

LEMMA MirrorNext ==
  ASSUME Sound, Mirror, [Next]_vars
  PROVE  Mirror'
  <1>1. CASE UNCHANGED vars
    BY <1>1 DEF Mirror, CopiesOK, RowFollowsBoard, Copying, Player, Score,
       vars, storeVars, localVars, historyVars
  <1>2. CASE Crash
    <2>1. \A r \in Requests, p \in Players : ~Copying(r, p)'
      BY <1>2 DEF Crash, Copying
    <2>2. RowFollowsBoard'
      BY <1>2 DEF Crash, storeVars, Mirror, RowFollowsBoard
    <2>3. QED BY <2>1, <2>2 DEF Mirror, CopiesOK
  <1>3. CASE \E r \in Requests : Step(r)
    BY <1>3, MirrorStep
  <1>4. QED BY <1>1, <1>2, <1>3 DEF Next

\* For any players, boards and requests: MySQL knows no player that the global
\* board does not, and a player's row is the rounded score of the board unless
\* his last update overlapped the copying of another one, failed, was cut off, or
\* came to a server without MySQL.
THEOREM RowsFollowTheBoard == Spec => []RowFollowsBoard
  <1>1. Init => Mirror
    BY BoardAssumption DEF Init, Mirror, CopiesOK, RowFollowsBoard, Copying
  <1>2. Spec => [](Sound /\ Mirror)
    BY <1>1, SoundInit, SoundNext, MirrorNext, PTL DEF Spec
  <1>3. QED BY <1>2, PTL DEF Mirror

-----------------------------------------------------------------------------
(* Answered writes stick.                                                  *)

\* The i-th entry of w was written, by w or, since, by another request.
Placed(w, i) ==
  /\ w.entries[i].player \in Players
  /\ NormalizeLeaderboardType(w.label) \in Boards
  /\ writer[NormalizeLeaderboardType(w.label)][w.entries[i].player] # NoWrite

\* What a request has behind it in its list is written.
PlacedOK ==
  \A r \in Requests : pc[r] \in Writing =>
    \A i \in DOMAIN work[r].entries :
      i < at[r] \/ (i = at[r] /\ pc[r] # "zadd") => Placed(work[r], i)

AnsweredOK == \A w \in answered : \A i \in DOMAIN w.entries : Placed(w, i)

\* A score on a board is one that its writer's list gives the player.
WriterTells ==
  \A b \in Boards, p \in Players : writer[b][p] # NoWrite =>
    \E i \in DOMAIN writer[b][p].entries :
      /\ writer[b][p].entries[i].player = p
      /\ writer[b][p].entries[i].score = board[b][p]

Lists == PlacedOK /\ AnsweredOK /\ WriterTells

WriterKept ==
  \A b \in Boards, p \in Players : writer[b][p] # NoWrite => writer'[b][p] # NoWrite

\* The scores of a list are written to different players, so that only its
\* own entry says what its writer wrote for a player.
LEMMA ListsStick ==
  ASSUME Sound, Lists
  PROVE  AnsweredWritesStick
  <1>1. ASSUME NEW w \in answered, NEW i \in DOMAIN w.entries
        PROVE  LET b == NormalizeLeaderboardType(w.label)
                   e == w.entries[i]
               IN /\ b # Invalid /\ e.player # NoPlayer
                  /\ writer[b][e.player] # NoWrite
                  /\ writer[b][e.player] = w => board[b][e.player] = e.score
    <2>1. w \in Writes /\ Placed(w, i)
      BY DEF Sound, StoreOK, Lists, AnsweredOK
    <2>2. PICK p \in Players, b \in Boards :
            p = w.entries[i].player /\ b = NormalizeLeaderboardType(w.label)
      BY <2>1 DEF Placed
    <2>3. writer[b][p] # NoWrite
      BY <2>1, <2>2 DEF Placed
    <2>4. writer[b][p] = w => board[b][p] = w.entries[i].score
      <3>1. SUFFICES ASSUME writer[b][p] = w PROVE board[b][p] = w.entries[i].score
        OBVIOUS
      <3>2. PICK j \in DOMAIN w.entries :
              w.entries[j].player = p /\ w.entries[j].score = board[b][p]
        BY <2>3, <3>1 DEF Lists, WriterTells
      <3>3. j = i
        BY <2>1, <2>2, <3>2, WriteType
      <3>4. QED BY <3>2, <3>3
    <2>5. b # Invalid /\ p # NoPlayer
      BY BoardAssumption, PlayerAssumption
    <2>6. QED BY <2>2, <2>3, <2>4, <2>5
  <1>2. QED BY <1>1 DEF AnsweredWritesStick

\* What was written stays written.
LEMMA PlacedKept ==
  ASSUME WriterKept, NEW w, NEW i, Placed(w, i)
  PROVE  Placed(w, i)'
  BY DEF WriterKept, Placed

\* A step of r in its list: it goes on after an entry that is written, reads
\* the rank of it, copies it, or is answered.
LEMMA ListStep ==
  ASSUME Sound, PlacedOK, AnsweredOK, WriterKept,
         NEW r \in Requests, NEW w \in Writes, NEW n \in Nat, Others(r),
         pc[r] \in Writing, w = work[r], n = at[r], Placed(w, n)',
         \/ /\ pc'[r] = "idle" /\ n = Len(w.entries)
            /\ answered' = answered \cup {w}
         \/ /\ pc'[r] = "zadd" /\ work'[r] = w /\ at'[r] = n + 1
            /\ answered' = answered
         \/ /\ pc'[r] \in Writing /\ work'[r] = w /\ at'[r] = n
            /\ answered' = answered
  PROVE  PlacedOK' /\ AnsweredOK'
  <1>1. \A i \in DOMAIN w.entries : i <= n => Placed(w, i)'
    <2>1. \A i \in DOMAIN w.entries : i < n => Placed(w, i)
      BY DEF PlacedOK
    <2>2. DOMAIN w.entries \subseteq Nat
      BY WriteType
    <2>3. QED BY <2>1, <2>2, PlacedKept
  <1>2. DOMAIN w.entries = 1 .. Len(w.entries) /\ Len(w.entries) \in Nat
    BY WriteType
  <1>3. ASSUME NEW s \in Requests, pc'[s] \in Writing, NEW i \in DOMAIN work'[s].entries,
               i < at'[s] \/ (i = at'[s] /\ pc'[s] # "zadd")
        PROVE  Placed(work[s], i)'
    <2>1. CASE s # r
      <3>1. pc'[s] = pc[s] /\ work'[s] = work[s] /\ at'[s] = at[s]
        BY <2>1 DEF Others
      <3>2. Placed(work[s], i)
        BY <1>3, <3>1 DEF PlacedOK
      <3>3. PICK v : v = work[s]
        OBVIOUS
      <3>4. Placed(v, i)'
        BY <3>2, <3>3, PlacedKept
      <3>5. QED BY <3>1, <3>3, <3>4 DEF Placed
    <2>2. CASE s = r
      <3>1. work'[r] = w /\ i \in DOMAIN w.entries /\ i <= n
        BY <1>2, <1>3, <2>2 DEF Writing
      <3>2. QED BY <1>1, <2>2, <3>1 DEF Placed
    <2>3. QED BY <2>1, <2>2
  <1>4. PlacedOK'
    BY <1>3 DEF PlacedOK
  <1>5. ASSUME NEW v \in answered', NEW i \in DOMAIN v.entries
        PROVE  Placed(v, i)'
    <2>1. CASE v \in answered
      BY <1>5, <2>1, PlacedKept DEF AnsweredOK
    <2>2. CASE v \notin answered
      BY <1>1, <1>2, <1>5, <2>2
    <2>3. QED BY <2>1, <2>2
  <1>6. AnsweredOK'
    BY <1>5 DEF AnsweredOK
  <1>7. QED BY <1>4, <1>6

\* Any other step of r: it begins a list, or does not write one.
LEMMA OtherStep ==
  ASSUME Sound, PlacedOK, AnsweredOK, WriterKept, NEW r \in Requests, Others(r),
         \/ pc'[r] \notin Writing
         \/ pc'[r] = "zadd" /\ work'[r] \in Writes /\ at'[r] = 1,
         answered' = answered
  PROVE  PlacedOK' /\ AnsweredOK'
  <1>1. ASSUME NEW s \in Requests, pc'[s] \in Writing, NEW i \in DOMAIN work'[s].entries,
               i < at'[s] \/ (i = at'[s] /\ pc'[s] # "zadd")
        PROVE  Placed(work[s], i)'
    <2>1. CASE s # r
      <3>1. pc'[s] = pc[s] /\ work'[s] = work[s] /\ at'[s] = at[s]
        BY <2>1 DEF Others
      <3>2. Placed(work[s], i)
        BY <1>1, <3>1 DEF PlacedOK
      <3>3. PICK v : v = work[s]
        OBVIOUS
      <3>4. Placed(v, i)'
        BY <3>2, <3>3, PlacedKept
      <3>5. QED BY <3>1, <3>3, <3>4 DEF Placed
    <2>2. CASE s = r
      <3>1. PICK v \in Writes : v = work'[r]
        BY <1>1, <2>2
      <3>2. DOMAIN v.entries = 1 .. Len(v.entries) /\ Len(v.entries) \in Nat
        BY WriteType
      <3>3. i \in Nat /\ i >= 1
        BY <1>1, <2>2, <3>1, <3>2
      <3>4. QED BY <1>1, <2>2, <3>3
    <2>3. QED BY <2>1, <2>2
  <1>2. PlacedOK'
    BY <1>1 DEF PlacedOK
  <1>3. AnsweredOK'
    BY PlacedKept DEF AnsweredOK
  <1>4. QED BY <1>2, <1>3

LEMMA PutTells ==
  ASSUME Sound, WriterTells, NEW r \in Requests, CanPut(r), Put(r)
  PROVE  /\ WriterTells' /\ WriterKept
         /\ \A w \in Writes, n \in Nat : w = work[r] /\ n = at[r] => Placed(w, n)'
  <1>1. PICK q \in Players, c \in Boards, w \in Writes, n \in Nat :
          /\ q = Player(r) /\ c = NormalizeLeaderboardType(Label(r))
          /\ w = work[r] /\ n = at[r]
    BY PutEffect, EntryType DEF CanPut, Sound, Writing
  <1>2. n \in DOMAIN w.entries /\ q = w.entries[n].player /\ Score(r) = w.entries[n].score
        /\ c = NormalizeLeaderboardType(w.label) /\ w # NoWrite
    BY <1>1, WriteAssumption
    DEF Player, Score, Label, CanPut, Sound, LocalOK, Writing
  <1>3. \A b \in Boards, p \in Players :
          IF b = c /\ p = q
            THEN board'[b][p] = w.entries[n].score /\ writer'[b][p] = w
            ELSE board'[b][p] = board[b][p] /\ writer'[b][p] = writer[b][p]
    <2>1. \A b \in Boards, p \in Players :
            IF b = NormalizeLeaderboardType(Label(r)) /\ p = Player(r)
              THEN board'[b][p] = Score(r) /\ writer'[b][p] = work[r]
              ELSE board'[b][p] = board[b][p] /\ writer'[b][p] = writer[b][p]
      BY PutEffect
    <2>2. c = NormalizeLeaderboardType(Label(r)) /\ q = Player(r)
            /\ Score(r) = w.entries[n].score /\ work[r] = w
      BY <1>1, <1>2
    <2>3. QED BY <2>1, <2>2
  <1>4. WriterKept
    BY <1>2, <1>3 DEF WriterKept
  <1>5. ASSUME NEW b \in Boards, NEW p \in Players, writer'[b][p] # NoWrite
        PROVE  \E i \in DOMAIN writer'[b][p].entries :
                 /\ writer'[b][p].entries[i].player = p
                 /\ writer'[b][p].entries[i].score = board'[b][p]
    <2>1. CASE b = c /\ p = q
      BY <1>2, <1>3, <2>1
    <2>2. CASE ~(b = c /\ p = q)
      BY <1>3, <1>5, <2>2 DEF WriterTells
    <2>3. QED BY <2>1, <2>2
  <1>6. WriterTells'
    BY <1>5 DEF WriterTells
  <1>7. Placed(w, n)'
    BY <1>2, <1>3 DEF Placed
  <1>8. QED BY <1>1, <1>4, <1>6, <1>7

LEMMA ListsUpdate ==
  ASSUME Sound, Lists, NEW r \in Requests, Others(r), UpdatePlayerScore(r)
  PROVE  Lists'
  <1>1. CanPut(r) /\ Put(r) /\ pc[r] \in Writing
    BY DEF UpdatePlayerScore, CanPut, Writing
  <1>2. PICK w \in Writes, n \in Nat : w = work[r] /\ n = at[r]
    BY <1>1, EntryType DEF Sound
  <1>3. WriterTells' /\ WriterKept /\ Placed(w, n)'
    BY <1>1, <1>2, PutTells DEF Lists
  <1>4. \/ /\ pc'[r] = "idle" /\ n = Len(w.entries) /\ answered' = answered \cup {w}
        \/ /\ pc'[r] = "zadd" /\ work'[r] = w /\ at'[r] = n + 1 /\ answered' = answered
        \/ /\ pc'[r] \in Writing /\ work'[r] = w /\ at'[r] = n /\ answered' = answered
    <2>1. CASE Mirrored(Label(r))
      BY <1>2, <2>1 DEF UpdatePlayerScore, Goto, Writing, Sound, LocalOK
    <2>2. CASE ~Mirrored(Label(r))
      <3>1. /\ AfterUpdate(r) /\ Player(r) \in Players
            /\ NormalizeLeaderboardType(Label(r)) \in Boards
        BY <1>1, <2>2, PutEffect DEF UpdatePlayerScore
      <3>2. QED BY <1>1, <1>2, <3>1, AfterUpdateEffect DEF Sound, Writing
    <2>3. QED BY <2>1, <2>2
  <1>5. PlacedOK' /\ AnsweredOK'
    BY <1>1, <1>2, <1>3, <1>4, ListStep DEF Lists
  <1>6. QED BY <1>3, <1>5 DEF Lists

\* Steps after the ZADD of an entry.
LEMMA ListsGoOn ==
  ASSUME Sound, Lists, NEW r \in Requests, Others(r),
         pc[r] \in {"upsert", "rank"}, board' = board, writer' = writer,
         AfterUpdate(r) \/ Advance(r)
  PROVE  Lists'
  <1>1. pc[r] \in Writing /\ Player(r) \in Players
        /\ NormalizeLeaderboardType(Label(r)) \in Boards
    BY DEF Writing, Sound, LocalOK
  <1>2. PICK w \in Writes, n \in Nat : w = work[r] /\ n = at[r]
    BY <1>1, EntryType DEF Sound
  <1>3. WriterKept /\ WriterTells'
    BY DEF WriterKept, Lists, WriterTells
  <1>4. Placed(w, n)
    BY <1>1, <1>2 DEF Lists, PlacedOK, Sound, LocalOK
  <1>5. Placed(w, n)'
    BY <1>3, <1>4, PlacedKept
  <1>6. \/ /\ pc'[r] = "idle" /\ n = Len(w.entries) /\ answered' = answered \cup {w}
        \/ /\ pc'[r] = "zadd" /\ work'[r] = w /\ at'[r] = n + 1 /\ answered' = answered
        \/ /\ pc'[r] \in Writing /\ work'[r] = w /\ at'[r] = n /\ answered' = answered
    <2>1. CASE AfterUpdate(r)
      BY <1>1, <1>2, <2>1, AfterUpdateEffect DEF Sound, Writing
    <2>2. CASE Advance(r)
      BY <1>1, <1>2, <2>2, AdvanceEffect DEF Sound
    <2>3. QED BY <2>1, <2>2
  <1>7. PlacedOK' /\ AnsweredOK'
    BY <1>1, <1>2, <1>3, <1>5, <1>6, ListStep DEF Lists
  <1>8. QED BY <1>3, <1>7 DEF Lists

LEMMA ListsStep ==
  ASSUME Sound, Lists, NEW r \in Requests, Step(r)
  PROVE  Lists'
  <1>1. Others(r)
    BY SoundStep
  <1>2. ASSUME board' = board, writer' = writer
        PROVE  WriterKept /\ WriterTells'
    BY <1>2 DEF WriterKept, Lists, WriterTells
  <1>3. ASSUME NEW w \in Writes, Begin(r, w) PROVE Lists'
    <2>1. /\ pc'[r] = "zadd" /\ work'[r] = w /\ at'[r] = 1
          /\ board' = board /\ writer' = writer /\ answered' = answered
      BY <1>3 DEF Begin, Goto, Sound, LocalOK, storeVars, historyVars
    <2>2. PlacedOK' /\ AnsweredOK'
      BY <1>1, <1>2, <2>1, OtherStep DEF Lists
    <2>3. QED BY <1>2, <2>1, <2>2 DEF Lists
  <1>4. CASE UpdatePlayerScore(r)
    BY <1>1, <1>4, ListsUpdate
  <1>5. CASE UpdateFails(r)
    <2>1. CanPut(r) /\ answered' = answered /\ pc'[r] = "idle"
      BY <1>5, ReturnEffect DEF UpdateFails, Sound
    <2>2. WriterKept /\ WriterTells'
      <3>1. CASE UNCHANGED <<board, writer, apart>>
        BY <1>2, <3>1
      <3>2. CASE Put(r)
        BY <2>1, <3>2, PutTells DEF Lists
      <3>3. QED BY <1>5, <3>1, <3>2 DEF UpdateFails
    <2>3. PlacedOK' /\ AnsweredOK'
      BY <1>1, <2>1, <2>2, OtherStep DEF Lists, Writing
    <2>4. QED BY <2>2, <2>3 DEF Lists
  <1>6. CASE UpsertPlayerScore(r) \/ UpsertFails(r)
    BY <1>1, <1>6, ListsGoOn DEF UpsertPlayerScore, UpsertFails
  <1>7. CASE GetPlayerRank(r)
    BY <1>1, <1>7, ListsGoOn DEF GetPlayerRank, storeVars
  <1>8. CASE GetPlayerRankFails(r) \/ Refuse(r) \/ SaveFails(r) \/ SaveRankSnapshot(r)
    <2>1. Return(r) /\ board' = board /\ writer' = writer /\ answered' = answered
      BY <1>8 DEF GetPlayerRankFails, Refuse, SaveFails, SaveRankSnapshot,
         storeVars, historyVars
    <2>2. pc'[r] = "idle"
      BY <2>1, ReturnEffect DEF Sound
    <2>3. PlacedOK' /\ AnsweredOK'
      BY <1>1, <1>2, <2>1, <2>2, OtherStep DEF Lists, Writing
    <2>4. QED BY <1>2, <2>1, <2>3 DEF Lists
  <1>9. ASSUME NEW l \in Labels, NEW n \in Sizes, GetTopPlayers(r, l, n)
        PROVE  Lists'
    <2>1. /\ pc'[r] = "save" /\ board' = board /\ writer' = writer
          /\ answered' = answered
      BY <1>9 DEF GetTopPlayers, Goto, Sound, LocalOK, storeVars, historyVars
    <2>2. PlacedOK' /\ AnsweredOK'
      BY <1>1, <1>2, <2>1, OtherStep DEF Lists, Writing
    <2>3. QED BY <1>2, <2>1, <2>2 DEF Lists
  <1>10. QED
    BY <1>3, <1>4, <1>5, <1>6, <1>7, <1>8, <1>9 DEF Step, Update

LEMMA ListsNext ==
  ASSUME Sound, Lists, [Next]_vars
  PROVE  Lists'
  <1>1. CASE UNCHANGED vars
    BY <1>1 DEF Lists, PlacedOK, AnsweredOK, WriterTells, Placed, vars,
       storeVars, localVars, historyVars
  <1>2. CASE Crash
    BY <1>2 DEF Crash, Lists, PlacedOK, AnsweredOK, WriterTells, Placed,
       Writing, storeVars
  <1>3. CASE \E r \in Requests : Step(r)
    BY <1>3, ListsStep
  <1>4. QED BY <1>1, <1>2, <1>3 DEF Next

\* For any lists of scores and any number of requests: what was answered with
\* success is on the board until another request writes the player's score,
\* whatever failed, was sent again or was cut off before and after.
THEOREM AnsweredWritesAreKept == Spec => []AnsweredWritesStick
  <1>1. Init => Lists
    BY DEF Init, Lists, PlacedOK, AnsweredOK, WriterTells, Writing
  <1>2. Spec => [](Sound /\ Lists)
    BY <1>1, SoundInit, SoundNext, ListsNext, PTL DEF Spec
  <1>3. Sound /\ Lists => AnsweredWritesStick
    BY ListsStick
  <1>4. QED BY <1>2, <1>3, PTL

-----------------------------------------------------------------------------
(* Listings and ranks.                                                     *)

\* A board has exactly one listing of each size, and a player's place in it,
\* counted from 0, is the number of players above him: what ZREVRANK answers.
ListingsTellRanks ==
  \A b \in Boards : \A n \in Nat : \E list :
    /\ Listings(b, n) = {list}
    /\ \A i \in DOMAIN list : Cardinality(Above(b, list[i])) = i - 1

\* The players of a board are in a strict total order.
LEMMA BoardOrder ==
  ASSUME StoreOK, NEW b \in Boards
  PROVE  /\ Ranked(b) \subseteq Players /\ IsFiniteSet(Ranked(b))
         /\ \A p \in Ranked(b) : Above(b, p) \subseteq Ranked(b) \ {p}
         /\ \A p, q \in Ranked(b) : p = q \/ p \in Above(b, q) \/ q \in Above(b, p)
         /\ \A p, q, o \in Ranked(b) :
              p \in Above(b, q) /\ q \in Above(b, o) => p \in Above(b, o)
         /\ \A p, q \in Ranked(b) : p \in Above(b, q) => q \notin Above(b, p)
  <1>1. Ranked(b) \subseteq Players /\ IsFiniteSet(Ranked(b))
    BY PlayerAssumption, FS_Subset DEF Ranked
  <1>2. \A p \in Ranked(b) : p \in Nat /\ board[b][p] \in Int
    BY <1>1, PlayerAssumption DEF Ranked, StoreOK
  <1>3. \A p, q \in Ranked(b) :
          p \in Above(b, q) <=> \/ board[b][p] > board[b][q]
                                \/ board[b][p] = board[b][q] /\ p > q
    BY DEF Above
  <1>4. \A p \in Ranked(b) : Above(b, p) \subseteq Ranked(b)
    BY DEF Above
  <1>5. \A p \in Ranked(b) : p \notin Above(b, p)
    BY <1>2, <1>3
  <1>6. \A p, q \in Ranked(b) : p = q \/ p \in Above(b, q) \/ q \in Above(b, p)
    BY <1>2, <1>3
  <1>7. ASSUME NEW p \in Ranked(b), NEW q \in Ranked(b), NEW o \in Ranked(b),
               p \in Above(b, q), q \in Above(b, o)
        PROVE  p \in Above(b, o)
    BY <1>2, <1>3, <1>7
  <1>8. \A p, q \in Ranked(b) : p \in Above(b, q) => q \notin Above(b, p)
    BY <1>5, <1>7
  <1>9. QED BY <1>1, <1>4, <1>5, <1>6, <1>7, <1>8

\* Players of a board have different ranks, below the number of players.
LEMMA RanksDiffer ==
  ASSUME StoreOK, NEW b \in Boards, NEW p \in Ranked(b)
  PROVE  /\ Cardinality(Above(b, p)) \in 0 .. Cardinality(Ranked(b)) - 1
         /\ \A q \in Ranked(b) :
              p \in Above(b, q) => Cardinality(Above(b, p)) < Cardinality(Above(b, q))
  <1>1. /\ IsFiniteSet(Ranked(b)) /\ Cardinality(Ranked(b)) \in Nat
        /\ \A q \in Ranked(b) : /\ Above(b, q) \in SUBSET Ranked(b)
                                /\ q \notin Above(b, q)
    BY BoardOrder, FS_CardinalityType
  <1>2. \A q \in Ranked(b) : /\ IsFiniteSet(Above(b, q))
                             /\ Cardinality(Above(b, q)) \in Nat
    BY <1>1, FS_Subset, FS_CardinalityType
  <1>3. Cardinality(Above(b, p)) <= Cardinality(Ranked(b))
        /\ Cardinality(Above(b, p)) # Cardinality(Ranked(b))
    BY <1>1, FS_Subset
  <1>4. ASSUME NEW q \in Ranked(b), p \in Above(b, q)
        PROVE  Cardinality(Above(b, p)) < Cardinality(Above(b, q))
    <2>1. Above(b, p) \in SUBSET Above(b, q)
      BY <1>1, <1>4, BoardOrder
    <2>2. Cardinality(Above(b, p)) <= Cardinality(Above(b, q))
          /\ Cardinality(Above(b, p)) # Cardinality(Above(b, q))
      BY <1>1, <1>2, <1>4, <2>1, FS_Subset
    <2>3. QED BY <1>2, <1>4, <2>2
  <1>5. QED BY <1>1, <1>2, <1>3, <1>4

\* So two players of the same rank are one, and every rank is somebody's.
LEMMA RanksAreTaken ==
  ASSUME StoreOK, NEW b \in Boards
  PROVE  /\ \A p, q \in Ranked(b) :
              Cardinality(Above(b, p)) = Cardinality(Above(b, q)) => p = q
         /\ \A k \in 0 .. Cardinality(Ranked(b)) - 1 :
              \E p \in Ranked(b) : Cardinality(Above(b, p)) = k
  <1> DEFINE N == Cardinality(Ranked(b))
             rank == [p \in Ranked(b) |-> Cardinality(Above(b, p))]
  <1>1. IsFiniteSet(Ranked(b)) /\ N \in Nat
    BY BoardOrder, FS_CardinalityType
  <1>2. \A p \in Ranked(b) : Cardinality(Above(b, p)) \in 0 .. N - 1
    BY RanksDiffer
  <1>3. ASSUME NEW p \in Ranked(b), NEW q \in Ranked(b),
               Cardinality(Above(b, p)) = Cardinality(Above(b, q))
        PROVE  p = q
    <2>1. Cardinality(Above(b, p)) \in Nat
      BY <1>1, <1>2
    <2>2. p \notin Above(b, q) /\ q \notin Above(b, p)
      BY <1>3, <2>1, RanksDiffer
    <2>3. QED BY <2>2, BoardOrder
  <1>4. rank \in Injection(Ranked(b), 0 .. N - 1)
    BY <1>2, <1>3 DEF Injection, IsInjective
  <1>5. IsFiniteSet(0 .. N - 1) /\ Cardinality(0 .. N - 1) = N
    BY <1>1, FS_Interval
  <1>6. rank \in Surjection(Ranked(b), 0 .. N - 1)
    BY <1>4, <1>5, FS_Injection
  <1>7. ASSUME NEW k \in 0 .. N - 1
        PROVE  \E p \in Ranked(b) : Cardinality(Above(b, p)) = k
    BY <1>6, <1>7 DEF Surjection
  <1>8. QED BY <1>3, <1>7

\* In a listing a player's place is his rank.
LEMMA PlacesAreRanks ==
  ASSUME StoreOK, NEW b \in Boards, NEW n \in Nat, NEW list \in Listings(b, n),
         NEW i \in DOMAIN list
  PROVE  Cardinality(Above(b, list[i])) = i - 1
  <1> DEFINE size == Smaller(n, Cardinality(Ranked(b)))
             first == [j \in 1 .. i - 1 |-> list[j]]
  <1>1. size \in Nat
    BY BoardOrder, FS_CardinalityType DEF Smaller
  <1>2. /\ list \in [1 .. size -> Ranked(b)]
        /\ \A j, k \in 1 .. size : j < k => list[j] \in Above(b, list[k])
        /\ \A q \in Above(b, list[i]) : \E j \in 1 .. size : list[j] = q
    BY DEF Listings
  <1> HIDE DEF size
  <1>3. i \in 1 .. size
    BY <1>2
  <1>4. \A j \in 1 .. i - 1 : j \in 1 .. size /\ j < i
    BY <1>1, <1>3
  <1>5. first \in [1 .. i - 1 -> Above(b, list[i])]
    BY <1>2, <1>3, <1>4
  <1>6. ASSUME NEW j \in 1 .. i - 1, NEW k \in 1 .. i - 1, list[j] = list[k]
        PROVE  j = k
    <2>1. /\ list[j] \in Ranked(b)
          /\ list[j] \notin Above(b, list[j])
      BY <1>2, <1>4, BoardOrder
    <2>2. ~(j < k) /\ ~(k < j)
      BY <1>2, <1>4, <1>6, <2>1
    <2>3. QED BY <1>1, <1>3, <2>2
  <1>7. ASSUME NEW q \in Above(b, list[i])
        PROVE  \E j \in 1 .. i - 1 : list[j] = q
    <2>1. PICK j \in 1 .. size : list[j] = q
      BY <1>2
    <2>2. list[i] \in Ranked(b) /\ q \in Ranked(b)
      BY <1>2, <1>3, <2>1
    <2>3. q # list[i] /\ list[i] \notin Above(b, q)
      BY <2>2, BoardOrder
    <2>4. j # i /\ ~(i < j)
      BY <1>2, <1>3, <2>1, <2>3
    <2>5. j \in 1 .. i - 1
      BY <1>1, <1>3, <2>4
    <2>6. QED BY <2>1, <2>5
  <1>8. first \in Bijection(1 .. i - 1, Above(b, list[i]))
    BY <1>5, <1>6, <1>7 DEF Bijection, Injection, IsInjective, Surjection
  <1>9. IsFiniteSet(1 .. i - 1) /\ Cardinality(1 .. i - 1) = i - 1
    BY <1>1, <1>3, FS_Interval
  <1>10. QED BY <1>8, <1>9, FS_Bijection DEF ExistsBijection

\* The players by rank are a listing.
LEMMA RanksAreAListing ==
  ASSUME StoreOK, NEW b \in Boards, NEW n \in Nat
  PROVE  Listings(b, n) # {}
  <1> DEFINE N == Cardinality(Ranked(b))
             size == Smaller(n, N)
             Rank(p) == Cardinality(Above(b, p))
             list == [i \in 1 .. size |-> CHOOSE p \in Ranked(b) : Rank(p) = i - 1]
  <1>1. N \in Nat /\ size \in Nat /\ size <= N
    BY BoardOrder, FS_CardinalityType DEF Smaller
  <1>2. ASSUME NEW i \in 1 .. size
        PROVE  list[i] \in Ranked(b) /\ Rank(list[i]) = i - 1
    <2>1. i - 1 \in 0 .. N - 1
      BY <1>1
    <2>2. \E p \in Ranked(b) : Rank(p) = i - 1
      BY <2>1, RanksAreTaken
    <2>3. QED BY <2>2
  <1>3. list \in [1 .. size -> Ranked(b)]
    BY <1>2
  <1>4. ASSUME NEW i \in 1 .. size, NEW j \in 1 .. size, i < j
        PROVE  list[i] \in Above(b, list[j])
    <2>1. PICK p \in Ranked(b), q \in Ranked(b) :
            /\ p = list[i] /\ q = list[j]
            /\ Rank(p) = i - 1 /\ Rank(q) = j - 1
      BY <1>2
    <2>2. p # q /\ ~(Rank(q) < Rank(p))
      BY <1>1, <1>4, <2>1
    <2>3. q \notin Above(b, p)
      BY <2>2, RanksDiffer
    <2>4. QED BY <2>1, <2>2, <2>3, BoardOrder
  <1>5. ASSUME NEW j \in 1 .. size, NEW q \in Above(b, list[j])
        PROVE  \E i \in 1 .. size : list[i] = q
    <2>1. q \in Ranked(b)
      BY DEF Above
    <2>2. Rank(q) \in 0 .. N - 1 /\ Rank(q) < j - 1
      BY <1>2, <2>1, <1>5, RanksDiffer
    <2>3. PICK k \in 1 .. size : k = Rank(q) + 1
      BY <1>1, <2>2
    <2>4. list[k] \in Ranked(b) /\ Rank(list[k]) = Rank(q)
      BY <1>1, <1>2, <2>2, <2>3
    <2>5. QED BY <2>1, <2>4, RanksAreTaken
  <1>6. DOMAIN list = 1 .. size
    OBVIOUS
  <1>7. list \in Listings(b, n)
    BY <1>3, <1>4, <1>5, <1>6 DEF Listings
  <1>8. QED BY <1>7

LEMMA OneListing ==
  ASSUME StoreOK, NEW b \in Boards, NEW n \in Nat
  PROVE  \E list : /\ Listings(b, n) = {list}
                   /\ \A i \in DOMAIN list : Cardinality(Above(b, list[i])) = i - 1
  <1>1. PICK list : list \in Listings(b, n)
    BY RanksAreAListing
  <1>2. ASSUME NEW other \in Listings(b, n)
        PROVE  other = list
    <2> DEFINE D == 1 .. Smaller(n, Cardinality(Ranked(b)))
    <2>1. list \in [D -> Ranked(b)] /\ other \in [D -> Ranked(b)]
      BY <1>1 DEF Listings
    <2> HIDE DEF D
    <2>2. ASSUME NEW i \in D PROVE list[i] = other[i]
      <3>1. i \in DOMAIN list /\ i \in DOMAIN other
        BY <2>1
      <3>2. Cardinality(Above(b, list[i])) = i - 1
        BY <1>1, <3>1, PlacesAreRanks
      <3>3. Cardinality(Above(b, other[i])) = i - 1
        BY <3>1, PlacesAreRanks
      <3>4. QED BY <2>1, <3>2, <3>3, RanksAreTaken
    <2>3. QED BY <2>1, <2>2
  <1>3. QED BY <1>1, <1>2, PlacesAreRanks

\* For any scores, ties included, and any size, GetTopPlayers can read exactly
\* one list, and the rank that GetPlayerRank reads in the same state is the
\* player's place in it.
THEOREM ListingsAndRanksAgree == Spec => []ListingsTellRanks
  <1>1. Spec => []Sound
    BY SoundInit, SoundNext, PTL DEF Spec
  <1>2. Sound => ListingsTellRanks
    BY OneListing DEF Sound, ListingsTellRanks
  <1>3. QED BY <1>1, <1>2, PTL
=============================================================================
