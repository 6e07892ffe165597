------------------------- MODULE MatchWindow_proofs -------------------------
(* Proofs about MatchWindow, for any players, scores, buckets and steps.   *)
EXTENDS MatchWindow, FiniteSetTheorems, TLAPS

-----------------------------------------------------------------------------
(* The constants and the operators on windows.                             *)

\* A base range is a pair of natural numbers up to MaxScore, the lower first.
LEMMA BaseRange ==
  ASSUME NEW b \in Buckets
  PROVE  /\ Base[b][1] \in Nat /\ Base[b][2] \in Nat
         /\ Base[b][1] <= Base[b][2] /\ Base[b][2] <= MaxScore
  <1>1. Base[b] \in Nat \X Nat
    BY BucketAssumption DEF Buckets
  <1>2. QED BY <1>1, BucketAssumption

\* Widening once more is widening by one step more of the base range, and
\* MaxScore steps already reach both bounds.
LEMMA StepsAdd ==
  ASSUME NEW b \in Buckets, NEW k \in 0 .. MaxScore, Grown(b, k)
  PROVE  \E n \in 0 .. MaxScore :
           /\ AtLeastZero(low[b] - ExpandStep) = AtLeastZero(Base[b][1] - n * ExpandStep)
           /\ AtMostMaxScore(high[b] + ExpandStep)
                = AtMostMaxScore(Base[b][2] + n * ExpandStep)
  <1> DEFINE w == k * ExpandStep
  <1>1. /\ Base[b][1] \in Nat /\ Base[b][2] \in Nat
        /\ Base[b][1] <= Base[b][2] /\ Base[b][2] <= MaxScore
    BY BaseRange
  <1>2. /\ ExpandStep \in Nat \ {0} /\ MaxScore \in Nat /\ k \in Nat
        /\ w \in Nat /\ (k + 1) * ExpandStep = w + ExpandStep
    BY BucketAssumption
  <1>3. w >= k
    BY <1>2
  <1>4. /\ low[b] = AtLeastZero(Base[b][1] - w)
        /\ high[b] = AtMostMaxScore(Base[b][2] + w)
    BY DEF Grown
  <1> HIDE DEF w
  <1>5. /\ AtLeastZero(low[b] - ExpandStep) = AtLeastZero(Base[b][1] - (w + ExpandStep))
        /\ AtMostMaxScore(high[b] + ExpandStep)
             = AtMostMaxScore(Base[b][2] + (w + ExpandStep))
    BY <1>1, <1>2, <1>4 DEF AtLeastZero, AtMostMaxScore
  <1>6. CASE k < MaxScore
    <2>1. k + 1 \in 0 .. MaxScore
      BY <1>2, <1>6
    <2>2. QED BY <1>2, <1>5, <2>1
  <1>7. CASE k = MaxScore
    <2>1. /\ AtLeastZero(low[b] - ExpandStep) = AtLeastZero(Base[b][1] - w)
          /\ AtMostMaxScore(high[b] + ExpandStep) = AtMostMaxScore(Base[b][2] + w)
      <3>1. Base[b][1] - w <= 0 /\ Base[b][2] + w >= MaxScore
        BY <1>1, <1>2, <1>3, <1>7
      <3>2. low[b] = 0 /\ high[b] = MaxScore
        BY <1>1, <1>2, <1>4, <3>1 DEF AtLeastZero, AtMostMaxScore
      <3>3. /\ AtLeastZero(low[b] - ExpandStep) = 0
            /\ AtMostMaxScore(high[b] + ExpandStep) = MaxScore
        BY <1>2, <3>2 DEF AtLeastZero, AtMostMaxScore
      <3>4. QED BY <1>4, <3>2, <3>3
    <2>2. QED BY <1>2, <1>7, <2>1 DEF w
  <1>8. QED BY <1>2, <1>6, <1>7

\* A window that was widened is within the range of scores.
LEMMA GrownInRange ==
  ASSUME NEW b \in Buckets, NEW k \in 0 .. MaxScore
  PROVE  /\ AtLeastZero(Base[b][1] - k * ExpandStep) \in 0 .. MaxScore
         /\ AtMostMaxScore(Base[b][2] + k * ExpandStep) \in 0 .. MaxScore
  <1> DEFINE w == k * ExpandStep
  <1>1. w \in Nat /\ MaxScore \in Nat
    BY BucketAssumption
  <1> HIDE DEF w
  <1>2. QED BY <1>1, BaseRange DEF w, AtLeastZero, AtMostMaxScore

-----------------------------------------------------------------------------
(* The windows.                                                            *)

Windows ==
  /\ low \in [Buckets -> 0 .. MaxScore]
  /\ high \in [Buckets -> 0 .. MaxScore]
  /\ empty \in [Buckets -> 0 .. ExpandThreshold - 1]
  /\ turn \in Buckets
  /\ GrowsEvenly

\* Not widened at all, a window is the base range.
LEMMA BaseIsGrown ==
  ASSUME NEW b \in Buckets
  PROVE  /\ AtLeastZero(Base[b][1] - 0 * ExpandStep) = Base[b][1]
         /\ AtMostMaxScore(Base[b][2] + 0 * ExpandStep) = Base[b][2]
         /\ 0 \in 0 .. MaxScore
  <1>1. 0 * ExpandStep = 0 /\ MaxScore \in Nat
    BY BucketAssumption
  <1>2. QED BY <1>1, BaseRange DEF AtLeastZero, AtMostMaxScore

\* What every action does to the windows.
WindowStep ==
  \/ UNCHANGED <<low, high, empty, turn>>
  \/ NextBucket /\ UNCHANGED <<low, high, empty>>
  \/ \E b \in Buckets :
       /\ NextBucket
       /\ \/ /\ low' = LowReset(b) /\ high' = [high EXCEPT ![b] = Base[b][2]]
             /\ empty' = [empty EXCEPT ![b] = 0]
          \/ expandBucketRange(b)
          \/ /\ ~(empty[b] + 1 >= ExpandThreshold)
             /\ empty' = [empty EXCEPT ![b] = empty[b] + 1]
             /\ UNCHANGED <<low, high>>

LEMMA StepIsWindowStep ==
  ASSUME [Next]_vars
  PROVE  WindowStep
  BY DEF Next, vars, playerVars, bucketVars, WindowStep, Create, Complete, Requeue,
         CreateTicket, CompleteMatch, RequeueMatchTicketPlayers, AddPlayerToPool,
         RollbackCreate, TryCompleteMatch, LeaveQueue, Scan, ScanFails,
         MatchInBucket, EmptyMatch

\* The window of one bucket is put to its base range widened by n steps, the
\* other buckets keep theirs.
LEMMA OneWindowGrown ==
  ASSUME Windows, NEW b \in Buckets, NEW n \in 0 .. MaxScore,
         low' = [low EXCEPT ![b] = AtLeastZero(Base[b][1] - n * ExpandStep)],
         high' = [high EXCEPT ![b] = AtMostMaxScore(Base[b][2] + n * ExpandStep)]
  PROVE  /\ low' \in [Buckets -> 0 .. MaxScore]
         /\ high' \in [Buckets -> 0 .. MaxScore]
         /\ GrowsEvenly'
  <1>1. low' \in [Buckets -> 0 .. MaxScore] /\ high' \in [Buckets -> 0 .. MaxScore]
    BY GrownInRange DEF Windows
  <1>2. ASSUME NEW c \in Buckets
        PROVE  \E k \in 0 .. MaxScore : Grown(c, k)'
    <2>1. CASE c = b
      <3>1. Grown(c, n)'
        BY <2>1 DEF Grown, Windows
      <3>2. QED BY <3>1
    <2>2. CASE c # b
      <3>1. low'[c] = low[c] /\ high'[c] = high[c]
        BY <2>2 DEF Windows
      <3>2. \E k \in 0 .. MaxScore : Grown(c, k)
        BY DEF Windows, GrowsEvenly
      <3>3. QED BY <3>1, <3>2 DEF Grown
    <2>3. QED BY <2>1, <2>2
  <1>3. QED BY <1>1, <1>2 DEF GrowsEvenly

LEMMA WindowsInit ==
  ASSUME Init
  PROVE  Windows
  <1>1. ASSUME NEW b \in Buckets
        PROVE  \E k \in 0 .. MaxScore : Grown(b, k)
    <2>1. Grown(b, 0) /\ 0 \in 0 .. MaxScore
      BY BaseIsGrown DEF Init, Grown
    <2>2. QED BY <2>1
  <1>2. 1 \in Buckets /\ 0 \in 0 .. ExpandThreshold - 1
    <2>1. Len(Base) \in Nat
      BY BucketAssumption
    <2>2. QED BY <2>1, BucketAssumption DEF Buckets
  <1>3. /\ low \in [Buckets -> 0 .. MaxScore] /\ high \in [Buckets -> 0 .. MaxScore]
    <2>1. MaxScore \in Nat
      BY BucketAssumption
    <2>2. \A b \in Buckets : Base[b][1] \in 0 .. MaxScore /\ Base[b][2] \in 0 .. MaxScore
      BY <2>1, BaseRange
    <2>3. QED BY <2>2 DEF Init
  <1>4. QED BY <1>1, <1>2, <1>3 DEF Init, Windows, GrowsEvenly

\* The scan order goes round the buckets.
LEMMA NextBucketInRange ==
  ASSUME turn \in Buckets, NextBucket
  PROVE  turn' \in Buckets
  <1>1. Len(Base) \in Nat
    BY BucketAssumption
  <1>2. QED BY <1>1 DEF NextBucket, Buckets

LEMMA WindowsNext ==
  ASSUME Windows, WindowStep
  PROVE  Windows'
  <1>1. CASE UNCHANGED <<low, high, empty, turn>>
    BY <1>1 DEF Windows, GrowsEvenly, Grown
  <1>2. CASE NextBucket /\ UNCHANGED <<low, high, empty>>
    BY <1>2, NextBucketInRange DEF Windows, GrowsEvenly, Grown
  <1>3. ASSUME NEW b \in Buckets, NextBucket,
               \/ /\ low' = LowReset(b) /\ high' = [high EXCEPT ![b] = Base[b][2]]
                  /\ empty' = [empty EXCEPT ![b] = 0]
               \/ expandBucketRange(b)
               \/ /\ ~(empty[b] + 1 >= ExpandThreshold)
                  /\ empty' = [empty EXCEPT ![b] = empty[b] + 1]
                  /\ UNCHANGED <<low, high>>
        PROVE  Windows'
    <2>1. turn' \in Buckets
      BY <1>3, NextBucketInRange DEF Windows
    <2>2. 0 \in 0 .. ExpandThreshold - 1 /\ ExpandThreshold \in Nat
      BY BucketAssumption
    <2>3. CASE /\ low' = LowReset(b) /\ high' = [high EXCEPT ![b] = Base[b][2]]
               /\ empty' = [empty EXCEPT ![b] = 0]
      <3>1. empty' \in [Buckets -> 0 .. ExpandThreshold - 1]
        BY <2>2, <2>3 DEF Windows
      <3>2. /\ low' = [low EXCEPT ![b] = AtLeastZero(Base[b][1] - 0 * ExpandStep)]
            /\ high' = [high EXCEPT ![b] = AtMostMaxScore(Base[b][2] + 0 * ExpandStep)]
            /\ 0 \in 0 .. MaxScore
        BY <2>3, BaseIsGrown DEF LowReset
      <3>3. QED BY <2>1, <3>1, <3>2, OneWindowGrown DEF Windows
    <2>4. CASE expandBucketRange(b)
      <3>1. empty' \in [Buckets -> 0 .. ExpandThreshold - 1]
        BY <2>2, <2>4 DEF Windows, expandBucketRange
      <3>2. PICK k \in 0 .. MaxScore : Grown(b, k)
        BY DEF Windows, GrowsEvenly
      <3>3. PICK n \in 0 .. MaxScore :
              /\ AtLeastZero(low[b] - ExpandStep)
                   = AtLeastZero(Base[b][1] - n * ExpandStep)
              /\ AtMostMaxScore(high[b] + ExpandStep)
                   = AtMostMaxScore(Base[b][2] + n * ExpandStep)
        BY <3>2, StepsAdd
      <3>4. /\ low' = [low EXCEPT ![b] = AtLeastZero(Base[b][1] - n * ExpandStep)]
            /\ high' = [high EXCEPT ![b] = AtMostMaxScore(Base[b][2] + n * ExpandStep)]
        BY <2>4, <3>3 DEF expandBucketRange
      <3>5. QED BY <2>1, <3>1, <3>4, OneWindowGrown DEF Windows
    <2>5. CASE /\ ~(empty[b] + 1 >= ExpandThreshold)
               /\ empty' = [empty EXCEPT ![b] = empty[b] + 1]
               /\ UNCHANGED <<low, high>>
      <3>1. empty[b] \in 0 .. ExpandThreshold - 1
        BY DEF Windows
      <3>2. empty[b] + 1 \in 0 .. ExpandThreshold - 1
        BY <2>2, <2>5, <3>1
      <3>3. QED BY <2>1, <2>5, <3>2 DEF Windows, GrowsEvenly, Grown
    <2>6. QED BY <1>3, <2>3, <2>4, <2>5
  <1>4. QED BY <1>1, <1>2, <1>3 DEF WindowStep

-----------------------------------------------------------------------------
(* The players.                                                            *)

PlayersTyped ==
  /\ score \in [Players -> Scores]
  /\ place \in [Players -> Places]
  /\ earlier \subseteq Players \X Players
  /\ asking \subseteq Players
  /\ pairs \subseteq SUBSET Players

PlayersInv == PlayersTyped /\ PlacesAgree

\* What a search finds are members of the pool, in the window, and nobody in
\* the window is ahead of either.
LEMMA FoundArePooled ==
  ASSUME NEW lo, NEW hi, NEW pair \in FirstTwo(lo, hi)
  PROVE  /\ pair \subseteq Pool /\ pair \subseteq Reach(lo, hi)
         /\ \A p \in pair, r \in Reach(lo, hi) \ pair : ~Ahead(r, p)
  BY DEF FirstTwo, Reach

\* Picking members of the pool.
LEMMA PickKeeps ==
  ASSUME PlayersInv, NEW pair \in SUBSET Pool, Pick(pair)
  PROVE  /\ place' \in [Players -> Places]
         /\ earlier' \subseteq Players \X Players
         /\ pairs' \subseteq SUBSET Players
         /\ PlacesAgree'
  <1>1. pair \subseteq Players
    BY DEF Pool
  <1>2. \A p \in Players : place'[p] = IF p \in pair THEN "picked" ELSE place[p]
    BY DEF Pick, Move
  <1>3. place' \in [Players -> Places]
    BY <1>2 DEF Pick, Move, Places, PlayersInv, PlayersTyped
  <1>4. pairs' \subseteq SUBSET Players /\ earlier' \subseteq Players \X Players
    BY <1>1 DEF Pick, Forget, PlayersInv, PlayersTyped
  <1>5. \A P \in pairs : P \cap pair = {}
    <2>1. \A p \in pair : place[p] = "pool"
      BY DEF Pool
    <2>2. \A P \in pairs : P \subseteq Players /\ \A p \in P : place[p] = "picked"
      BY DEF PlayersInv, PlayersTyped, PlacesAgree
    <2>3. QED BY <2>1, <2>2
  <1>6. \A p \in Players : place'[p] = "picked" <=> \E P \in pairs' : p \in P
    BY <1>2 DEF Pick, PlayersInv, PlacesAgree
  <1>7. \A P, Q \in pairs' : P # Q => P \cap Q = {}
    BY <1>5 DEF Pick, PlayersInv, PlacesAgree
  <1>8. earlier' \subseteq Pool' \X Pool'
    <2>1. \A p \in Pool \ pair : p \in Pool'
      BY <1>2 DEF Pool
    <2>2. earlier \subseteq Pool \X Pool
      BY DEF PlayersInv, PlacesAgree
    <2>3. earlier' \subseteq (Pool \ pair) \X (Pool \ pair)
      BY <2>2 DEF Pick, Forget
    <2>4. QED BY <2>1, <2>3
  <1>9. QED BY <1>3, <1>4, <1>6, <1>7, <1>8 DEF PlacesAgree

\* A player who is neither picked nor put into the pool goes somewhere else.
LEMMA MoveOneKeeps ==
  ASSUME PlayersInv, NEW p \in Players, NEW to \in Places \ {"picked"},
         place[p] # "picked", Move({p}, to), UNCHANGED pairs,
         earlier' \subseteq Players \X Players,
         earlier' \subseteq Pool' \X Pool'
  PROVE  place' \in [Players -> Places] /\ PlacesAgree'
  <1>1. \A q \in Players : place'[q] = IF q = p THEN to ELSE place[q]
    BY DEF Move
  <1>2. place' \in [Players -> Places]
    BY <1>1 DEF Move, PlayersInv, PlayersTyped
  <1>3. QED BY <1>1, <1>2 DEF PlayersInv, PlacesAgree

\* One of the picked pairs is done with.
LEMMA UnpickKeeps ==
  ASSUME PlayersInv, NEW pair \in pairs, pairs' = pairs \ {pair},
         UNCHANGED earlier,
         place' \in [Players -> Places],
         \A p \in Players : IF p \in pair THEN place'[p] \notin {"picked", "pool"}
                                          ELSE place'[p] = place[p]
  PROVE  pairs' \subseteq SUBSET Players /\ PlacesAgree'
  <1>1. \A p \in pair : p \in Players /\ place[p] = "picked"
    BY DEF PlayersInv, PlayersTyped, PlacesAgree
  <1>2. Pool' = Pool
    BY <1>1 DEF Pool
  <1>3. \A P, Q \in pairs' : P # Q => P \cap Q = {}
    BY DEF PlayersInv, PlacesAgree
  <1>4. \A p \in Players : place'[p] = "picked" <=> \E P \in pairs' : p \in P
    <2>1. ASSUME NEW p \in Players
          PROVE  place'[p] = "picked" <=> \E P \in pairs' : p \in P
      <3>1. place[p] = "picked" <=> \E P \in pairs : p \in P
        BY DEF PlayersInv, PlacesAgree
      <3>2. \A P \in pairs : P # pair => P \cap pair = {}
        BY DEF PlayersInv, PlacesAgree
      <3>3. CASE p \in pair
        BY <3>2, <3>3
      <3>4. CASE p \notin pair
        BY <3>1, <3>4
      <3>5. QED BY <3>3, <3>4
    <2>2. QED BY <2>1
  <1>5. QED BY <1>2, <1>3, <1>4 DEF PlayersInv, PlayersTyped, PlacesAgree

LEMMA PlayersInit ==
  ASSUME Init
  PROVE  PlayersInv
  <1>1. (CHOOSE x \in Scores : TRUE) \in Scores
    BY ScoreAssumption
  <1>2. QED BY <1>1 DEF Init, PlayersInv, PlayersTyped, PlacesAgree, Places

LEMMA PlayersNext ==
  ASSUME PlayersInv, [Next]_vars
  PROVE  PlayersInv'
  <1> USE DEF PlayersInv
  <1>1. ASSUME NEW p \in Players, NEW x \in Scores, CreateTicket(p, x)
        PROVE  PlayersInv'
    <2>1. earlier' \subseteq Pool' \X Pool'
      BY <1>1 DEF CreateTicket, Move, Pool, PlacesAgree
    <2>2. score' \in [Players -> Scores] /\ asking' \subseteq Players
      BY <1>1 DEF CreateTicket, PlayersTyped
    <2>3. QED BY <1>1, <2>1, <2>2, MoveOneKeeps DEF CreateTicket, PlayersTyped, Places
  <1>2. ASSUME NEW p \in Players, AddPlayerToPool(p)
        PROVE  PlayersInv'
    <2>1. Pool' = Pool \cup {p}
      BY <1>2 DEF AddPlayerToPool, Move, Pool
    <2>2. earlier' \subseteq Pool' \X Pool'
      BY <1>2, <2>1 DEF AddPlayerToPool, PlacesAgree
    <2>3. earlier' \subseteq Players \X Players
      BY <2>2 DEF Pool
    <2>4. place[p] # "picked"
      BY <1>2 DEF AddPlayerToPool
    <2>5. QED
      BY <1>2, <2>2, <2>3, <2>4, MoveOneKeeps DEF AddPlayerToPool, PlayersTyped, Places
  <1>3. ASSUME NEW p \in Players, RollbackCreate(p)
        PROVE  PlayersInv'
    <2>1. earlier' \subseteq Pool' \X Pool'
      BY <1>3 DEF RollbackCreate, Move, Pool, PlacesAgree
    <2>2. QED
      BY <1>3, <2>1, MoveOneKeeps DEF RollbackCreate, PlayersTyped, Places
  <1>4. ASSUME NEW p \in Players, TryCompleteMatch(p)
        PROVE  PlayersInv'
    <2>1. score' = score /\ asking' \subseteq Players
      BY <1>4 DEF TryCompleteMatch, PlayersTyped
    <2>2. \/ UNCHANGED <<place, earlier, pairs>>
          \/ \E pair \in SUBSET Pool : Pick(pair)
      BY <1>4, FoundArePooled DEF TryCompleteMatch
    <2>3. CASE UNCHANGED <<place, earlier, pairs>>
      BY <2>1, <2>3 DEF PlayersTyped, PlacesAgree, Pool
    <2>4. CASE \E pair \in SUBSET Pool : Pick(pair)
      BY <2>1, <2>4, PickKeeps DEF PlayersTyped
    <2>5. QED BY <2>2, <2>3, <2>4
  <1>5. ASSUME NEW p \in Players, LeaveQueue(p)
        PROVE  PlayersInv'
    <2>1. earlier' \subseteq Pool' \X Pool'
      BY <1>5 DEF LeaveQueue, Move, Forget, Pool, PlacesAgree
    <2>2. earlier' \subseteq Players \X Players
      BY <2>1 DEF Pool
    <2>3. QED
      BY <1>5, <2>1, <2>2, MoveOneKeeps DEF LeaveQueue, PlayersTyped, Places
  <1>6. ASSUME NEW pair \in pairs, CompleteMatch(pair)
        PROVE  PlayersInv'
    <2>1. \A p \in Players : place'[p] = IF p \in pair THEN "away" ELSE place[p]
      BY <1>6 DEF CompleteMatch, Move
    <2>2. place' \in [Players -> Places]
      BY <1>6, <2>1 DEF CompleteMatch, Move, PlayersTyped, Places
    <2>3. QED BY <1>6, <2>1, <2>2, UnpickKeeps DEF CompleteMatch, PlayersTyped
  <1>7. ASSUME NEW pair \in pairs, NEW queued \in SUBSET pair,
               RequeueMatchTicketPlayers(pair, queued)
        PROVE  PlayersInv'
    <2>1. \A p \in Players : place'[p] = IF p \in queued THEN "requeuing"
                                         ELSE IF p \in pair THEN "away" ELSE place[p]
      BY <1>7 DEF RequeueMatchTicketPlayers
    <2>2. place' \in [Players -> Places]
      BY <1>7, <2>1 DEF RequeueMatchTicketPlayers, PlayersTyped, Places
    <2>3. QED
      BY <1>7, <2>1, <2>2, UnpickKeeps DEF RequeueMatchTicketPlayers, PlayersTyped
  <1>8. ASSUME NEW b \in Buckets, MatchInBucket(b)
        PROVE  PlayersInv'
    <2>1. \E pair \in SUBSET Pool : Pick(pair)
      BY <1>8, FoundArePooled DEF MatchInBucket
    <2>2. QED BY <1>8, <2>1, PickKeeps DEF MatchInBucket, PlayersTyped
  <1>9. CASE UNCHANGED playerVars
    BY <1>9 DEF playerVars, PlayersTyped, PlacesAgree, Pool
  <1>10. QED
    BY <1>1, <1>2, <1>3, <1>4, <1>5, <1>6, <1>7, <1>8, <1>9
       DEF Next, Create, Complete, Requeue, Scan, ScanFails, EmptyMatch, vars, playerVars

\* Nobody is picked past a player with the same score who came before him.
LEMMA PickInOrder ==
  ASSUME PlayersInv, NEW lo, NEW hi, NEW pair \in FirstTwo(lo, hi), Pick(pair),
         NEW p \in Players, NEW q \in Players,
         <<p, q>> \in earlier, score[p] = score[q], place'[q] = "picked"
  PROVE  place'[p] # "pool"
  <1>1. p \in Pool /\ q \in Pool
    BY DEF PlayersInv, PlacesAgree
  <1>2. \A r \in Players : place'[r] = IF r \in pair THEN "picked" ELSE place[r]
    BY DEF Pick, Move
  <1>3. q \in pair
    BY <1>1, <1>2 DEF Pool
  <1>4. p \in Reach(lo, hi)
    BY <1>1, <1>3, FoundArePooled DEF Reach
  <1>5. Ahead(p, q)
    BY DEF Ahead
  <1>6. p \in pair
    BY <1>3, <1>4, <1>5, FoundArePooled
  <1>7. QED BY <1>2, <1>6

LEMMA StepInOrder ==
  ASSUME PlayersInv, [Next]_vars, NEW p \in Players, NEW q \in Players,
         <<p, q>> \in earlier, score[p] = score[q], place'[q] = "picked"
  PROVE  place'[p] # "pool"
  <1>1. place[q] = "pool"
    BY DEF PlayersInv, PlacesAgree, Pool
  <1>2. \E lo, hi : \E pair \in FirstTwo(lo, hi) : Pick(pair)
    <2>1. place' # place
      BY <1>1
    <2>2. ASSUME NEW r \in Players, NEW x \in Scores, CreateTicket(r, x)
          PROVE  FALSE
      BY <1>1, <2>2 DEF CreateTicket, Move
    <2>3. ASSUME NEW r \in Players,
                 AddPlayerToPool(r) \/ RollbackCreate(r) \/ LeaveQueue(r)
          PROVE  FALSE
      BY <1>1, <2>3 DEF AddPlayerToPool, RollbackCreate, LeaveQueue, Move
    <2>4. ASSUME NEW pair \in pairs, CompleteMatch(pair)
          PROVE  FALSE
      BY <1>1, <2>4 DEF CompleteMatch, Move
    <2>5. ASSUME NEW pair \in pairs, NEW queued \in SUBSET pair,
                 RequeueMatchTicketPlayers(pair, queued)
          PROVE  FALSE
      BY <1>1, <2>5 DEF RequeueMatchTicketPlayers
    <2>6. ASSUME NEW r \in Players, TryCompleteMatch(r)
          PROVE  \E lo, hi : \E pair \in FirstTwo(lo, hi) : Pick(pair)
      BY <2>1, <2>6 DEF TryCompleteMatch
    <2>7. ASSUME NEW b \in Buckets, MatchInBucket(b) \/ EmptyMatch(b) \/ ScanFails
          PROVE  \E lo, hi : \E pair \in FirstTwo(lo, hi) : Pick(pair)
      BY <2>1, <2>7 DEF MatchInBucket, EmptyMatch, ScanFails, playerVars
    <2>8. ~ScanFails /\ ~UNCHANGED vars
      BY <2>1 DEF ScanFails, vars, playerVars
    <2>9. QED
      BY <2>2, <2>3, <2>4, <2>5, <2>6, <2>7, <2>8
         DEF Next, Create, Complete, Requeue, Scan
  <1>3. QED BY <1>2, PickInOrder

-----------------------------------------------------------------------------
(* Scans find two whenever two are in reach.  For this the composite scores *)
(* have to be ordered like numbers, and the pool has to be finite.          *)

\* The times in the pool are ordered like numbers: nobody is before himself,
\* what is before the earlier is before the later, and who is between two that
\* differ differs from one of them.
TimesOrdered ==
  /\ \A p \in Pool : <<p, p>> \notin earlier
  /\ \A p, q, r \in Pool :
       <<p, q>> \in earlier /\ <<q, r>> \in earlier => <<p, r>> \in earlier
  /\ \A p, q, r \in Pool :
       <<p, r>> \in earlier => <<p, q>> \in earlier \/ <<q, r>> \in earlier

\* The players who take part.  Players may be infinite; only finitely many of
\* them have come by any moment.
Present == {p \in Players : place[p] # "away"}

OrderInv == PlayersInv /\ TimesOrdered /\ IsFiniteSet(Present)

\* Apart from AddPlayerToPool, steps only take members out of the pool, and do
\* not change the times of those who stay.
PoolShrinks ==
  /\ Pool' \subseteq Pool
  /\ \A p, q \in Pool' : <<p, q>> \in earlier' <=> <<p, q>> \in earlier

LEMMA PickShrinksPool ==
  ASSUME NEW pair, Pick(pair)
  PROVE  PoolShrinks
  <1>1. Pool' = Pool \ pair
    BY DEF Pick, Move, Pool
  <1>2. QED BY <1>1 DEF Pick, Forget, PoolShrinks

LEMMA StepOnPool ==
  ASSUME PlayersInv, [Next]_vars
  PROVE  PoolShrinks \/ \E p \in Players : AddPlayerToPool(p)
  <1>1. ASSUME NEW p \in Players, NEW x \in Scores, CreateTicket(p, x)
        PROVE  PoolShrinks
    BY <1>1 DEF CreateTicket, Move, Pool, PoolShrinks
  <1>2. ASSUME NEW p \in Players, RollbackCreate(p)
        PROVE  PoolShrinks
    BY <1>2 DEF RollbackCreate, Move, Pool, PoolShrinks
  <1>3. ASSUME NEW p \in Players, TryCompleteMatch(p)
        PROVE  PoolShrinks
    <2>1. CASE UNCHANGED <<place, earlier, pairs>>
      BY <2>1 DEF Pool, PoolShrinks
    <2>2. QED BY <1>3, <2>1, PickShrinksPool DEF TryCompleteMatch
  <1>4. ASSUME NEW p \in Players, LeaveQueue(p)
        PROVE  PoolShrinks
    <2>1. Pool' = Pool \ {p}
      BY <1>4 DEF LeaveQueue, Move, Pool
    <2>2. QED BY <1>4, <2>1 DEF LeaveQueue, Forget, PoolShrinks
  <1>5. ASSUME NEW pair \in pairs, CompleteMatch(pair)
        PROVE  PoolShrinks
    BY <1>5 DEF CompleteMatch, Move, Pool, PoolShrinks
  <1>6. ASSUME NEW pair \in pairs, NEW queued \in SUBSET pair,
               RequeueMatchTicketPlayers(pair, queued)
        PROVE  PoolShrinks
    BY <1>6 DEF RequeueMatchTicketPlayers, Pool, PoolShrinks
  <1>7. ASSUME NEW b \in Buckets, MatchInBucket(b)
        PROVE  PoolShrinks
    BY <1>7, PickShrinksPool DEF MatchInBucket
  <1>8. CASE UNCHANGED playerVars
    BY <1>8 DEF playerVars, Pool, PoolShrinks
  <1>9. QED
    BY <1>1, <1>2, <1>3, <1>4, <1>5, <1>6, <1>7, <1>8
       DEF Next, Create, Complete, Requeue, Scan, ScanFails, EmptyMatch, vars, playerVars

\* Whoever is added comes after everybody, or ties with the latest.
LEMMA AddKeepsOrder ==
  ASSUME PlayersInv, TimesOrdered, NEW p \in Players, AddPlayerToPool(p)
  PROVE  TimesOrdered'
  <1>1. Pool' = Pool \cup {p} /\ p \notin Pool
    BY DEF AddPlayerToPool, Move, Pool
  <1>2. earlier \subseteq Pool \X Pool
    BY DEF PlayersInv, PlacesAgree
  <1>3. CASE earlier' = earlier \cup {<<q, p>> : q \in Pool}
    <2>1. \A q, r : <<q, r>> \in earlier' <=>
                      \/ <<q, r>> \in earlier
                      \/ q \in Pool /\ r = p
      BY <1>3
    <2>2. QED BY <1>1, <1>2, <2>1 DEF TimesOrdered
  <1>4. CASE earlier' = earlier \cup
               {<<q, p>> : q \in {r \in Pool : \E s \in Pool : <<r, s>> \in earlier}}
    <2>1. \A q, r : <<q, r>> \in earlier' <=>
                      \/ <<q, r>> \in earlier
                      \/ r = p /\ q \in Pool /\ \E s \in Pool : <<q, s>> \in earlier
      BY <1>4
    <2>2. \A q \in Pool' : <<q, q>> \notin earlier'
      BY <1>1, <1>2, <2>1 DEF TimesOrdered
    <2>3. \A q, r, s \in Pool' :
            <<q, r>> \in earlier' /\ <<r, s>> \in earlier' => <<q, s>> \in earlier'
      BY <1>1, <1>2, <2>1 DEF TimesOrdered
    <2>4. ASSUME NEW q \in Pool', NEW r \in Pool', NEW s \in Pool',
                 <<q, s>> \in earlier'
          PROVE  <<q, r>> \in earlier' \/ <<r, s>> \in earlier'
      <3>1. q \in Pool /\ \E t \in Pool : <<q, t>> \in earlier
        <4>1. \A u, v : <<u, v>> \in earlier => u \in Pool /\ v \in Pool
          BY <1>2
        <4>2. QED BY <2>1, <2>4, <4>1
      <3>2. CASE r = p
        BY <2>1, <3>1, <3>2
      <3>3. CASE r # p /\ s = p
        <4>1. PICK t \in Pool : <<q, t>> \in earlier
          BY <3>1
        <4>2. <<q, r>> \in earlier \/ <<r, t>> \in earlier
          BY <1>1, <3>1, <3>3, <4>1 DEF TimesOrdered
        <4>3. QED BY <1>1, <2>1, <3>3, <4>2
      <3>4. CASE r # p /\ s # p
        <4>1. q \in Pool /\ r \in Pool /\ s \in Pool /\ <<q, s>> \in earlier
          BY <1>1, <2>1, <2>4, <3>1, <3>4
        <4>2. QED BY <2>1, <4>1 DEF TimesOrdered
      <3>5. QED BY <3>2, <3>3, <3>4
    <2>5. QED BY <2>2, <2>3, <2>4 DEF TimesOrdered
  <1>5. QED BY <1>3, <1>4 DEF AddPlayerToPool

\* At most one player more is present after a step.
LEMMA OneMorePresent ==
  ASSUME PlayersInv, [Next]_vars
  PROVE  \/ Present' \subseteq Present
         \/ \E p \in Players : Present' \subseteq Present \cup {p}
  <1>1. ASSUME NEW p \in Players, NEW x \in Scores, CreateTicket(p, x)
        PROVE  Present' \subseteq Present \cup {p}
    BY <1>1 DEF CreateTicket, Move, Present
  <1>2. ASSUME NEW p \in Players,
               AddPlayerToPool(p) \/ RollbackCreate(p) \/ LeaveQueue(p)
        PROVE  Present' \subseteq Present
    BY <1>2 DEF AddPlayerToPool, RollbackCreate, LeaveQueue, Move, Present
  <1>3. ASSUME NEW pair \in SUBSET Pool, Pick(pair)
        PROVE  Present' \subseteq Present
    BY <1>3 DEF Pick, Move, Present, Pool
  <1>4. ASSUME NEW p \in Players, TryCompleteMatch(p)
        PROVE  Present' \subseteq Present
    <2>1. CASE UNCHANGED <<place, earlier, pairs>>
      BY <2>1 DEF Present
    <2>2. QED BY <1>3, <1>4, <2>1, FoundArePooled DEF TryCompleteMatch
  <1>5. ASSUME NEW pair \in pairs, CompleteMatch(pair)
        PROVE  Present' \subseteq Present
    BY <1>5 DEF CompleteMatch, Move, Present
  <1>6. ASSUME NEW pair \in pairs, NEW queued \in SUBSET pair,
               RequeueMatchTicketPlayers(pair, queued)
        PROVE  Present' \subseteq Present
    <2>1. \A p \in pair : p \in Present
      BY DEF PlayersInv, PlayersTyped, PlacesAgree, Present
    <2>2. QED BY <1>6, <2>1 DEF RequeueMatchTicketPlayers, Present
  <1>7. ASSUME NEW b \in Buckets, MatchInBucket(b)
        PROVE  Present' \subseteq Present
    BY <1>3, <1>7, FoundArePooled DEF MatchInBucket
  <1>8. CASE UNCHANGED playerVars
    BY <1>8 DEF playerVars, Present
  <1>9. QED
    BY <1>1, <1>2, <1>4, <1>5, <1>6, <1>7, <1>8
       DEF Next, Create, Complete, Requeue, Scan, ScanFails, EmptyMatch, vars, playerVars

LEMMA OrderInit ==
  ASSUME Init
  PROVE  OrderInv
  <1>1. Present = {}
    BY DEF Init, Present
  <1>2. Pool = {}
    BY DEF Init, Pool
  <1>3. QED BY <1>1, <1>2, PlayersInit, FS_EmptySet DEF OrderInv, TimesOrdered

LEMMA OrderNext ==
  ASSUME OrderInv, [Next]_vars
  PROVE  OrderInv'
  <1>1. PlayersInv'
    BY PlayersNext DEF OrderInv
  <1>2. TimesOrdered'
    <2>1. CASE PoolShrinks
      BY <2>1 DEF PoolShrinks, TimesOrdered, OrderInv
    <2>2. QED BY <2>1, StepOnPool, AddKeepsOrder DEF OrderInv
  <1>3. IsFiniteSet(Present')
    <2>1. \/ Present' \subseteq Present
          \/ \E p \in Players : Present' \subseteq Present \cup {p}
      BY OneMorePresent DEF OrderInv
    <2>2. \A p : IsFiniteSet(Present \cup {p})
      BY FS_AddElement DEF OrderInv
    <2>3. QED BY <2>1, <2>2, FS_Subset DEF OrderInv
  <1>4. QED BY <1>1, <1>2, <1>3 DEF OrderInv

\* By score and then by time, members of the pool are ordered strictly.
LEMMA AheadIsStrict ==
  ASSUME OrderInv
  PROVE  /\ \A p \in Pool : ~Ahead(p, p)
         /\ \A p, q, r \in Pool : Ahead(p, q) /\ Ahead(q, r) => Ahead(p, r)
  <1>1. \A p \in Pool : score[p] \in Int
    BY ScoreAssumption DEF OrderInv, PlayersInv, PlayersTyped, Pool
  <1>2. QED BY <1>1 DEF Ahead, OrderInv, TimesOrdered

\* Among finitely many there is one whom nobody is ahead of: the one with the
\* smallest set of players ahead.
LEMMA SomebodyIsFirst ==
  ASSUME OrderInv, NEW R \in SUBSET Pool, R # {}
  PROVE  \E p \in R : \A q \in R : ~Ahead(q, p)
  <1> DEFINE Before(p) == {q \in R : Ahead(q, p)}
             T == {Before(p) : p \in R}
             Order == StrictSubsetOrdering(R)
  <1>1. IsFiniteSet(R)
    <2>1. R \in SUBSET Present
      BY DEF Pool, Present
    <2>2. QED BY <2>1, FS_Subset DEF OrderInv
  <1>2. T \subseteq FiniteSubsetsOf(R) /\ T # {}
    <2>1. \A p \in R : Before(p) \in SUBSET R
      OBVIOUS
    <2>2. \A p \in R : IsFiniteSet(Before(p))
      BY <1>1, <2>1, FS_Subset
    <2>3. QED BY <2>1, <2>2 DEF FiniteSubsetsOf
  <1>3. IsWellFoundedOn(Order, FiniteSubsetsOf(R))
    BY FS_StrictSubsetOrderingWellFounded
  <1> HIDE DEF T, Order
  <1>4. PICK B \in T : \A C \in T : <<C, B>> \notin Order
    BY <1>2, <1>3, WFMin
  <1>5. PICK p \in R : B = Before(p)
    BY <1>4 DEF T
  <1>6. ASSUME NEW q \in R, Ahead(q, p)
        PROVE  FALSE
    <2>1. Before(q) \subseteq Before(p)
      BY <1>6, AheadIsStrict
    <2>2. q \in Before(p) /\ q \notin Before(q)
      BY <1>6, AheadIsStrict
    <2>3. <<Before(q), Before(p)>> \in Order
      <3>1. Before(q) \in SUBSET R /\ Before(p) \in SUBSET R
        OBVIOUS
      <3> HIDE DEF Before
      <3>2. QED BY <2>1, <2>2, <3>1 DEF Order, StrictSubsetOrdering
    <2>4. Before(q) \in T
      BY DEF T
    <2>5. QED BY <1>4, <1>5, <2>3, <2>4
  <1>7. QED BY <1>6

\* A search finds a pair exactly when two players are in its window.
TwoIn(R) == \E p, q \in R : p # q

SearchFindsTwo ==
  \A lo, hi \in Int : FirstTwo(lo, hi) # {} <=> TwoIn(Reach(lo, hi))

LEMMA TwoAreFound ==
  ASSUME OrderInv, NEW lo \in Int, NEW hi \in Int
  PROVE  FirstTwo(lo, hi) # {} <=> TwoIn(Reach(lo, hi))
  <1> DEFINE R == Reach(lo, hi)
  <1>1. R \in SUBSET Pool
    BY DEF Reach
  <1>2. ASSUME TwoIn(R)
        PROVE  FirstTwo(lo, hi) # {}
    <2>1. PICK p \in R : \A q \in R : ~Ahead(q, p)
      BY <1>1, <1>2, SomebodyIsFirst DEF TwoIn
    <2>2. R \ {p} # {} /\ R \ {p} \in SUBSET Pool
      BY <1>1, <1>2 DEF TwoIn
    <2>3. PICK q \in R \ {p} : \A r \in R \ {p} : ~Ahead(r, q)
      BY <2>2, SomebodyIsFirst
    <2>4. {p, q} \in FirstTwo(lo, hi)
      BY <2>1, <2>3 DEF FirstTwo
    <2>5. QED BY <2>4
  <1>3. FirstTwo(lo, hi) # {} => TwoIn(R)
    BY FoundArePooled DEF FirstTwo, TwoIn
  <1>4. QED BY <1>2, <1>3

-----------------------------------------------------------------------------
(* Widening.                                                               *)

FullyWidened(b) == low[b] = 0 /\ high[b] = MaxScore

\* How far bucket b has widened: every empty scan counts, until the window is
\* full, and one more step of the window more than the scans that led to it.
Widening(b) ==
  (high[b] - low[b]) * ExpandThreshold + (IF FullyWidened(b) THEN 0 ELSE empty[b])

\* A window that has reached both bounds contains every score from 0 to below
\* MaxScore, if MaxScore is even as 10000 is: AtomicMatchScript gets the centre
\* and the half width, both rounded down, and an odd MaxScore would lose one.
LEMMA FullReach ==
  ASSUME OrderInv, Windows, NEW b \in Buckets, FullyWidened(b), MaxScore % 2 = 0
  PROVE  Reach(low[b], high[b]) = {p \in Players : Waiting(p)}
  <1>1. /\ MaxScore \in Nat
        /\ 2 * (MaxScore \div 2) = MaxScore /\ MaxScore \div 2 \in Nat
    BY BucketAssumption
  <1>2. /\ Center(low[b], high[b]) = MaxScore \div 2
        /\ Delta(low[b], high[b]) = MaxScore \div 2
    BY <1>1 DEF FullyWidened, Center, Delta, Quotient
  <1>3. \A p \in Players : score[p] \in Int
    BY ScoreAssumption DEF OrderInv, PlayersInv, PlayersTyped
  <1> DEFINE half == MaxScore \div 2
  <1> HIDE DEF half
  <1>4. /\ half - half = 0 /\ half + half = MaxScore
    BY <1>1 DEF half
  <1>5. /\ Center(low[b], high[b]) - Delta(low[b], high[b]) = 0
        /\ Center(low[b], high[b]) + Delta(low[b], high[b]) = MaxScore
    BY <1>2, <1>4 DEF half
  <1>6. QED BY <1>3, <1>5 DEF Reach, Pool, Waiting

\* No scan of a fully widened window leaves two players waiting.
LEMMA FullWindowFinds ==
  ASSUME OrderInv, Windows, NEW b \in Buckets, FullyWidened(b), MaxScore % 2 = 0,
         EmptyMatch(b)
  PROVE  ~TwoWait
  <1>1. low[b] \in Int /\ high[b] \in Int
    BY BucketAssumption DEF Windows
  <1>2. ~TwoIn(Reach(low[b], high[b]))
    BY <1>1, TwoAreFound DEF EmptyMatch
  <1>3. QED BY <1>2, FullReach DEF TwoIn, TwoWait

\* One step more of a window that is not full makes it wider.
LEMMA StepWidens ==
  ASSUME Windows, NEW b \in Buckets, ~FullyWidened(b), expandBucketRange(b)
  PROVE  /\ low'[b] \in 0 .. MaxScore /\ high'[b] \in 0 .. MaxScore
         /\ high'[b] - low'[b] >= high[b] - low[b] + 1
  <1>1. /\ low[b] \in 0 .. MaxScore /\ high[b] \in 0 .. MaxScore
        /\ MaxScore \in Nat /\ ExpandStep \in Nat \ {0}
    BY BucketAssumption DEF Windows
  <1>2. /\ low'[b] = AtLeastZero(low[b] - ExpandStep)
        /\ high'[b] = AtMostMaxScore(high[b] + ExpandStep)
    BY DEF expandBucketRange, Windows
  <1>3. QED BY <1>1, <1>2 DEF FullyWidened, AtLeastZero, AtMostMaxScore

LEMMA EmptyScanWidens ==
  ASSUME Windows, NEW b \in Buckets, ~FullyWidened(b), EmptyMatch(b)
  PROVE  Widening(b)' > Widening(b)
  <1>1. /\ low[b] \in 0 .. MaxScore /\ high[b] \in 0 .. MaxScore
        /\ MaxScore \in Nat /\ ExpandThreshold \in Nat \ {0}
        /\ empty[b] \in 0 .. ExpandThreshold - 1
    BY BucketAssumption DEF Windows
  <1>2. CASE expandBucketRange(b)
    <2> DEFINE w == high[b] - low[b]
               v == high'[b] - low'[b]
    <2>1. w \in Int /\ v \in Int /\ v >= w + 1
      BY <1>1, <1>2, StepWidens
    <2>2. empty'[b] = 0
      BY <1>2 DEF expandBucketRange, Windows
    <2> HIDE DEF w, v
    <2>3. /\ v * ExpandThreshold >= w * ExpandThreshold + ExpandThreshold
          /\ w * ExpandThreshold \in Int /\ v * ExpandThreshold \in Int
      <3>1. v = w + 1 + (v - w - 1) /\ v - w - 1 \in Nat
        BY <2>1
      <3>2. /\ v * ExpandThreshold
                 = w * ExpandThreshold + ExpandThreshold + (v - w - 1) * ExpandThreshold
            /\ (v - w - 1) * ExpandThreshold >= 0
        BY <1>1, <2>1, <3>1
      <3>3. QED BY <1>1, <2>1, <3>2
    <2>4. v * ExpandThreshold + 0 > w * ExpandThreshold + empty[b]
      BY <1>1, <2>3
    <2>5. Widening(b)' = v * ExpandThreshold + 0
      BY <1>1, <2>1, <2>2, <2>3 DEF Widening, v
    <2>6. QED BY <2>4, <2>5 DEF Widening, w
  <1>3. CASE /\ empty' = [empty EXCEPT ![b] = empty[b] + 1]
             /\ UNCHANGED <<low, high>>
    <2>1. empty'[b] = empty[b] + 1
      BY <1>3 DEF Windows
    <2>2. Widening(b)' = (high[b] - low[b]) * ExpandThreshold + empty[b] + 1
      BY <1>1, <1>3, <2>1 DEF Widening, FullyWidened
    <2>3. QED BY <1>1, <2>2 DEF Widening
  <1>4. QED BY <1>2, <1>3 DEF EmptyMatch

LEMMA WideningBounded ==
  ASSUME Windows, NEW b \in Buckets
  PROVE  Widening(b) \in 0 .. MaxScore * ExpandThreshold
  <1>1. /\ low[b] \in 0 .. MaxScore /\ high[b] \in 0 .. MaxScore
        /\ MaxScore \in Nat /\ ExpandThreshold \in Nat \ {0} /\ ExpandStep \in Nat
        /\ empty[b] \in 0 .. ExpandThreshold - 1
    BY BucketAssumption DEF Windows
  <1>2. low[b] <= high[b]
    <2>1. PICK k \in 0 .. MaxScore : Grown(b, k)
      BY DEF Windows, GrowsEvenly
    <2> DEFINE w == k * ExpandStep
    <2>2. w \in Nat
      BY <1>1
    <2> HIDE DEF w
    <2>3. /\ low[b] = AtLeastZero(Base[b][1] - w)
          /\ high[b] = AtMostMaxScore(Base[b][2] + w)
      BY <2>1 DEF Grown, w
    <2>4. QED BY <1>1, <2>2, <2>3, BaseRange DEF AtLeastZero, AtMostMaxScore
  <1> DEFINE room == MaxScore - (high[b] - low[b])
             wide == high[b] - low[b]
  <1>3. /\ room \in Nat /\ wide \in Nat /\ room + wide = MaxScore
        /\ FullyWidened(b) <=> room = 0
    BY <1>1, <1>2 DEF FullyWidened
  <1> HIDE DEF room, wide
  <1>4. /\ MaxScore * ExpandThreshold = room * ExpandThreshold + wide * ExpandThreshold
        /\ wide * ExpandThreshold \in Nat
        /\ room * ExpandThreshold \in Nat
        /\ room # 0 => room * ExpandThreshold >= ExpandThreshold
    <2>1. room # 0 => room * ExpandThreshold >= ExpandThreshold
      <3>1. CASE room # 0
        <4>1. room = 1 + (room - 1) /\ room - 1 \in Nat
          BY <1>3, <3>1
        <4>2. /\ room * ExpandThreshold = ExpandThreshold + (room - 1) * ExpandThreshold
              /\ (room - 1) * ExpandThreshold \in Nat
          BY <1>1, <4>1
        <4>3. QED BY <1>1, <4>2
      <3>2. QED BY <3>1
    <2>2. QED BY <1>1, <1>3, <2>1
  <1>5. Widening(b) = wide * ExpandThreshold + (IF room = 0 THEN 0 ELSE empty[b])
    BY <1>3 DEF Widening, wide
  <1>6. QED BY <1>1, <1>3, <1>4, <1>5

\* A window that is full stays so until the next match.
LEMMA FullStaysFull ==
  ASSUME Windows, NEW b \in Buckets, FullyWidened(b), EmptyMatch(b)
  PROVE  FullyWidened(b)'
  <1>1. MaxScore \in Nat /\ ExpandStep \in Nat
    BY BucketAssumption
  <1>2. QED
    BY <1>1 DEF Windows, FullyWidened, EmptyMatch, expandBucketRange, AtLeastZero,
                AtMostMaxScore

\* Nothing but a match narrows a window.
LEMMA OnlyMatchNarrows ==
  ASSUME Windows, [Next]_vars, NEW b \in Buckets, ~MatchInBucket(b)
  PROVE  Widening(b)' >= Widening(b)
  <1>1. Widening(b) \in Int /\ Widening(b)' \in Int
    <2>1. Widening(b) \in Int
      BY WideningBounded
    <2>2. /\ ExpandThreshold \in Int
          /\ low'[b] \in Int /\ high'[b] \in Int /\ empty'[b] \in Int
      BY BucketAssumption, StepIsWindowStep, WindowsNext DEF Windows
    <2>3. (high'[b] - low'[b]) * ExpandThreshold \in Int
      BY <2>2
    <2>4. QED BY <2>1, <2>2, <2>3 DEF Widening
  <1>2. CASE UNCHANGED <<low, high, empty>>
    BY <1>1, <1>2 DEF Widening, FullyWidened
  <1>3. ASSUME NEW c \in Buckets, c # b, MatchInBucket(c) \/ EmptyMatch(c)
        PROVE  Widening(b)' >= Widening(b)
    <2>1. low'[b] = low[b] /\ high'[b] = high[b] /\ empty'[b] = empty[b]
      BY <1>3 DEF MatchInBucket, EmptyMatch, LowReset, expandBucketRange, Windows
    <2>2. QED BY <1>1, <2>1 DEF Widening, FullyWidened
  <1>4. ASSUME EmptyMatch(b)
        PROVE  Widening(b)' >= Widening(b)
    <2>1. CASE ~FullyWidened(b)
      BY <1>1, <1>4, <2>1, EmptyScanWidens
    <2>2. CASE FullyWidened(b)
      <3>1. FullyWidened(b)'
        BY <1>4, <2>2, FullStaysFull
      <3>2. QED BY <1>1, <2>2, <3>1 DEF Widening, FullyWidened
    <2>3. QED BY <2>1, <2>2
  <1>5. QED
    BY <1>2, <1>3, <1>4
       DEF Next, Create, Complete, Requeue, Scan, ScanFails, vars, bucketVars,
           CreateTicket, AddPlayerToPool, RollbackCreate, TryCompleteMatch, LeaveQueue,
           CompleteMatch, RequeueMatchTicketPlayers

-----------------------------------------------------------------------------
(* The queue.                                                              *)

\* Those who wait for a match or are about to.
Queued == {p \in Players : place[p] \in {"creating", "pool", "requeuing"}}

LEMMA PickTakesTwo ==
  ASSUME OrderInv, NEW lo, NEW hi, NEW pair \in FirstTwo(lo, hi), Pick(pair)
  PROVE  /\ Queued' \subseteq Queued
         /\ IsFiniteSet(Queued) /\ Cardinality(Queued') = Cardinality(Queued) - 2
  <1>1. PICK p \in pair, q \in pair : p # q /\ pair = {p, q}
    BY DEF FirstTwo
  <1>2. p \in Queued /\ q \in Queued
    BY <1>1, FoundArePooled DEF Pool, Queued
  <1>3. Queued' = (Queued \ {p}) \ {q}
    BY <1>1 DEF Pick, Move, Queued
  <1>4. IsFiniteSet(Queued)
    <2>1. Queued \in SUBSET Present
      BY DEF Queued, Present
    <2>2. QED BY <2>1, FS_Subset DEF OrderInv
  <1>5. /\ IsFiniteSet(Queued \ {p}) /\ Cardinality(Queued \ {p}) = Cardinality(Queued) - 1
        /\ Cardinality(Queued) \in Int
    BY <1>2, <1>4, FS_RemoveElement, FS_CardinalityType
  <1>6. Cardinality((Queued \ {p}) \ {q}) = Cardinality(Queued \ {p}) - 1
    BY <1>1, <1>2, <1>5, FS_RemoveElement
  <1>7. QED BY <1>3, <1>4, <1>5, <1>6

\* Without a new request or a requeue nobody joins the queue.
LEMMA NobodyJoins ==
  ASSUME OrderInv, [Next]_vars, ~Create, ~Requeue
  PROVE  Queued' \subseteq Queued
  <1>1. ASSUME NEW p \in Players,
               AddPlayerToPool(p) \/ RollbackCreate(p) \/ LeaveQueue(p)
        PROVE  Queued' \subseteq Queued
    BY <1>1 DEF AddPlayerToPool, RollbackCreate, LeaveQueue, Move, Queued
  <1>2. ASSUME NEW p \in Players, TryCompleteMatch(p)
        PROVE  Queued' \subseteq Queued
    <2>1. CASE UNCHANGED <<place, earlier, pairs>>
      BY <2>1 DEF Queued
    <2>2. QED BY <1>2, <2>1, PickTakesTwo DEF TryCompleteMatch
  <1>3. ASSUME NEW pair \in pairs, CompleteMatch(pair)
        PROVE  Queued' \subseteq Queued
    BY <1>3 DEF CompleteMatch, Move, Queued
  <1>4. ASSUME NEW b \in Buckets, MatchInBucket(b)
        PROVE  Queued' \subseteq Queued
    BY <1>4, PickTakesTwo DEF MatchInBucket
  <1>5. CASE UNCHANGED playerVars
    BY <1>5 DEF playerVars, Queued
  <1>6. QED
    BY <1>1, <1>2, <1>3, <1>4, <1>5
       DEF Next, Complete, Scan, ScanFails, EmptyMatch, vars, playerVars

\* A scan with two players waiting takes two out of the queue, or widens.
LEMMA ScanGetsOn ==
  ASSUME OrderInv, Windows, Scan, TwoWait, MaxScore % 2 = 0
  PROVE  \/ Cardinality(Queued') = Cardinality(Queued) - 2
         \/ \E b \in Buckets : Widening(b)' > Widening(b)
  <1>1. ASSUME NEW b \in Buckets, MatchInBucket(b)
        PROVE  Cardinality(Queued') = Cardinality(Queued) - 2
    BY <1>1, PickTakesTwo DEF MatchInBucket
  <1>2. ASSUME NEW b \in Buckets, EmptyMatch(b)
        PROVE  Widening(b)' > Widening(b)
    BY <1>2, FullWindowFinds, EmptyScanWidens
  <1>3. QED BY <1>1, <1>2 DEF Scan

-----------------------------------------------------------------------------
(* The theorems.                                                           *)

\* Whatever is found or not, and whichever scans fail, each window is its base
\* range widened evenly: expandBucketRange and the reset after a match keep it
\* so for any number of buckets of any size, any step and any threshold.
THEOREM WindowsGrowEvenly == Spec => []GrowsEvenly
  <1>1. Init => Windows
    BY WindowsInit
  <1>2. Windows /\ [Next]_vars => Windows'
    BY WindowsNext, StepIsWindowStep
  <1>3. Windows => GrowsEvenly
    BY DEF Windows
  <1>4. QED BY <1>1, <1>2, <1>3, PTL DEF Spec

\* Every reachable state is well typed, for any constants: no window leaves the
\* range of scores, and the counts of empty scans stay below the threshold.
THEOREM TypeCorrect == Spec => []TypeOK
  <1>1. Init => Windows /\ PlayersInv
    BY WindowsInit, PlayersInit
  <1>2. Windows /\ PlayersInv /\ [Next]_vars => Windows' /\ PlayersInv'
    BY WindowsNext, StepIsWindowStep, PlayersNext
  <1>3. Windows /\ PlayersInv => TypeOK
    BY DEF Windows, PlayersInv, PlayersTyped, TypeOK
  <1>4. QED BY <1>1, <1>2, <1>3, PTL DEF Spec

\* Searches by requests and by the worker never hold the same player twice,
\* for any number of players.
THEOREM PlacesAlwaysAgree == Spec => []PlacesAgree
  <1>1. Init => PlayersInv
    BY PlayersInit
  <1>2. PlayersInv /\ [Next]_vars => PlayersInv'
    BY PlayersNext
  <1>3. PlayersInv => PlacesAgree
    BY DEF PlayersInv
  <1>4. QED BY <1>1, <1>2, <1>3, PTL DEF Spec

\* Equal scores are served first come, first served, through any windows.
THEOREM ServedInOrder == Spec => SameScoreInOrder
  <1>1. Init => PlayersInv
    BY PlayersInit
  <1>2. PlayersInv /\ [Next]_vars => PlayersInv'
    BY PlayersNext
  <1>3. PlayersInv /\ [Next]_vars =>
          [\A p, q \in Players :
             /\ <<p, q>> \in earlier /\ score[p] = score[q]
             /\ place'[q] = "picked"
             => place'[p] # "pool"]_vars
    BY StepInOrder
  <1>4. QED BY <1>1, <1>2, <1>3, PTL DEF Spec, SameScoreInOrder

\* AtomicMatchScript's two lowest of a window are there whenever the window
\* holds two, for any number of players and any ties: a search that comes back
\* empty has seen at most one.  It needs the pool to be finite and its
\* composite scores to be ordered, which is proved with it.
THEOREM SearchesFindTwo == Spec => []SearchFindsTwo
  <1>1. OrderInv => SearchFindsTwo
    BY TwoAreFound DEF SearchFindsTwo
  <1>2. QED BY OrderInit, OrderNext, <1>1, PTL DEF Spec

\* Widening reaches everybody: when the scan of a window at both bounds is
\* empty, no two players with scores in range wait anywhere in the pool.
THEOREM FullWindowsMissNobody ==
  Spec => [][\A b \in Buckets :
               EmptyMatch(b) /\ FullyWidened(b) /\ MaxScore % 2 = 0 => ~TwoWait]_vars
  <1>1. Init => OrderInv /\ Windows
    BY OrderInit, WindowsInit
  <1>2. OrderInv /\ Windows /\ [Next]_vars => OrderInv' /\ Windows'
    BY OrderNext, WindowsNext, StepIsWindowStep
  <1>3. OrderInv /\ Windows =>
          \A b \in Buckets :
            EmptyMatch(b) /\ FullyWidened(b) /\ MaxScore % 2 = 0 => ~TwoWait
    BY FullWindowFinds
  <1>4. QED BY <1>1, <1>2, <1>3, PTL DEF Spec

\* What OnlyOneLeftWaiting rests on, without the fairness: every scan made
\* while two players wait takes two out of the queue or widens its window;
\* nothing but a match narrows a window; widening is bounded; and the queue
\* only grows by new requests and requeues.  So between two of those there are
\* at most as many such scans as the windows have steps left.
ScansGetOn ==
  /\ Scan /\ TwoWait /\ MaxScore % 2 = 0 =>
       \/ Cardinality(Queued') = Cardinality(Queued) - 2
       \/ \E b \in Buckets : Widening(b)' > Widening(b)
  /\ \A b \in Buckets :
       /\ Widening(b) \in 0 .. MaxScore * ExpandThreshold
       /\ ~MatchInBucket(b) => Widening(b)' >= Widening(b)
  /\ ~Create /\ ~Requeue => Queued' \subseteq Queued

\* Every step of the requests and the worker keeps to this, for any players,
\* buckets, scores, steps and thresholds.
THEOREM EveryScanGetsOn == Spec => [][ScansGetOn]_vars
  <1>1. Init => OrderInv /\ Windows
    BY OrderInit, WindowsInit
  <1>2. OrderInv /\ Windows /\ [Next]_vars => OrderInv' /\ Windows'
    BY OrderNext, WindowsNext, StepIsWindowStep
  <1>3. OrderInv /\ Windows /\ [Next]_vars => ScansGetOn
    BY ScanGetsOn, WideningBounded, OnlyMatchNarrows, NobodyJoins DEF ScansGetOn
  <1>4. QED BY <1>1, <1>2, <1>3, PTL DEF Spec
=============================================================================
