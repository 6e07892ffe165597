---------------------------- MODULE MatchWindow ----------------------------
(***************************************************************************)
(* Which queued players a search reaches: the composite scores of the      *)
(* ticket pool, the search window of a request, and the windows that the   *)
(* MatchWorker widens bucket by bucket.  MatchTickets leaves all of this   *)
(* open; in turn, here a ticket is just queued or not, a picked pair is    *)
(* matched or put back, and locks, rooms and failing steps are left out.   *)
(*                                                                         *)
(* A member of the pool has the composite score mmr_score + t, where t is  *)
(* the time of AddPlayerToPool scaled to between 0 and 1.  So integers     *)
(* bound it as mmr_score <= composite < mmr_score + 1, and of equal scores *)
(* the earlier comes first.  Times that the floating-point sum cannot tell *)
(* apart (or that concurrent requests read in another order than they run  *)
(* their scripts) are ties, which Redis orders by player id.               *)
(***************************************************************************)
EXTENDS Integers, Sequences

CONSTANTS
  Players,
  Scores,           \* the mmr_scores of tickets
  Base,             \* the buckets' base ranges, a sequence of <<min, max>>
  ExpandThreshold,  \* of each bucket
  ExpandStep,
  MaxScore,         \* where expandBucketRange stops
  MatchDelta        \* defaultMatchDelta

Buckets == 1 .. Len(Base)

ASSUME ScoreAssumption == Scores \subseteq Int /\ Scores # {} /\ MatchDelta \in Nat
ASSUME BucketAssumption ==
  /\ Base \in Seq(Nat \X Nat) /\ Len(Base) > 0
  /\ MaxScore \in Nat
  /\ \A b \in Buckets : Base[b][1] <= Base[b][2] /\ Base[b][2] <= MaxScore
  /\ ExpandThreshold \in Nat \ {0} /\ ExpandStep \in Nat \ {0}

VARIABLES
  score,      \* the mmr_score of each player's last ticket
  place,      \* where he is: see Places
  earlier,    \* <<p, q>>: of the members p and q of the pool, p has the
              \* earlier time in his composite score
  asking,     \* players whose request has still to search for a match
  pairs,      \* the pairs picked and not yet matched or put back
  low, high,  \* CurrentMinScore and CurrentMaxScore of each bucket
  empty,      \* EmptyMatchCount of each bucket
  turn        \* the bucket that is scanned next

playerVars == <<score, place, earlier, asking, pairs>>
bucketVars == <<low, high, empty, turn>>
vars == <<playerVars, bucketVars>>

Places == {"away", "creating", "pool", "picked", "requeuing"}

TypeOK ==
  /\ score \in [Players -> Scores]
  /\ place \in [Players -> Places]
  /\ earlier \subseteq Players \X Players
  /\ asking \subseteq Players
  /\ pairs \subseteq SUBSET Players
  /\ low \in [Buckets -> 0 .. MaxScore]
  /\ high \in [Buckets -> 0 .. MaxScore]
  /\ empty \in [Buckets -> 0 .. ExpandThreshold - 1]
  /\ turn \in Buckets

Init ==
  /\ score \in [Players -> {CHOOSE x \in Scores : TRUE}]
  /\ place = [p \in Players |-> "away"]
  /\ earlier = {} /\ asking = {} /\ pairs = {}
  /\ low = [b \in Buckets |-> Base[b][1]]
  /\ high = [b \in Buckets |-> Base[b][2]]
  /\ empty = [b \in Buckets |-> 0]
  /\ turn = 1

Pool == {p \in Players : place[p] = "pool"}

-----------------------------------------------------------------------------
(* Slips: definitions below with one plausible bug each, for the mutants.  *)

SlipHalfWidth(lo, hi) == (hi - lo) \div 4         \* half of the half width
SlipIgnoreTime(p, q) == score[p] < score[q]       \* the score alone
SlipLift(x) == IF x < 0 THEN x + 1 ELSE x         \* not raised to the bound
SlipKeepLow(b) == low                             \* the minimum is not reset

-----------------------------------------------------------------------------
(* AtomicMatchScript, given the centre and the delta of a search window.   *)

Quotient(n, d) == IF n >= 0 THEN n \div d ELSE -((-n) \div d)
Center(lo, hi) == Quotient(lo + hi, 2)
Delta(lo, hi) == Quotient(hi - lo, 2)

Reach(lo, hi) ==
  {p \in Pool : /\ Center(lo, hi) - Delta(lo, hi) <= score[p]
                /\ score[p] < Center(lo, hi) + Delta(lo, hi)}

\* The composite score of p is less than that of q.
Ahead(p, q) == score[p] < score[q] \/ (score[p] = score[q] /\ <<p, q>> \in earlier)

\* The pairs with the two lowest composite scores in the window.
FirstTwo(lo, hi) ==
  LET R == Reach(lo, hi)
      First(pair) == \A p \in pair, r \in R \ pair : ~Ahead(r, p)
  IN {pair \in {{p, q} : p, q \in R} : (\E p, q \in pair : p # q) /\ First(pair)}

Move(S, to) == place' = [p \in Players |-> IF p \in S THEN to ELSE place[p]]
Forget(S) == earlier' = {e \in earlier : e[1] \notin S /\ e[2] \notin S}

Pick(pair) ==
  /\ Move(pair, "picked")
  /\ Forget(pair)
  /\ pairs' = pairs \cup {pair}

-----------------------------------------------------------------------------
(* Requests.                                                               *)

\* A ticket is created; at most one such request runs for each player.
CreateTicket(p, x) ==
  /\ place[p] = "away" /\ p \notin asking
  /\ score' = [score EXCEPT ![p] = x]
  /\ Move({p}, "creating")
  /\ asking' = asking \cup {p}
  /\ UNCHANGED <<earlier, pairs, bucketVars>>

\* Everybody in the pool is earlier, or the latest of them tie with p.
AddPlayerToPool(p) ==
  /\ place[p] \in {"creating", "requeuing"}
  /\ Move({p}, "pool")
  /\ \/ earlier' = earlier \cup {<<q, p>> : q \in Pool}
     \/ earlier' = earlier \cup
          {<<q, p>> : q \in {r \in Pool : \E s \in Pool : <<r, s>> \in earlier}}
  /\ UNCHANGED <<score, asking, pairs, bucketVars>>

\* A command of the creation failed and was rolled back.
RollbackCreate(p) ==
  /\ place[p] = "creating"
  /\ Move({p}, "away")
  /\ asking' = asking \ {p}
  /\ UNCHANGED <<score, earlier, pairs, bucketVars>>

\* The search of TryCompleteMatch, around the score of the new ticket.
TryCompleteMatch(p) ==
  /\ p \in asking /\ place[p] # "creating"
  /\ LET found == FirstTwo(score[p] - MatchDelta, score[p] + MatchDelta) IN
       IF found = {} THEN UNCHANGED <<place, earlier, pairs>>
                     ELSE \E pair \in found : Pick(pair)
  /\ asking' = asking \ {p}
  /\ UNCHANGED <<score, bucketVars>>

\* Cancelled or timed out; or a requeue failed.
LeaveQueue(p) ==
  /\ place[p] \in {"pool", "requeuing"}
  /\ Move({p}, "away")
  /\ Forget({p})
  /\ UNCHANGED <<score, asking, pairs, bucketVars>>

CompleteMatch(pair) ==
  /\ pair \in pairs
  /\ pairs' = pairs \ {pair}
  /\ Move(pair, "away")
  /\ UNCHANGED <<score, earlier, asking, bucketVars>>

\* No match came of it: those whose ticket is still queued are put back.
RequeueMatchTicketPlayers(pair, queued) ==
  /\ pair \in pairs
  /\ pairs' = pairs \ {pair}
  /\ place' = [p \in Players |-> IF p \in queued THEN "requeuing"
                                 ELSE IF p \in pair THEN "away" ELSE place[p]]
  /\ UNCHANGED <<score, earlier, asking, bucketVars>>

-----------------------------------------------------------------------------
(* The MatchWorker's scan of the next bucket.                              *)

NextBucket == turn' = IF turn = Len(Base) THEN 1 ELSE turn + 1

AtLeastZero(x) == IF x < 0 THEN 0 ELSE x
AtMostMaxScore(x) == IF x > MaxScore THEN MaxScore ELSE x

expandBucketRange(b) ==
  /\ low' = [low EXCEPT ![b] = AtLeastZero(low[b] - ExpandStep)]
  /\ high' = [high EXCEPT ![b] = AtMostMaxScore(high[b] + ExpandStep)]
  /\ empty' = [empty EXCEPT ![b] = 0]

LowReset(b) == [low EXCEPT ![b] = Base[b][1]]

MatchInBucket(b) ==
  /\ turn = b
  /\ NextBucket
  /\ \E pair \in FirstTwo(low[b], high[b]) : Pick(pair)
  /\ low' = LowReset(b)
  /\ high' = [high EXCEPT ![b] = Base[b][2]]
  /\ empty' = [empty EXCEPT ![b] = 0]
  /\ UNCHANGED <<score, asking>>

EmptyMatch(b) ==
  /\ turn = b
  /\ NextBucket
  /\ FirstTwo(low[b], high[b]) = {}
  /\ IF empty[b] + 1 >= ExpandThreshold
       THEN expandBucketRange(b)
       ELSE empty' = [empty EXCEPT ![b] = empty[b] + 1] /\ UNCHANGED <<low, high>>
  /\ UNCHANGED playerVars

\* The search returned an error; the window stays.
ScanFails ==
  /\ NextBucket
  /\ UNCHANGED <<playerVars, low, high, empty>>

Scan == \E b \in Buckets : MatchInBucket(b) \/ EmptyMatch(b)

-----------------------------------------------------------------------------
Create == \E p \in Players, x \in Scores : CreateTicket(p, x)
Requeue ==
  \E pair \in pairs : \E queued \in SUBSET pair :
    RequeueMatchTicketPlayers(pair, queued)
Complete == \E pair \in pairs : CompleteMatch(pair)

Next ==
  \/ Create \/ Complete \/ Requeue
  \/ \E p \in Players : \/ AddPlayerToPool(p) \/ RollbackCreate(p)
                        \/ TryCompleteMatch(p) \/ LeaveQueue(p)
  \/ Scan \/ ScanFails

Spec == Init /\ [][Next]_vars

\* Requests that have begun go on, and the worker keeps scanning.
Fairness ==
  /\ \A p \in Players : WF_vars(AddPlayerToPool(p) \/ TryCompleteMatch(p))
  /\ WF_vars(Complete \/ Requeue)
  /\ WF_vars(Scan)

FairSpec == Spec /\ Fairness

-----------------------------------------------------------------------------
(* Properties.                                                             *)

\* A window is its bucket's base range, moved outwards by the same number of
\* steps on both sides and cut off at 0 and MaxScore, after any sequence of
\* empty scans, failed scans and matches: it never loses part of its bucket
\* and never drifts.
Grown(b, k) ==
  /\ low[b] = AtLeastZero(Base[b][1] - k * ExpandStep)
  /\ high[b] = AtMostMaxScore(Base[b][2] + k * ExpandStep)

GrowsEvenly == \A b \in Buckets : \E k \in 0 .. MaxScore : Grown(b, k)

\* Everybody is in one place: pairs are disjoint, hold exactly the picked
\* players, and order is kept of members of the pool only.
PlacesAgree ==
  /\ \A p \in Players : place[p] = "picked" <=> \E pair \in pairs : p \in pair
  /\ \A P, Q \in pairs : P # Q => P \cap Q = {}
  /\ earlier \subseteq Pool \X Pool

\* Of two players with equal scores the one who was added earlier is not
\* left in the pool when the other is picked, by whichever window.
SameScoreInOrder ==
  [][\A p, q \in Players :
       /\ <<p, q>> \in earlier /\ score[p] = score[q]
       /\ place'[q] = "picked"
       => place'[p] # "pool"]_vars

\* When tickets stop coming and no pair is put back any more, at most one
\* player is left waiting in the end, however far apart the scores are and
\* whatever the windows were: widening reaches everybody.  (Scores below 0 or
\* from MaxScore on are in no window.)
Waiting(p) == place[p] = "pool" /\ 0 <= score[p] /\ score[p] < MaxScore
TwoWait == \E p, q \in Players : p # q /\ Waiting(p) /\ Waiting(q)

OnlyOneLeftWaiting ==
  <>[][~Create /\ ~Requeue]_vars => []<>~TwoWait
=============================================================================
