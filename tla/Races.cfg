SPECIFICATION Spec
CONSTANTS
  Players = {p1, p2}
  Tickets = {t1, t2}
  Matches = {m1}
  Requests = {r1, r2}
  Worker = worker
  NoPlayer = noPlayer
  NoTicket = noTicket
  NoMatch = noMatch
  SweepLimit = 1
  Buckets = 1
  MaxStops = 1
  Env <- EnvShort
INVARIANTS
  QueuedIsIndexed
  LockOnlyForOpenTicket
  ResultIsAPairWithRoom
  MatchedHasResult
PROPERTY
  MatchesLikeLoose
SYMMETRY Symmetry
CHECK_DEADLOCK FALSE
