SPECIFICATION Spec
CONSTANTS
  Players = {p1, p2, p3}
  Tickets = {t1, t2, t3, t4}
  Matches = {m1, m2}
  Requests = {r1, r2}
  Worker = worker
  NoPlayer = noPlayer
  NoTicket = noTicket
  NoMatch = noMatch
  SweepLimit = 1
  Buckets = 1
  MaxStops = 0
  Env <- EnvNone
INVARIANTS
  TypeOK
  QueuedNotLost
  ExclusivePick
  OneQueuedTicketPerPlayer
PROPERTIES
  TerminalIsFinal
  MatchesLikeIdeal
SYMMETRY Symmetry
CHECK_DEADLOCK FALSE
