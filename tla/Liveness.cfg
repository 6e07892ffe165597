SPECIFICATION FairSpec
CONSTANTS
  Players = {p1, p2}
  Tickets = {t1, t2}
  Matches = {m1}
  Requests = {r1}
  Worker = worker
  NoPlayer = noPlayer
  NoTicket = noTicket
  NoMatch = noMatch
  SweepLimit = 1
  Buckets = 1
  MaxStops = 1
  Env <- EnvUnreliable
PROPERTIES
  EveryTicketSettles
  EveryLockReleased
CHECK_DEADLOCK FALSE
