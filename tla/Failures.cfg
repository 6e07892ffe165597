SPECIFICATION RowsSpec
CONSTANTS
  Players = {p1, p2}
  Tickets = {t1, t2}
  Matches = {m1}
  Requests = {r1}
  Worker = worker
  NoPlayer = noPlayer
  NoTicket = noTicket
  NoMatch = noMatch
  SweepLimit = 1
  Buckets = 1
  MaxStops = 1
  Env <- EnvAll
INVARIANTS
  RowsFollowTickets
  MatchedRowsHaveResults
  RoomsAccountedFor
SYMMETRY Symmetry
CHECK_DEADLOCK FALSE
