SPECIFICATION HostFairSpec
CONSTANTS
  Self = s1
  Servers = {s1}
  Modes = {x1}
  Matches = {m1}
  Handlers = {h1}
  Players = {p1, p2}
  Rooms = {r1}
  NoServer = noServer
  NoMode = noMode
  NoHandler = noHandler
  NoRoom = noRoom
  Absent = absent
  Capacities <- Cap12
  Slots = 1
  Env <- EnvAll
INVARIANTS
  HostTypeOK
  LoadWithinCapacity
  ServesOnlyRegistered
PROPERTIES
  LoadsConverge
  OverfullGoesStale
CHECK_DEADLOCK FALSE
