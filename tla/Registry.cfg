SPECIFICATION Spec
CONSTANTS
  s1 = s1
  s2 = s2
  Servers = {s1, s2}
  Modes = {x1}
  Matches = {m1}
  Handlers = {h1}
  NoServer = noServer
  NoMode = noMode
  Capacities <- Cap12
  Slots = 1
  Env <- EnvUndrained
INVARIANTS
  AllocatableIsListed
  NoFalseRefusal
PROPERTIES
  LeastLoadedIsChosen
CHECK_DEADLOCK FALSE
