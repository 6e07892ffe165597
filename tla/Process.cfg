SPECIFICATION FairSpec
CONSTANTS
  a = a
  b = b
  Processes = {a, b}
  NoProcess = noProcess
  Calls = {c}
  Config <- MCConfig
INVARIANTS
  CallsFindStores
  SchemaBeforeUse
  ExitCodeTells
  OneWorkerServes
PROPERTIES
  StartEnds
  SignalEndsProcess
CHECK_DEADLOCK FALSE
