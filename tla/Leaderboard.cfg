SPECIFICATION Spec
CONSTANTS
  Players = {1, 2}
  NoPlayer = 0
  Labels = {"global", "GLOBAL", "season", "a b"}
  Boards = {"global", "season"}
  Global = "global"
  Invalid = "invalid"
  Spelled <- MCSpelled
  Writes <- MCWrites
  Sizes = {1, 2}
  Requests = {r1, r2}
  NoWrite = noWrite
  NoScore = noScore
SYMMETRY Symmetry
INVARIANTS
  RowFollowsBoard
  AnsweredWritesStick
  SnapshotIsARanking
