SPECIFICATION FairSpec
CONSTANTS
  Players = {p1, p2, p3}
  Scores <- ScoresFar
  Base <- BaseTwo
  ExpandThreshold = 2
  ExpandStep = 5
  MaxScore = 10
  MatchDelta = 1
INVARIANTS
  TypeOK
  GrowsEvenly
PROPERTIES
  SameScoreInOrder
  OnlyOneLeftWaiting
