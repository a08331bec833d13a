SPECIFICATION Spec
CONSTANTS
  g = g
  s = s
  a1 = a1
  a2 = a2
  a3 = a3
  b1 = b1
  b2 = b2
  b3 = b3
  c2 = c2
  c3 = c3
  Block <- HeavyBlock
  Root = g
  Parent <- HeavyParent
  Work <- HeavyWork
  Bad = {}
  Malformed = {b3}
  Start <- SmallStart
  Tip = s
  MovingCheckpointDepth = 3
  HeadersFirst = TRUE
  MayFlush = FALSE
  SaveCommand = FALSE
  MaxCrash = 0
  None = None
CHECK_DEADLOCK FALSE
INVARIANTS MostWorkWins IndexMatchesTree NoPanic
