CONSTANTS
  g = g  a1 = a1  a2 = a2   b1 = b1  b2 = b2   p = p  d = d  f = f
  None = None
  Block <- LineBlock
  Root = g
  Parent <- LineParent
  Conn = {p, f}
  TipOf <- LineTip
  VersionHeight <- AsTheyAre
  Honest = {f}
  Special = {f}
  Malformed = {}
  Alterable = {a2}
  Compact = TRUE
  MaxBlockAtOnce = 2
  MaxBlocksForward = 2
  MaxPeersBlocks = 2
  MaxGetdataForward = 1
  UintMax = 3
SPECIFICATION Spec
INVARIANT SlotsAreHeld
