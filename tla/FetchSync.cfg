CONSTANTS
  g = g  a1 = a1  a2 = a2   b1 = b1  b2 = b2   p = p  d = d  f = f
  None = None
  Block <- TallBlock
  Root = g
  Parent <- TallParent
  Conn = {p, d}
  TipOf <- TallTip
  VersionHeight <- Unversed
  Honest = {p}
  Special = {}
  Malformed = {b1}
  Alterable = {a1, a2}
  Compact = FALSE
  MaxBlockAtOnce = 2
  MaxBlocksForward = 2
  MaxPeersBlocks = 3
  MaxGetdataForward = 2
  UintMax = 9
SPECIFICATION FairSpec
INVARIANTS LowestIsLeast SlotsAreExact QueueIsConnected HonestStaysConnected
PROPERTY Synchronises
