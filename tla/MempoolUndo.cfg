CONSTANTS
  txP = txP  txC = txC  txR = txR  txQ = txQ  txW = txW  txX = txX  txB = txB
  coin1 = coin1  outP0 = outP0  outP1 = outP1  outP2 = outP2  outP9 = outP9  outC0 = outC0
  None = None  Mined = Mined
  Tx = {txP, txC, txW, txX, txB}
  Out <- FaultyOut
  OutTx <- FaultyOutTx
  Bogus = {outP9}
  Ins <- FaultyIns
  Fee <- FaultyFee
  Size <- FaultySize
  Final = {}
  Immature = {}
  TooBig = {txB}
  Overspend = {}
  WrongScript = {txW}
  Local = {}
  AllowMemInputs = TRUE
  MaxPoolSize = 0
  MaxRejectCnt = 2
  MaxRejectSize = 0
  MinMinFee = 0
  MaxReplaced = 100
  MaxQueue = 1
  MaxChain = 2
  MaxBlock = 2
  Undo = TRUE
  Race = FALSE
SPECIFICATION Spec
INVARIANT MemInputsAreExact
