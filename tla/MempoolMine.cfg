CONSTANTS
  txP = txP  txC = txC  txR = txR  txQ = txQ  txW = txW  txX = txX  txB = txB
  coin1 = coin1  outP0 = outP0  outP1 = outP1  outP2 = outP2  outP9 = outP9  outC0 = outC0
  None = None  Mined = Mined
  Tx = {txP, txC, txR, txQ}
  Out <- FamilyOut
  OutTx <- FamilyOutTx
  Bogus = {}
  Ins <- FamilyIns
  Fee <- FamilyFee
  Size <- FamilySize
  Final = {}
  Immature = {}
  TooBig = {}
  Overspend = {}
  WrongScript = {}
  Local = {txC}
  AllowMemInputs = TRUE
  MaxPoolSize = 32
  MaxRejectCnt = 2
  MaxRejectSize = 16
  MinMinFee = 100
  MaxReplaced = 100
  MaxQueue = 1
  MaxChain = 2
  MaxBlock = 2
  Undo = FALSE
  Race = FALSE
SPECIFICATION Spec
INVARIANTS SpentIsExact InputsExist SizesAreExact WaitingIsExact NobodyWaitsInVain PendingIsQueued
