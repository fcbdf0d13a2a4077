SPECIFICATION LiveSpec
CONSTANTS
  voice = voice
  data = data
  Clients = {voice}
  Modes <- AllPolite
  Bursts = {"data", "voice"}
  Quota <- Alike
  MaxReq = 2
  Window = 1
  QDepth = 2
  IdleSrch = 1
  HoldoffMax = 4
  TxLmt = 4
  AllowCancel = FALSE
  MaxFaults = 0
PROPERTIES
  PoliteTx
  AbortOnlyAfterLimit
  LbtEnds
  PhyAnswers
