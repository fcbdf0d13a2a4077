SPECIFICATION Spec
CONSTANTS
  voice = voice
  data = data
  Clients = {voice, data}
  Modes <- Mixed
  Bursts = {"data"}
  Quota <- Alike
  MaxReq = 1
  Window = 1
  QDepth = 1
  IdleSrch = 1
  HoldoffMax = 1
  TxLmt = 2
  AllowCancel = TRUE
  MaxFaults = 1
INVARIANTS
  TypeOK
  OkTruthful
  PendingWatched
  DataNoticed
