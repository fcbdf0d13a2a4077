SPECIFICATION Spec
CONSTANTS
  voice = voice
  data = data
  Clients = {voice, data}
  Modes <- AllPolite
  Bursts = {"data"}
  Quota <- Uneven
  MaxReq = 2
  Window = 1
  QDepth = 2
  IdleSrch = 1
  HoldoffMax = 1
  TxLmt = 2
  AllowCancel = FALSE
  MaxFaults = 0
INVARIANTS
  LbtArmed
PROPERTIES
  ImplementsService
