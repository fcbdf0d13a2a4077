SPECIFICATION LiveSpec
CONSTANTS
  a = a
  b = b
  packet = packet
  text = text
  status = status
  spoilt = spoilt
  Radios = {a, b}
  Messages = {packet, text, status}
  Msg <- OneWay
  MaxRetries = 2
  Half = 2
  AbSpace = 64
  MacRoom = 2
  QDepth = 2
  Spaced = TRUE
  MaxTrouble = 2
INVARIANTS
  TypeOK
  WaitsWatched
  CopiesCovered
PROPERTIES
  ImplementsService
  ExchangesEnd
CHECK_DEADLOCK FALSE
