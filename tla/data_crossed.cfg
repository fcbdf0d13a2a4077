SPECIFICATION LiveSpec
CONSTANTS
  a = a
  b = b
  packet = packet
  text = text
  status = status
  spoilt = spoilt
  Radios = {a, b}
  Messages = {packet, text}
  Msg <- Crossed
  MaxRetries = 1
  Half = 1
  AbSpace = 64
  MacRoom = 2
  QDepth = 2
  Spaced = FALSE
  MaxTrouble = 0
PROPERTY TransfersEnd
CHECK_DEADLOCK FALSE
