SPECIFICATION LiveSpec
CONSTANTS
  a = a
  b = b
  Radios = {a, b}
  Di <- Same
  FirstId <- InOrder
  IdSpace = 4
  GenSpace = 4
  Tolerance = 1
  MaxRetries = 2
  Talkers = {}
  Foreign <- NoForeign
  NoLeaderTimer = 1
  BeaconInterval = 1
  SyncAgeWarning = 2
  SyncAge = 3
  SaPerTick = 1
  Patient = TRUE
  Prompt = TRUE
  MacRoom = 2
  QDepth = 2
  MaxTrouble = 2
PROPERTIES
  OneLeader
  Agreement
CHECK_DEADLOCK FALSE
