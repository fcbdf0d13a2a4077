SPECIFICATION Spec
CONSTANTS
  a = a
  b = b
  Radios = {a}
  Di <- Same
  FirstId <- InOrder
  IdSpace = 4
  GenSpace = 4
  Tolerance = 1
  MaxRetries = 2
  Talkers = {a}
  Foreign <- Neighbours
  NoLeaderTimer = 1
  BeaconInterval = 1
  SyncAgeWarning = 2
  SyncAge = 3
  SaPerTick = 1
  Patient = FALSE
  Prompt = FALSE
  MacRoom = 2
  QDepth = 2
  MaxTrouble = 2
INVARIANTS
  TypeOK
  LeaderBeacons
  PendingOnItsWay
PROPERTIES
  OnlyBetterLeader
CHECK_DEADLOCK FALSE
