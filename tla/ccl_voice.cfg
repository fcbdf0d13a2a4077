SPECIFICATION LiveSpec
CONSTANTS
  Calls <- TheCalls
  Ours <- TheOurs
  MineGroup = "group"
  MineUnit = "unit"
  Presses <- BothKinds
  HasCallStart = TRUE
  MaxPress = 1
  MacRoom = 2
  MacOut <- Everything
  QDepth = 1
  Frames <- ShortSuperframe
INVARIANTS
  TypeOK
  WaitsWatched
  TailBounded
PROPERTIES
  SuperframesWhole
  TransmissionEnds
CHECK_DEADLOCK FALSE
