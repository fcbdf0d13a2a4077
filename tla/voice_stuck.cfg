SPECIFICATION LiveSpec
CONSTANTS
  Tier3 = FALSE
  Calls <- TheCalls
  Air <- LateEntry
  MinGap = 1
  QDepth = 2
  Guard = 2
  SfGuard = 10
  Hangover = 10
  MaxMissed = 2
  Ours <- TheCalls
  MineGroup = "group"
  MineUnit = "unit"
  Frames <- ShortSuperframe
  Presses <- Nobody
  HasCallStart = TRUE
  MaxPress = 0
  MacRoom = 1
PROPERTIES
  ReceptionEnds
CHECK_DEADLOCK FALSE
