SPECIFICATION LiveSpec
CONSTANTS
  Tier3 = FALSE
  Calls <- OneCall
  Air <- EveryClass
  MinGap = 1
  QDepth = 1
  Guard = 2
  SfGuard = 10
  Hangover = 10
  MaxMissed = 2
INVARIANTS
  TypeOK
  CallWatched
  LossesBounded
PROPERTIES
  GoneIsDefinitive
  SilenceEndsCalls
