SPECIFICATION Spec
CONSTANTS
  Tiers <- EveryTier
  QDepth = 1
  MaxStarts = 2
  MaxInits = 2
  MaxTrouble = 1
INVARIANTS
  TypeOK
  OnlyFailedLeaks
  WorkersMatch
  JoinsEnd
PROPERTIES
  CleanSlate
CHECK_DEADLOCK FALSE
