SPECIFICATION LiveSpec
CONSTANTS
  Apps <- OneApp
  Dsts <- TwoDsts
  Wants <- OneEach
  MaxAttempts = 2
  QDepth = 1
  MaxReq = 2
  MaxCancels = 1
  MaxGrants = 1
INVARIANTS
  OpenWatched
  AttemptsBounded
PROPERTIES
  ImplementsService
  RequestsEnd
CHECK_DEADLOCK FALSE
