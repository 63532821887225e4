SPECIFICATION FairSpec
CONSTANTS
  Workers = 2
  PageSize = 1
  MaxMessages = 2
  MaxTroubles = 3
  None = None
INVARIANTS
  NothingSkipped
  PausedIsResumable
PROPERTIES
  ArrivalsAreIngested
CHECK_DEADLOCK FALSE
