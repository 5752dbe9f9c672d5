SPECIFICATION FairSpec
CONSTANTS
  MaxAttempts = 2
  MaxRuntimes = 4
  MaxUpdates = 3
  MaxFailures = 2
CHECK_DEADLOCK FALSE
INVARIANTS
  NoGhost
  ServedAsRecorded
PROPERTIES
  RequestsEnd
