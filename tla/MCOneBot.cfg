SPECIFICATION FairSpec
CONSTANTS
  Targets = {t1, t2}
  WorkerMax = 2
  QueueMax = 1
  MaxRequests = 3
  SameTarget = 2
  MaxEvents = 1
  MaxSessions = 2
CHECK_DEADLOCK FALSE
INVARIANTS
  TargetInOrder
  ConnectionsAreApart
PROPERTIES
  AskersAreAnswered
  StopEnds
