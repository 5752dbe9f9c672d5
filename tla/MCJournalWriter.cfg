SPECIFICATION FairSpec
CONSTANTS
  p1 = p1
  p2 = p2
  f1 = f1
  cl = cl
  Producers <- MCProducers
  Flushers <- OneFlusher
  Closer = cl
  QueueCapacity = 1
  FlushEvery = 2
  SnapshotEvery = 2
  ForceSize = 3
  MaxCoalesce = 2
  MaxMutations = 2
  MaxCrashes = 2
  MaxFailures = 1
CHECK_DEADLOCK FALSE
INVARIANTS
  InEnqueueOrder
  NothingForgotten
  FlushReachesDisk
PROPERTIES
  ImplementsDurableState
  CommandsAnswered
  EventuallyOnDisk
