SPECIFICATION Spec
CONSTANTS
  r1 = r1
  r2 = r2
  m1 = m1
  m2 = m2
  m3 = m3
  s1 = s1
  s2 = s2
  Rooms <- TwoRooms
  Messages <- Traffic
  RoomOf <- RoomOfIds
  Sealed <- SealedRooms
  Own <- OwnIds
  SkipOwn = TRUE
  Buckets <- TwoBuckets
  BucketOf <- BucketOfRooms
  Senders <- TwoSenders
  RoomFor <- ToFirst
  Worlds <- AllWorlds
  QueueMax = 2
  SeenMax = 2
  MaxAttempts = 2
  NoTask = NoTask
  NoId = NoId
  FirstRooms <- FirstOne
  MaxArrivals <- ArrivalsIn
  MaxBreaks = 2
  Parts <- PartsOf
  Modes <- ModesOf
CHECK_DEADLOCK FALSE
INVARIANTS
  RoomOrder
  AcceptedAreServed
  ForwardIsAccounted
  NoRepeat
