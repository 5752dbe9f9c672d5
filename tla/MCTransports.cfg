SPECIFICATION TransportFairSpec
CONSTANTS
  Peers = {p1}
  Acts = {a1, a2}
  Cap = 2
  ActCap = 1
  MaxEmitted = 4
  None = None
CHECK_DEADLOCK FALSE
INVARIANTS
  NoGap
  NobodyStranded
PROPERTIES
  EveryStopEnds
