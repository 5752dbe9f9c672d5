SPECIFICATION HotSpec
CONSTANTS
  m1 = m1
  m2 = m2
  m3 = m3
  r1 = r1
  r2 = r2
  t1 = t1
  t2 = t2
  ann = ann
  None = None
  Msgs <- MCMsgs
  Quotes <- MCQuotes
  Direct <- MCDirect
  RoomOf <- MCRoomOf
  TimeOf <- MCTimeOf
  SenderOf <- MCSenderOf
  Tasks = {t1, t2}
  Windows = {1, 2}
  QueueMax = 1
  MaxWork = 3
  MaxEnds = 2
SYMMETRY TaskSymmetry
VIEW WithoutSettled
CHECK_DEADLOCK FALSE
INVARIANTS
  IdMapAgrees
  MessageIndexesAgree
