SPECIFICATION TerminalFairSpec
CONSTANTS
  Terms = {t1, t2}
  Clients = {c1}
  MaxSessions = 1
  MaxOut = 2
  Batch = 2
  HistMax = 1
  QueueMax = 1
  MaxCloses = 1
  Nobody = Nobody
CHECK_DEADLOCK FALSE
INVARIANTS
  OutputIsWhole
PROPERTIES
  EveryoneLetGo
