SPECIFICATION Spec
CONSTANTS
  BotIds = {b1, b2}
  Reqs = {r1, r2}
  Passwords = {w1, w2}
  Ports = {p1, p2}
  Listen = {p2}
  Default = w1
  MaxOps = 3
  MaxFaults = 1
  None = None
SYMMETRY Symmetry
CHECK_DEADLOCK FALSE
INVARIANTS
  MemoryIsOnDisk
  SwitchKeepsPort
  TransportsFit
