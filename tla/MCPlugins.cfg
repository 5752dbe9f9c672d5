SPECIFICATION Spec
CONSTANTS
  Plugins = {p1}
  Contexts = {c1, c2}
  Admins = {a1, a2}
  Workers = {w1, w2}
  Configs = {off, on1, on2}
  Off = off
  None = None
  Trip = 1
  MaxOps = 2
  MaxCalls = 3
SYMMETRY Symmetry
CHECK_DEADLOCK FALSE
INVARIANTS
  NothingLeftOver
  RunningMatchesFile
PROPERTIES
  CallsEnterLoaded
