SPECIFICATION Spec
CONSTANTS
  Bots = {b1, b2}
  Tasks = {t1, t2}
  Enc = {e1}
  Urls = {u1}
  MaxPub = 1
  MaxFiles = 2
  MaxTokens = 2
  MaxStarts = 2
  None = None
SYMMETRY MCSymmetry
CHECK_DEADLOCK FALSE
INVARIANTS
  IndexAgrees
  PostedOnce
  MembersAreServed
