SPECIFICATION IdentitySpec
CONSTANTS
  Users = {u1, u2}
  Bots = {b1, b2}
  Callers = {c1, c2, c3}
  Size = 2
  Primary <- SamePrimary
  Profiles = {p}
  CacheMax = 1
  None = None
  Error = Error
  MaxCalls = 4
SYMMETRY Symmetric
VIEW WithoutTold
CHECK_DEADLOCK FALSE
INVARIANTS
  CachesAgree
  ConflictsAreCurrent
PROPERTIES
  AnswersAreCurrent
