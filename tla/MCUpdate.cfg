SPECIFICATION FairSpec
CONSTANTS
  Paths = {code, deps}
  Code = code
  Versions = {1, 2}
  Image = 1
  Torn = Torn
  NoFile = NoFile
  Builds = {first, damaged}
  Valid = {first}
  Unlisted = Unlisted
  MaxFaults = 3
  MaxUpdates = 2
CHECK_DEADLOCK FALSE
INVARIANTS
  InstalledIsKnown
  DamageIsRecoverable
  CandidateIsListed
PROPERTIES
  ComesBack
