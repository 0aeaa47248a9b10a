SPECIFICATION FairSpec
CONSTANTS
  a = a
  b = b
  NoPath = NoPath
  Paths = {a, b}
  Suspicious = {a, b}
  Allowed = {a}
  Flat <- OwnName
  MaxUploads = 2
  MaxRestores = 1
  MaxSeconds = 1
  MaxFaults = 1
  MaxCrashes = 1
  MaxTorn = 1
INVARIANTS
  TypeOK
  EvidenceRecoverable
  CasesBounded
PROPERTIES
  AlertsAreAnswered
