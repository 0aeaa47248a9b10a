SPECIFICATION Spec
CONSTANTS
  a = a
  b = b
  NoPath = NoPath
  Paths = {a, b}
  Suspicious = {a, b}
  Allowed = {a, b}
  Flat <- SameName
  MaxUploads = 2
  MaxRestores = 0
  MaxSeconds = 1
  MaxFaults = 0
  MaxCrashes = 0
  MaxTorn = 0
INVARIANTS
  EvidenceKept
