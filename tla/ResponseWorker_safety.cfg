SPECIFICATION Spec
CONSTANTS
  Ips = {attacker, lab}
  NoIp = NoIp
  Safelist = {lab}
  Internal = {}
  Reserved = {}
  Sources = {abuseipdb, otx}
  R1MinTier = 2
  R2MinTier = 3
  MinSources = 2
  Settings <- AllSettings
  ExtendOnRepeat = TRUE
  BlockTtl = 2
  FirewallTtl = 2
  ReadCount = 2
  MaxLen = 2
  MaxDelay = 2
  MaxTasks = 2
  MaxFaults = 1
  MaxCrashes = 1
SYMMETRY SourceSymmetry
INVARIANTS
  TypeOK
  DropsJustified
  DropsRecorded
  KeysExplained
  AuditMatchesRequests
