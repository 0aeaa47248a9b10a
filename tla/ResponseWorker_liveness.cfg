SPECIFICATION FairSpec
CONSTANTS
  Ips = {attacker}
  NoIp = NoIp
  Safelist = {}
  Internal = {}
  Reserved = {}
  Sources = {abuseipdb}
  R1MinTier = 3
  R2MinTier = 3
  MinSources = 1
  Settings <- EnforceOnly
  ExtendOnRepeat = TRUE
  BlockTtl = 1
  FirewallTtl = 1
  ReadCount = 2
  MaxLen = 2
  MaxDelay = 0
  MaxTasks = 3
  MaxFaults = 1
  MaxCrashes = 1
INVARIANTS
  DeliveryKept
  LossBounded
PROPERTIES
  KeepsContract
  EverySettles
