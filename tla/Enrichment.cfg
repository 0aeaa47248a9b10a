SPECIFICATION Spec
CONSTANTS
  Wan = Wan
  Lan = Lan
  NoIp = NoIp
  Abuse = Abuse
  Otx = Otx
  Ips <- MCIps
  Public <- MCPublic
  Keys <- Both
  CrowdSecOn = TRUE
  Ttl = 2
  CrowdTtl = 1
  Slack = 1
  MaxFaults = 1
  MaxCrashes = 1
INVARIANTS
  TypeOK
  ResultIsRecent
  QuotaKept
