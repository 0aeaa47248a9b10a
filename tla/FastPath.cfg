SPECIFICATION FairSpec
CONSTANTS
  Batches = {{critical, quiet, invalid}}
  Invalid = {invalid}
  Quiet = {quiet}
  Retries = 1
  Threads = 2
  PoolWorkers = 1
  MaxFaults = 1
  MaxPoolDeaths = 1
  MaxCrashes = 1
INVARIANTS
  TypeOK
  DeliveredMeansPublished
  RedisNeverBreaksDecide
PROPERTIES
  EveryJobEnds
