SPECIFICATION FairSpec
CONSTANTS
  d1 = d1
  Events <- OneEntity
  MaxLines = 2
  MaxEvents = 3
  MaxHalves = 1
  MaxRotations = 1
  MaxFaults = 1
  MaxCrashes = 1
INVARIANTS
  TypeOK
  EventsKept
  DuplicatesBounded
PROPERTIES
  LookedUnlessOverrun
