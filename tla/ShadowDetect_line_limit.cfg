SPECIFICATION FairSpec
CONSTANTS
  d1 = d1
  Events <- NoisyEvents
  MaxLines = 1
  MaxEvents = 3
  MaxHalves = 0
  MaxRotations = 0
  MaxFaults = 0
  MaxCrashes = 0
PROPERTIES
  EveryEventIsLooked
