SPECIFICATION Spec
CONSTANTS
  Ana = Ana
  Ben = Ben
  NoAnalyst = NoAnalyst
  Analysts <- MCAnalysts
  Limit = 1
  MaxCases = 2
  MaxClicks = 2
  One = One
  Two = Two
  Answers <- MCAnswers
  MaxFaults = 1
SYMMETRY Symmetry
INVARIANTS
  TypeOK
  HistoryIsTrue
PROPERTIES
  QueueHonest
