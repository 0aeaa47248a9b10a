SPECIFICATION FairSpec
CONSTANTS
  f1 = f1
  f2 = f2
  e1 = e1
  e2 = e2
  Flows = {f1, f2}
  Ips = {e1, e2}
  SrcOf <- Source
  Controlled = {f2}
  Scores = {30, 90}
  MaxCalls = 1
  SaveEvery = 1
  MaxRecords = 3
  MaxEarlier = 1
  MaxCrashes = 1
INVARIANTS
  TypeOK
  LabelledOnce
  LabelsJustified
PROPERTIES
  EveryFlowIsLabelled
