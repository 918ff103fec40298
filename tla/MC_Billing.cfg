SPECIFICATION FairSpec
CONSTANTS
  Residents = {x1, x2}
  LastDay = 2
  Charges = {1}
  Requests = {q1}
  Attempts = 2
INVARIANTS
  TypeOK
  OneBillPerPeriod
  DuesComeFromBills
PROPERTIES
  NobodyLeftOut
  EveryJobEnds
CHECK_DEADLOCK FALSE
