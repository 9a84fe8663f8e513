SPECIFICATION FairATSpec
CONSTANTS
  n1 = n1
  s1 = s1  s2 = s2
  North <- MCNorth
  South <- MCSouth
  NoOne = NoOne
  NoId = NoId
  MaxFaults = 2
  MaxCrashes = 1
CHECK_DEADLOCK FALSE
INVARIANTS
  TypeOK
  ChainVerifies
  SouthTrailComplete
PROPERTIES
  ExitsAreWritten
  ImplementsAuditedCall
