SPECIFICATION ATSpec
CONSTANTS
  n1 = n1
  s1 = s1  s2 = s2
  North <- MCNorth
  South = {}
  NoOne = NoOne
  NoId = NoId
  MaxFaults = 0
  MaxCrashes = 0
CHECK_DEADLOCK FALSE
INVARIANTS
  NorthTrailComplete
