SPECIFICATION CMSpec
CONSTANTS
  k1 = k1  k2 = k2
  x = x  y = y
  w1 = w1  w2 = w2
  s1 = s1
  Keys = {k1}
  Watched <- MCWatched
  Values <- MCValues
  Null = Null
  Writers <- MCWriters
  Watchers = {}
  Buffer = 1
  Pipe = 1
  MaxVersion = 2
  MaxRestarts = 1
  MaxFaults = 0
SYMMETRY Symmetry
CHECK_DEADLOCK FALSE
INVARIANTS
  ReadsReturnLastSet
