SPECIFICATION CMSpec
CONSTANTS
  k1 = k1  k2 = k2
  x = x  y = y
  w1 = w1  w2 = w2
  s1 = s1
  Keys <- MCKeys
  Watched <- MCWatched
  Values <- MCValues
  Null = Null
  Writers <- MCWriters
  Watchers <- MCWatchers
  Buffer = 1
  Pipe = 1
  MaxVersion = 4
  MaxRestarts = 1
  MaxFaults = 1
SYMMETRY Symmetry
CONSTRAINT Scenes
CHECK_DEADLOCK FALSE
INVARIANTS
  FirstRunReadsLastWrite
  AnnouncedIsDurable
  WatcherCatchesUp
PROPERTIES
  StoredVersionsAreFinal
