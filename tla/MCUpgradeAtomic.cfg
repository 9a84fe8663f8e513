SPECIFICATION UESpec
CONSTANTS
  a1 = a1  a2 = a2
  v1 = v1  v2 = v2
  f1 = f1  f2 = f2
  old = old  new = new
  Apps = {a1}
  Versions = {v1, v2}
  Files = {f1, f2}
  Builds = {old, new}
  NoFile = NoFile
  NoDir = NoDir
  Packages <- MCPackages
  NoManifest = NoManifest
  MaxRuns = 1
  MaxFaults = 1
  MaxCrashes = 0
CHECK_DEADLOCK FALSE
INVARIANTS
  UpgradeIsAtomic
