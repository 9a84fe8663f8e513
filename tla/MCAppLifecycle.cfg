SPECIFICATION Spec
CONSTANTS
  a1 = a1  a2 = a2
  c1 = c1
  p1 = p1  p2 = p2
  Apps <- MCApps
  Callers <- MCCallers
  Pids <- MCPids
  Capacity = 1
  NoApp = NoApp
  NoPid = NoPid
  Nobody = Nobody
SYMMETRY Symmetry
INVARIANTS
  TypeOK
  RecordedPidIsOwn
  PidMatchesState
  TrackedOrExplained
  StartNeedsManifest
PROPERTIES
  LegalTransitions
