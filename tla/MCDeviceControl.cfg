SPECIFICATION DCSpec
CONSTANTS
  a1 = a1  a2 = a2
  c1 = c1  c2 = c2
  p1 = p1  p2 = p2
  n = n
  Apps <- MCApps
  Callers <- MCCallers
  Pids <- MCPids
  Names <- MCNames
  ProcessName <- MCProcessName
  Requests <- MCRequests
  Capacity = 1
  NoApp = NoApp
  NoPid = NoPid
  Nobody = Nobody
SYMMETRY Symmetry
INVARIANTS
  StartFindsManifest
  ClosedPidForgotten
