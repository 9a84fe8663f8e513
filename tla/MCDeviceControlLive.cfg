SPECIFICATION FairDCSpec
CONSTANTS
  a1 = a1  a2 = a2
  c1 = c1  c2 = c2
  p1 = p1  p2 = p2
  n = n
  Apps <- LiveApps
  Callers <- MCCallers
  Pids <- LivePids
  Names <- MCNames
  ProcessName <- LiveProcessName
  Requests <- LiveRequests
  Capacity = 2
  NoApp = NoApp
  NoPid = NoPid
  Nobody = Nobody
INVARIANTS
  CallsMatchMailbox
PROPERTIES
  EveryRpcCompletes
  ImplementsLifecycle
