SPECIFICATION PlatformSpec
CONSTANTS
  h1 = h1  h2 = h2
  n = n
  Names <- MCNames
  Handlers <- MCHandlers
  Callers <- MCCallers
  Apps <- MCApps
  Pids = {}
  Capacity = 1
  Loop = Loop
  Lifetime = 1
  Threshold = 2
  MinInterval = 2
  ActionCapacity = 1
  MaxTime = 2
  MaxTokens = 1
  NoApp = NoApp
  NoPid = NoPid
  Nobody = Nobody
INVARIANTS
  HealthRestartsCanRun
