INIT OnePartInit
NEXT ServicesNext
CONSTRAINT TransferScenes
CHECK_DEADLOCK FALSE
CONSTANTS
  a = a b = b e = e bl = bl x = x y = y pf = pf pg = pg
  Tags = {t1, t2} TagNames = {n1, n2} Devices = {d1, d2} TagClients = {c1, c2}
  NoTag = NoTag MaxTagOps = 3 MaxTagFaults = 1 MaxTagRestarts = 1
  Groups = {g1, g2} GroupNames = {n1, n2} Members = {d1} GroupClients = {c1, c2}
  NoGroup = NoGroup MaxGroupOps = 3 MaxGroupFaults = 1 MaxGroupRestarts = 1
  Tasks = {k1} GivenTasks <- MCGivenTasks ItemReports = {"failed"}
  StatusReports = {"cancelled"} BatchClients = {c1, c2} NoTask = NoTask
  MaxBatchOps = 3 MaxBatchFaults = 1 MaxBatchRestarts = 1
  Scripts = {s1, s2} Contents = {x, y} ScriptClients = {c1, c2} NoScript = NoScript
  MaxScriptOps = 3
  Names = {a, b} Values = {e, bl, x, y} Empty = e Blank = bl Bodies <- MCBodies
  Definitions <- MCDefinitions NoDefault = NoDefault
  Fleet <- MCFleet Words = {"d1", "d2", "w1", "w2"} NoWord = "" MaxBatch = 3
  Rules = {r1} RuleForms <- MCRuleForms Samples <- MCSamples NoRule = NoRule Never = Never
  MaxHistory = 2 MaxAlertTime = 4 MaxRuleChanges = 3
  Subscribers = {u1, u2} Deliveries = {m1, m2} Topics = {n1} AnyTopic = AnyTopic
  NoList = NoList SenderCap = 1 StreamCap = 1
  ProfileLists <- MCProfileLists FirstProfiles <- MCFirstProfiles NoText = NoText
  ProfileClients = {c1, c2} NoRequest = NoRequest
  MaxReplaces = 2 MaxTelemetryRestarts = 1 MaxTelemetryTime = 3
  Commands = {m1, m2, m3} Forms <- MCForms Publishers = {u1} AppTopics = {"data", "a/#"}
  RequestCap = 2 CommandCap = 1 MaxPublished = 3 MaxOutages = 1
  Subjects = {u1} Nonces = {n1} Skew = 1 MaxClock = 3 MaxSetBack = 1 MaxRequests = 2
  ManagedFiles = {f1, f2} Bytes = {Magic} ProgramNames = {f2} Magic = Magic Zero = Zero
  NoFile = NoFile Uploads = {u1, u2} Downloads = {m1} Renames = {c1} MaxFileSize = 2 MaxTransfers = 3
  Systems <- MCSystems NotANumber = NotANumber Settings <- MCSettings Collectors = {c1, c2}
  NoAnswer = NoAnswer Nobody = Nobody MaxChanges = 2 MaxCollections = 1 MaxBytes = 3 MaxInits = 1
INVARIANTS
  ServicesTypeOK StoresAgree ChangesSurvive RenderedIsComplete
  PlanIsExact AlertsAreDue ProfilesTakeEffect LiveSubscribersStay CommandsAreHandled
  AllowedOnce TransfersAreExact SamplesAreExact
