\* Two agents, one failure; two to four actors and one or two items per service.
SPECIFICATION Spec
SYMMETRY ServiceSymmetry
CONSTANTS
  None = None
  boss = boss
  aide = aide
  Agents = {boss, aide}
  Default = boss
  MaxFaults = 1
  m1 = m1
  Letters = {m1}
  Mailers = {c1, c2, c3}
  MaxExecutions = 2
  i1 = i1
  i2 = i2
  InstanceIds = {i1, i2}
  DefaultInstance = i1
  LegacyAgents = {boss}
  LegacyEnabled = {boss, aide}
  LegacyDefaults = {boss, aide}
  l1 = l1
  l2 = l2
  e1 = e1
  run1 = run1
  Layers = {l1, l2}
  Editors = {e1, run1}
  Runs = {run1}
  Seeded = {l1}
  MaxVersions = 5
  t1 = t1
  t2 = t2
  ToolCalls = {t1, t2}
  MaxAttempts = 3
  MaxPieces = 3
  Aliases <- MCAliases
  Meaning <- MCMeaning
  Permitted <- MCPermitted
  Parts <- MCParts
  Natives <- MCNatives
  MaxParts = 3
  JsonCap = 2
  ReplyCap = 3
  w1 = w1
  w2 = w2
  Recorders = {w1, w2}
  MaxEvents = 3
  QueueSize = 2
  Items = {l1, l2}
  Keepers = {w1, w2}
  StoredRuns = {e1}
  SubRuns = {run1}
  MaxTries = 2
  MaxWatched = 1
  Writers = {w1, w2}
  Sessions = {w1, w2}
  MaxSnapshots = 2
  tool = tool
  Tools = {tool}
  dir = dir
  inner = inner
  outer = outer
  c1 = c1
  c2 = c2
  c3 = c3
  Folder = dir
  Inside = {inner}
  Outside = {outer}
  Tooling = {c1, c2, c3}
  MaxLines = 3
  MaxEdits = 2
  Shapes <- MCShapes
  ChunkSize = 2
  MaxLine = 3
  MaxFile = 6
  Limits = {1, 4}
INVARIANTS
  TypeOK
  ReadsTruthful
  InstancesUsable
  RollbackRestores
  TextFaithful
  CallsAsWritten
  EventsAccounted
  IndexExact
  MonitorTruthful
  SettingsSound
\* Every request of a behaviour may be over.
CHECK_DEADLOCK FALSE
