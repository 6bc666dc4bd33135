SPECIFICATION Spec
CONSTANTS
  Calls = {c1, c2, c3}
  Keys = {k1}
  Payloads = {b1, b2}
  Writers = {s1, s2}
  MaxEvents = 3
  Publishers = {s1, s2}
  MaxBatches = 2
  Handlers = {s1, s2}
  Steps = 3
  MaxCommands = 6
  Events = {e1, e2}
  Sessions = {s1, s2}
  MaxCalls = 3
  Projections = {p1}
  Adapters = {"repository_projection", "runtime_projection", "identity_projection", "agent_projection", "sbcl_agent_projection"}
  Statuses = {st1, st2}
  Syncers = {s1, s2}
  MaxOperations = 4
  Editors = {s1, s2}
  Stages = 2
  Roles = {editor, copyeditor}
  Users = {u1, u2}
  MaxEdits = 3
  Authors = {s1, s2, third}
  MaxPublish = 4
  MaxReuses = 2
  Actors = {s1, s2}
  MaxSwitches = 5
  Commanders = {s1, s2}
  Workers = {s1, s2}
  Runs = {r1, r2}
  MaxItemCommands = 3
  MaxResends = 1
  Versions = {v1, v2}
  Fields = {"f1", "f2"}
  Definitions <- MCDefinitions
  Requests = {q1}
  TemplateSessions = {s1, s2}
  MaxTxns = 4
INVARIANTS
  TypeOK
  SequentialCallsAgree
  
  ReplaySkipsOnlyLate
  StepsInOrder
  EffectsCountOnce
  EndedNotReopened
  ExternalViewIsReported
  LastEventTellsState
  VersionsHaveSnapshots
  ModesChain
  PendingItemHasWork
  OnePublished
  
CHECK_DEADLOCK FALSE
