SPECIFICATION PartSpec
CONSTANTS
  t1 = t1
  t2 = t2
  b1 = b1
  b2 = b2
  b3 = b3
  c1 = c1
  c2 = c2
  c3 = c3
  q1 = q1
  q2 = q2
  q3 = q3
  None = None
  Tasks = {t1, t2}
  Batches = {b1, b2, b3}
  NoRequest = NoRequest
  CommandIds = {c1, c2, c3}
  CommandsOf <- MCCommandsOf
  MaxVersions = 2
  MaxCommands = 3
  MayCrash = TRUE
  LockRemoval = {"stale", "live"}
INVARIANTS
  OneWriter
  NoUncertainSave
  HistoryLoads
  ConfirmedIsSaved
  RegistrationsKeepCatalog
PROPERTIES
  CompareAndAppendSpec
  LockIsReleased
  EveryCallIsAnswered
  EveryRequestIsAnswered
