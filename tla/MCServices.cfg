SPECIFICATION PartSpec
CONSTANTS
  Nil = Nil
  GatTasks = {t1, t2}
  AuditRequests <- AskedAudits
  Sources = {"ifc"}
  Contents = {"ifc", "xml"}
  Unsupported = {"xml"}
  Forbidden = {"q"}
  GatTimes = {1, 2}
  RunTasks = {t1, t2}
  RunRequests <- AskedRuns
  EvidenceIds = {"a1", "a2"}
  Policies <- EvidencePolicies
  RunTimes = {1, 2}
  SpatialTasks = {t1, t2}
  AnalysisRequests <- AskedAnalyses
  Layers = {"a1", "a2"}
  LayerPolicies <- PoliciesOfLayers
  SpatialTimes = {1, 2}
  RailTasks = {t1, t2}
  RailRequests <- AskedRecords
  Identity <- IdentityIn
  Rails = {"local", "census"}
  RailTimes = {1, 2}
  Calls = {"w1", "w2", "w3"}
  MaxWorkers = 2
  MaxBytes = 2
SYMMETRY Symmetry
INVARIANTS
  SavedResultsRecompute
  RecordsInspect
  OneEngine
  OneRunPerRequest
  SlotsAreChildren
  ContactsEndClean
PROPERTIES
  ReservedRequestsRunOnce
CHECK_DEADLOCK FALSE
