SPECIFICATION PartSpec
CONSTANTS
  Tasks = {t1, t2}
  Names = {n1}
  Contents = {a, b}
  Absent = Absent
  Torn = Torn
  Inodes = {i1, i2, i3}
  Size = 2
  MayCrash = TRUE
  None = None
  DraftCommands = {"k1", "k2"}
  MaxSaved = 3
  SavedIds = {a, b}
  Texts = {"x", "y"}
  MaxDrafts = 4
  StepOrder <- FiveSteps
  SourceBytes = {a, b}
  MaxAttempt = 2
  RecordList <- TwoRecords
  Placeable = {"x"}
  MaxSessions = 3
  Timelines = {"t", "u"}
  MaxTime = 1
INVARIANTS
  AnswersAreOfTheirIdentity
CHECK_DEADLOCK FALSE
