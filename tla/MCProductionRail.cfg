SPECIFICATION Spec
CONSTANTS
  Tasks = {t1, t2}
  Commands <- FlowCommands
  Names = {"carriers", "provider"}
  Registered <- FlowRegistered
  None = None
  Decoded <- DecodedContent
  MaxIntents = 3
  MaxRegistrations = 1
  MayFail = TRUE
  MayCrash = TRUE
  LockRemoval = {"stale", "live"}
SYMMETRY Symmetry
INVARIANTS
  CatalogAnswers
  RunsHideNoArtifact
PROPERTIES
  RunsOnceSpec
