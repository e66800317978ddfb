SPECIFICATION Spec
CONSTANTS
  DraftCommands = {"k1", "k2"}
  None = None
  MaxSaved = 3
INVARIANTS
  DiscardIsConfirmed
CHECK_DEADLOCK FALSE
