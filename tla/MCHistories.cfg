SPECIFICATION PartSpec
CONSTANTS
  Ids = {i1, i2, i3, i4}
  CommandIds = {k1, k2, k3, k4, k5, k6, k7}
  Contents = {t1, t2}
  None = None
  MaxNotations = 2
  MaxRelations = 1
  MaxCommands = 7
  Link <- FeedLink
  Nil = Nil
  Rows <- FeedRows
  Seeders <- FeedSeeders
  Questions <- FeedQuestions
SYMMETRY Symmetry
INVARIANTS
  NoInternalError
  IdentityIsStable
  AnswersLookNoFurther
  SettledAnswersAreTheFixtures
  ReadersAccept
PROPERTY UndoHistorySpec
CHECK_DEADLOCK FALSE
