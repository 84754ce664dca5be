SPECIFICATION Spec
CONSTANTS
  Workers = {w1}
  Controllers = {c1, c2}
  InboxItems = {i1}
  NoItem = NoItem
  Suspensions = {"human", "connector", "batch"}
  HasDeadline = FALSE
  HasIrreversible = FALSE
  LeaseTicks = 1
  MaxAttempts = 1
  MaxResults = 1
  MaxCheckpoints = 1
  MaxRetries = 0
SYMMETRY Symmetry
INVARIANTS
  LinksAreDurable
PROPERTIES
  AnswersResumeOnce
  LedgerKept
  WaitsAreNotLost
  EveryMoveInTable
CHECK_DEADLOCK FALSE
