SPECIFICATION Spec
CONSTANTS
  Workers = {w1, w2}
  Controllers = {c1}
  InboxItems = {}
  NoItem = NoItem
  Suspensions = {}
  HasDeadline = FALSE
  HasIrreversible = TRUE
  LeaseTicks = 1
  MaxAttempts = 2
  MaxResults = 2
  MaxCheckpoints = 0
  MaxRetries = 1
SYMMETRY Symmetry
INVARIANTS
  TypeOK
  OneAuthority
  CurrentClaim
  LinksAreDurable
  TerminalOutcome
  OfferedTasksAreFree
  FencedWrites
PROPERTIES
  EveryMoveInTable
CHECK_DEADLOCK FALSE
