SPECIFICATION RecoverySpec
CONSTANTS
  Workers = {w1, w2}
  Controllers = {c1}
  InboxItems = {}
  NoItem = NoItem
  Suspensions = {}
  HasDeadline = TRUE
  HasIrreversible = FALSE
  LeaseTicks = 1
  MaxAttempts = 2
  MaxResults = 1
  MaxCheckpoints = 0
  MaxRetries = 1
SYMMETRY Symmetry
INVARIANTS
  OneAuthority
  OfferedTasksAreFree
  NamedOutcome
PROPERTIES
  ProvenanceKept
  LedgerKept
CHECK_DEADLOCK FALSE
