SPECIFICATION RecoverySpec
CONSTANTS
  Workers = {w1}
  Controllers = {c1}
  InboxItems = {}
  NoItem = NoItem
  Suspensions = {}
  HasDeadline = FALSE
  HasIrreversible = FALSE
  LeaseTicks = 1
  MaxAttempts = 2
  MaxResults = 2
  MaxCheckpoints = 0
  MaxRetries = 1
SYMMETRY Symmetry
INVARIANTS
  CurrentClaim
CHECK_DEADLOCK FALSE
