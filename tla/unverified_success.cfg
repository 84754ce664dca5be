SPECIFICATION RecoverySpec
CONSTANTS
  Workers = {w1}
  Controllers = {c1}
  InboxItems = {}
  NoItem = NoItem
  Suspensions = {}
  HasDeadline = FALSE
  HasIrreversible = FALSE
  LeaseTicks = 1
  MaxAttempts = 1
  MaxResults = 2
  MaxCheckpoints = 0
  MaxRetries = 0
SYMMETRY Symmetry
PROPERTIES
  SuccessIsVerified
CHECK_DEADLOCK FALSE
