SPECIFICATION FairSpec
CONSTANTS
  Workers = {w1}
  Controllers = {c1}
  InboxItems = {i1}
  NoItem = NoItem
  Suspensions = {}
  HasDeadline = FALSE
  HasIrreversible = FALSE
  LeaseTicks = 1
  MaxAttempts = 1
  MaxResults = 1
  MaxCheckpoints = 1
  MaxRetries = 1
PROPERTIES
  AbandonedWorkRecovered
CHECK_DEADLOCK FALSE
