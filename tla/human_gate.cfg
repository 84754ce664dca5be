SPECIFICATION Spec
CONSTANTS
  Workers = {w1}
  Controllers = {c1}
  InboxItems = {i1}
  NoItem = NoItem
  Suspensions = {"human"}
  HasDeadline = FALSE
  HasIrreversible = FALSE
  LeaseTicks = 1
  MaxAttempts = 1
  MaxResults = 1
  MaxCheckpoints = 1
  MaxRetries = 0
SYMMETRY Symmetry
PROPERTIES
  HumanBranchResumesByClaim
CHECK_DEADLOCK FALSE
