SPECIFICATION Spec
CONSTANTS
  Workers = {w1}
  Outcomes <- Asks
  MaxActions = 1
  MaxGrants = 1
  Supervised = TRUE
  MaxBranchAttempts = 2
INVARIANTS
  WaitsForOpenItem
CHECK_DEADLOCK FALSE
