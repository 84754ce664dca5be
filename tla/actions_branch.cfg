SPECIFICATION FairSpec
CONSTANTS
  Workers = {w1, w2}
  Outcomes <- Asks
  MaxActions = 1
  MaxGrants = 1
  Supervised = TRUE
  MaxBranchAttempts = 2
PROPERTIES
  
  OneEffectPerDecision
  AnswersAreDelivered
CHECK_DEADLOCK FALSE
