SPECIFICATION Spec
CONSTANTS
  Workers = {w1, w2}
  Outcomes <- Allows
  MaxActions = 2
  MaxGrants = 0
  Supervised = FALSE
  MaxBranchAttempts = 1
SYMMETRY Symmetry
PROPERTIES
  NoVerifiedEffectRepeats
CHECK_DEADLOCK FALSE
