SPECIFICATION Spec
CONSTANTS
  Workers = {w1, w2}
  Outcomes <- EveryOutcome
  MaxActions = 1
  MaxGrants = 2
  Supervised = FALSE
  MaxBranchAttempts = 1
SYMMETRY Symmetry
INVARIANTS
  TypeOK
  EffectsNeedDecision
PROPERTIES
  OneEffectPerDecision
CHECK_DEADLOCK FALSE
