SPECIFICATION FairSpec
CONSTANTS
  Executors = {e1, e2}
  Editors = {d1}
  NoRun = NoRun
  MaxAttempts = 2
INVARIANTS TypeOK OneRunAtATime OnceIsOver
PROPERTY DueRunsAreClaimed
CHECK_DEADLOCK FALSE
