CONSTANTS
  Retries = 1
  MaxPolls = 2
  MaxDelayed = 1
SPECIFICATION Spec
INVARIANT ClosesItsSeal
CHECK_DEADLOCK FALSE
