CONSTANTS
  Retries = 2
  MaxPolls = 3
  MaxDelayed = 2
SPECIFICATION Spec
INVARIANT FlowTypeOK QuietFlowClosesItsSeal
PROPERTY OneClose FlowEnds
CHECK_DEADLOCK FALSE
