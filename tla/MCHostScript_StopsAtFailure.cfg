SPECIFICATION Spec
CONSTANTS
  MaxSteps = 2
  Seconds = 1
INVARIANT StopsAtFailure
CHECK_DEADLOCK FALSE
