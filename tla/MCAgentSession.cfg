SPECIFICATION Spec
CONSTANTS
  MaxSessions = 1
  MaxTurns = 2
  MaxTasks = 1
  MaxActions = 2
  MaxRetries = 1
  Decisions = {"answer", "plan", "ui", "secure", "child", "cancel"}
  Events = {"slow", "turn dies", "interrupt", "reset", "worker dies", "step"}
INVARIANTS TypeOK ActionsRunOnce CancelStopsTheRest NeverStuck
CHECK_DEADLOCK FALSE
