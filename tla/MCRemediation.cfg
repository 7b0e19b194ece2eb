SPECIFICATION Spec
CONSTANTS
  MaxSessions = 1
  MaxTasks = 1
  NumStages = 1
  StepStates = {"none", "ready"}
  Clients = {c1}
  c1 = c1
  AutoReverify = TRUE
  Requests = {"get", "ai", "apply", "dry_run"}
  Events = {"cancel", "sweep", "clear", "crash", "offline"}
CONSTRAINT OfflineBeforeApproval
INVARIANTS TypeOK OnlyApprovedWorkIsDispatched ProgressIsEarned
PROPERTIES CompletionIsWithdrawnOnlyByVerdict NoTaskIsDispatchedTwice
CHECK_DEADLOCK FALSE
