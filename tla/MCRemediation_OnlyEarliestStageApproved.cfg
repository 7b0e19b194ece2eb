SPECIFICATION Spec
CONSTANTS
  MaxSessions = 1
  MaxTasks = 2
  NumStages = 1
  StepStates = {"none", "ready"}
  Clients = {c1}
  c1 = c1
  AutoReverify = FALSE
  Requests = {"get", "apply"}
  Events = {}
PROPERTIES OnlyEarliestStageApproved
CHECK_DEADLOCK FALSE
