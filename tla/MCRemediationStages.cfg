SPECIFICATION Spec
CONSTANTS
  MaxSessions = 2
  MaxTasks = 1
  NumStages = 2
  StepStates = {"none", "ready"}
  Clients = {c1}
  c1 = c1
  AutoReverify = FALSE
  Requests = {"get", "apply"}
  Events = {"findings"}
INVARIANTS SecondReadAgrees
CHECK_DEADLOCK FALSE
