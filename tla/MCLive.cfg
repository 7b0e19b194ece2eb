SPECIFICATION FairSpec
CONSTANTS
  MaxSessions = 1
  MaxTasks = 1
  NumStages = 1
  StepStates = {"none", "ready"}
  Clients = {c1}
  c1 = c1
  AutoReverify = TRUE
  Requests = {"get", "apply", "dry_run"}
  Troubles = {"cancel", "sweep", "crash"}
  MaxInstalls = 1
  MaxRetries = 1
  Modes = {"systemd"}
  Accidents = {"cancel", "clear", "lost", "reboot"}
PROPERTIES EveryRunEnds InstallSettles RegisteredIsShown
CHECK_DEADLOCK FALSE
