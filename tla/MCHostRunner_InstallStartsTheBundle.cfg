SPECIFICATION Spec
CONSTANTS
  MaxInstalls = 2
  MaxRetries = 0
  Modes = {"systemd"}
  Events = {}
INVARIANT InstallStartsTheBundle
CHECK_DEADLOCK FALSE
