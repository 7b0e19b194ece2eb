SPECIFICATION Spec
CONSTANTS
  MaxInstalls = 2
  MaxRetries = 0
  Modes = {"systemd", "detached"}
  Events = {"cancel", "clear", "lost", "reboot"}
CONSTRAINT AccidentsMeetOneInstall
INVARIANTS TypeOK TokenIsHeld SuccessMeansRegistered
CHECK_DEADLOCK FALSE
