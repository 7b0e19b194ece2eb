SPECIFICATION FairSpec
CONSTANTS
  z1 = z1
  z2 = z2
  Zones = {z1, z2}
  Scopes = {"zones", "node"}
  Events = {"cancel", "sweep", "clear", "lost", "slow", "rival"}
INVARIANTS TypeOK CompletedCoversSuccesses
PROPERTIES CompletedIsNotReopened JobSettles
CHECK_DEADLOCK FALSE
