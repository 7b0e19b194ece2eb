SPECIFICATION FairSpec
CONSTANTS
  Tasks = {t1}
  Clients = {c1, c2}
  t1 = t1
  c1 = c1
  c2 = c2
  MaxRetries = 1
  Stages = 2
INVARIANTS TypeOK AtMostOneLateStep
PROPERTIES CancelLostOnlyToEarlierRead ImplementsLifecycle EveryTaskSettles
CHECK_DEADLOCK FALSE
