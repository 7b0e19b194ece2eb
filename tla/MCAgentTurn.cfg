SPECIFICATION Spec
CONSTANTS
  Roles = {"admin"}
  Kinds = {"fix", "install+fix"}
  MaxDecisions = 2
  MaxRounds = 2
  MaxBatch = 2
  MaxTasks = 2
  MaxTurns = 3
INVARIANTS TypeOK ChainsEnd StartsAreAccountedFor
CHECK_DEADLOCK FALSE
