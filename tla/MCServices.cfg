SPECIFICATION ServicesSpec
CONSTANTS
  MaxTokens = 3
  Callers = {a, b}
  Passive = {}
  OnMatch = {"m"}
  OnService = {"s"}
  Verifiers = {v, w}
  MaxRows = 2
  Processes = {p, q}
  MaxWrites = 2
  MaxJobs = 2
  MaxTasks = 3
  Requests = {"r"}
  MaxRetries = 1
  Digits <- ZeroAndOne
  Letters <- OnlyA
  MaxLeft = 3
  MaxRight = 2
  Writers = {x, y}
  Logins = {"j"}
  MaxSecrets = 2
  Channels = {"proxy", "local"}
  Urls <- TwoAndOne
  Wire <- AutoAndOllama
  Json = {"proxy"}
  MaxAttempts = 2
  Threshold = 2
  LastStep = 2
  StopsOnFailure = TRUE
  MaxAgain = 1
  Applies = {u1, u2}
  MaxSteps = 2
  Seconds = 1
INVARIANTS EachTypeOK NoFalseAlarm OneLiveToken CacheFollowsDatabase ScansAreBelieved ComparesKeys WorkIsVouched OneWholeAnswer SuccessIsBacked AppliedIsLoaded ReportsAreTrue
PROPERTIES FindingsAreSeen
SYMMETRY Exchange
CHECK_DEADLOCK FALSE
