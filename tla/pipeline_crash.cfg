SPECIFICATION Spec
CONSTANTS
  NumTasks = 2
  Priority <- MCPriority
  MaxWorkers = 2
  Modes = {"review-merge"}
  MaxTaskRetries = 0
  MaxCIRetries = 0
  MaxVerifyRetries = 0
  ChainLength = 1
  Backends = {1}
  MinTasksForTrip = 1
  Commands = {"approve"}
  MaxFaults = 1
  MaxCrashes = 1
INVARIANTS SingleOwner DependenciesMet MergedNeverRerun NoneStranded
PROPERTIES ImplementsLifecycle
