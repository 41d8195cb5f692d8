SPECIFICATION Spec
CONSTANTS
  NumTasks = 2
  Priority <- MCPriority
  MaxWorkers = 1
  Modes = {"full-auto"}
  MaxTaskRetries = 0
  MaxCIRetries = 0
  MaxVerifyRetries = 0
  ChainLength = 1
  Backends = {1}
  MinTasksForTrip = 2
  Commands = {}
  MaxFaults = 0
  MaxCrashes = 0
INVARIANTS FailureReachesDependents
