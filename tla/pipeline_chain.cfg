SPECIFICATION Spec
CONSTANTS
  NumTasks = 3
  Priority <- MCPriority
  MaxWorkers = 2
  Modes = {"full-auto", "review-merge"}
  MaxTaskRetries = 0
  MaxCIRetries = 0
  MaxVerifyRetries = 0
  ChainLength = 1
  Backends = {1}
  MinTasksForTrip = 2
  Commands = {}
  MaxFaults = 0
  MaxCrashes = 0
INVARIANTS NoDependencyCycle CascadeComplete
