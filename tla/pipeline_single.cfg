SPECIFICATION Spec
CONSTANTS
  NumTasks = 1
  Priority <- MCPriority
  MaxWorkers = 1
  Modes = {"review-merge", "review-all"}
  MaxTaskRetries = 1
  MaxCIRetries = 1
  MaxVerifyRetries = 1
  ChainLength = 2
  Backends = {1, 2}
  MinTasksForTrip = 1
  Commands = {"approve", "hold", "release", "pause", "resume"}
  MaxFaults = 1
  MaxCrashes = 1
INVARIANTS RetryBudget
