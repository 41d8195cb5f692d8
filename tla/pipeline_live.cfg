SPECIFICATION LiveSpec
CONSTANTS
  NumTasks = 2
  Priority <- MCPriority
  MaxWorkers = 1
  Modes = {"full-auto", "review-merge"}
  MaxTaskRetries = 0
  MaxCIRetries = 0
  MaxVerifyRetries = 0
  ChainLength = 1
  Backends = {1}
  MinTasksForTrip = 2
  Commands = {"approve"}
  MaxFaults = 1
  MaxCrashes = 1
PROPERTIES EveryTaskSettles
