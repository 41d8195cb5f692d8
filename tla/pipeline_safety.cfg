SPECIFICATION Spec
CONSTANTS
  NumTasks = 2
  Priority <- MCPriority
  MaxWorkers = 2
  Modes = {"full-auto", "review-merge"}
  MaxTaskRetries = 1
  MaxCIRetries = 1
  MaxVerifyRetries = 0
  ChainLength = 1
  Backends = {1}
  MinTasksForTrip = 1
  Commands = {"approve"}
  MaxFaults = 1
  MaxCrashes = 0
INVARIANTS TypeOK RowMatchesPR MergeNeedsApproval MergedWasVetted
PROPERTIES TerminalIsFinal
