SPECIFICATION Spec
CONSTANTS
  NumTasks = 2
  i1 = i1
  i2 = i2
  Issues = {i1, i2}
  NoIssue = none
  AgentUser = {TRUE}
  Scenarios <- MCScenarios
SYMMETRY MCSymmetry
CHECK_DEADLOCK FALSE
CONSTRAINT MCWaiting
INVARIANTS TypeOK OneTaskPerIssue GateHolds DependentsOfDead TreesRemembered
PROPERTIES CancelledHolds TreeSpared
