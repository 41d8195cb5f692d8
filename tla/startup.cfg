SPECIFICATION Spec
CONSTANTS
  w1 = w1
  w2 = w2
  tool = tool
  Workers = {w1, w2}
  Tools = {tool}
  Clients <- MCClients
  p1 = p1
  p2 = p2
  Pids = {p1, p2}
  NoPid = none
  Contained = {TRUE}
  ProcFS = {TRUE}
  MaxBirths = 4
  RowIds = {1}
  Histories <- MCHistories
  Aftermath = FALSE
SYMMETRY MCSymmetry
INVARIANTS TypeOK OneWorker ReadyMeansCurrent BlockedOnlyBy
PROPERTIES RefusedByWorker DataKept
