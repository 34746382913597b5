SPECIFICATION Spec
CONSTANTS
  Voice = {v1}
  Documents = {d1}
  MaxRuns = 1
  Workers = {w1, w2}
  MaxRetries = 1
  Faults = {"broker"}
  MaxOutages = 1
  MayArchive = TRUE
  MaxRecoveries = 1
  w1 = w1  w2 = w2  v1 = v1  d1 = d1  d2 = d2
SYMMETRY WorkerSymmetry
INVARIANTS TypeOK MirrorInv OneExecutorPerRun RunningHasExecutor
PROPERTY CollectsDocuments
CHECK_DEADLOCK FALSE
