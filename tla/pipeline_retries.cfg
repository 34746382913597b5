SPECIFICATION Spec
CONSTANTS
  Voice = {v1}
  Documents = {}
  MaxRuns = 2
  Workers = {w1, w2}
  MaxRetries = 1
  Faults = {"fetch", "content", "extract", "quota", "lapse", "crash"}
  MaxOutages = 1
  MayArchive = FALSE
  MaxRecoveries = 0
  w1 = w1  w2 = w2  v1 = v1  d1 = d1  d2 = d2
SYMMETRY WorkerSymmetry
INVARIANT ContentIsStored
PROPERTY SucceededIsFinal
CHECK_DEADLOCK FALSE
