SPECIFICATION Spec
CONSTANTS
  Voice = {}
  Documents = {}
  MaxRuns = 1
  Workers = {w1, w2}
  MaxRetries = 1
  Faults = {"crash"}
  MaxOutages = 1
  MayArchive = FALSE
  MaxRecoveries = 0
  w1 = w1  w2 = w2  v1 = v1  d1 = d1  d2 = d2
INVARIANT NotAbandoned
CHECK_DEADLOCK FALSE
