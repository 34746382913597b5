SPECIFICATION FairSpec
CONSTANTS
  Voice = {v1}
  Documents = {d1}
  MaxRuns = 1
  Workers = {w1, w2}
  MaxRetries = 0
  Faults = {}
  MaxOutages = 0
  MayArchive = FALSE
  MaxRecoveries = 0
  w1 = w1  w2 = w2  v1 = v1  d1 = d1  d2 = d2
INVARIANT NotAbandoned
PROPERTY AnalysisEnds
CHECK_DEADLOCK FALSE
