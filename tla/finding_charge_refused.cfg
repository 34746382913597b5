SPECIFICATION Spec
CONSTANTS
  Attempts = {a1}
  Plans = {p1}
  Queries = {k1, k2}
  Period = 1
  MaxTime = 0
  MaxRetries = 0
  Faults = {"other"}
INVARIANT ChargeApplied
CHECK_DEADLOCK FALSE
