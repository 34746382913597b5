SPECIFICATION Spec
CONSTANTS
  Attempts = {a1, a2}
  Plans = {p1, p2}
  Queries = {k1, k2}
  Period = 1
  MaxTime = 2
  MaxRetries = 1
  Faults = {"close", "other", "send", "broker", "crash"}
SYMMETRY PaymentSymmetry
INVARIANTS TypeOK ChargedOnce PaidIsActive
PROPERTIES PaidIsFinal LedgerSpec
CHECK_DEADLOCK FALSE
