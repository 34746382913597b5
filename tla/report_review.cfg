SPECIFICATION Spec
CONSTANTS
  Sessions = {q1, q2}
  Users = {u1, u2}
  Items = {i1}
  MaxRevisions = 3
  MaxDecisions = 2
  q1 = q1  q2 = q2  u1 = u1  u2 = u2  i1 = i1
SYMMETRY SessionSymmetry
INVARIANTS TypeOK ReportMirrored CurrentIsNewest ApprovalsStand ApprovedCaseHasReport
PROPERTY RevisionsKept
CHECK_DEADLOCK FALSE
