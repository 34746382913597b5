SPECIFICATION Spec
CONSTANTS
  Sessions = {q1, q2}
  Users = {u1}
  Items = {i1}
  MaxRevisions = 2
  MaxDecisions = 0
  q1 = q1  q2 = q2  u1 = u1  u2 = u2  i1 = i1
SYMMETRY SessionSymmetry
INVARIANT ApprovedIsCurrent
CHECK_DEADLOCK FALSE
