SPECIFICATION FairSpec
CONSTANTS
  Sessions = {q1, q2}
  Users = {u1}
  Items = {i1}
  MaxRevisions = 2
  MaxDecisions = 1
  q1 = q1  q2 = q2  u1 = u1  u2 = u2  i1 = i1
PROPERTY RequestsEnd
CHECK_DEADLOCK FALSE
