SPECIFICATION Spec
CONSTANTS
  r1 = r1  r2 = r2  r3 = r3
  u1 = u1  u2 = u2  n1 = n1  n2 = n2
  None = None
  Request = {r1, r2}
  User = {u1, u2}
  Network = {n1, n2}
  Attempts <- Wrong
  MaxFailures = 2
INVARIANTS RepeatedFailuresAreBlocked
CHECK_DEADLOCK FALSE
