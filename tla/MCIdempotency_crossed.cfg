SPECIFICATION FairSpec
CONSTANTS
  r1 = r1  r2 = r2  r3 = r3  r4 = r4
  a = a  b = b  g = g  h = h
  None = None
  Request = {r1, r2, r3, r4}
  Key = {a, b}
  Hash = {g, h}
  Claims <- CrossedClaims
INVARIANTS TypeOK AppliedOnce NoHalfComplete OneAnswerPerKey
PROPERTIES RecordsAreFinal ImplementsExactlyOnce EveryRequestEnds
CHECK_DEADLOCK FALSE
