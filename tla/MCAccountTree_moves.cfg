SPECIFICATION FairSpec
CONSTANTS
  r1 = r1  r2 = r2  r3 = r3
  top = top  sub = sub  side = side  other = other  extra = extra
  None = None
  Request = {r1, r2, r3}
  Account = {top, sub, side, other, extra}
  Commands <- AllCommands
  Parent0 <- Chart
INVARIANTS NoMutualParents CreatedOnce
PROPERTIES EveryRequestEnds
CHECK_DEADLOCK FALSE
