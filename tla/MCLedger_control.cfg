SPECIFICATION Spec
CONSTANTS
  r1 = r1  r2 = r2  r3 = r3  r4 = r4
  cash = cash  sales = sales
  None = None
  Request = {r1, r2, r3}
  Account = {cash, sales}
  Date <- OneDay
  Commands <- AccountCommands
  InitialPeriods <- FirstDay
  InitialEntries <- Empty
INVARIANTS ControlAccountsAreEmpty
CHECK_DEADLOCK FALSE
