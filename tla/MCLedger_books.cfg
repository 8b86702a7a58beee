SPECIFICATION FairSpec
CONSTANTS
  r1 = r1  r2 = r2  r3 = r3  r4 = r4
  cash = cash  sales = sales
  None = None
  Request = {r1, r2, r3, r4}
  Account = {cash, sales}
  Date <- FiveDays
  Commands <- AllCommands
  InitialPeriods <- TwoPeriods
  InitialEntries <- OneEntry
INVARIANTS PeriodsDisjoint ReversedOnce
PROPERTIES LockedPeriodsAreFrozen PostedAccountsKeepStructure NoLostUpdate ImplementsBooks EveryRequestEnds
ACTION_CONSTRAINT NamedByKind
CHECK_DEADLOCK FALSE
