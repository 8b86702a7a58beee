SPECIFICATION FairSpec
CONSTANTS
  r1 = r1  r2 = r2  r3 = r3  r4 = r4  r5 = r5
  None = None
  Request = {r1, r2, r3, r4, r5}
  Document = {1, 2, 3}
  Total <- Totals
  Posted0 = {1, 2}
  Drafts0 <- TwoDrafts
  Commands <- AllCommands
INVARIANTS NeverOverAllocated AllocationsAreCovered PostedIffEntered LedgerExplainsReceivable DriftIsExplained
PROPERTIES ImplementsOpenItems EveryRequestEnds
CHECK_DEADLOCK FALSE
