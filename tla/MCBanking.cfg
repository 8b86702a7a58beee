SPECIFICATION FairSpec
CONSTANTS
  r1 = r1  r2 = r2  r3 = r3
  t1 = t1  t2 = t2  t3 = t3  t4 = t4
  savings = savings  cash = cash  bank = bank  sales = sales
  p1 = p1  p2 = p2
  b0 = b0  b1 = b1  b2 = b2
  None = None
  Request = {r1, r2, r3}
  Code = {savings}
  LedgerCode = {cash, bank, sales}
  Usable = {cash, bank}
  Reference = {b0, b1, b2}
  Transaction = {t1, t2, t3, t4}
  Payment = {p1, p2}
  Agree <- Pairs
  Posted0 = {p1}
  Batches0 <- OldBatch
  Commands <- AllCommands
INVARIANTS BatchesAreWhole MatchedOnce MatchesAgree
PROPERTIES MatchesAreFinal EveryRequestEnds
CHECK_DEADLOCK FALSE
