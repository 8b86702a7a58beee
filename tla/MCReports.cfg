SPECIFICATION Spec
CONSTANTS
  Account <- Chart
  Type <- Types
  Document <- Documents
  Payment <- Payments
  Entry <- Entries
  Query <- Queries
  BankCode <- CashCodes
  MaxRows = 5
INVARIANTS SheetDrift AgedIsReceivable DashboardAgrees
CHECK_DEADLOCK FALSE
