SPECIFICATION FairSpec
CONSTANTS
  vat = vat  acme = acme  other = other  n1 = n1  n2 = n2
  None = None
  Request = {r1, r2, r3}
  Day <- ThreeDays
  Code = {vat}
  Partner = {acme, other}
  Number = {n1, n2}
  Length <- Characters
  Commands <- AllCommands
  Rules0 <- OldRate
  Partners0 <- OldPartner
INVARIANTS OneRatePerDay PostableUnlessZero ArchivedPartnersRest
PROPERTIES NoLostUpdate EveryRequestEnds
CHECK_DEADLOCK FALSE
