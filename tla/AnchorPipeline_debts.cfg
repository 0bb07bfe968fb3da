SPECIFICATION FairSpec
CONSTANTS
  Rows = {r1, r2}
  Unrebuildable = {r2}
  Altered = {r2}
  Workers = {w1, w2}
  NoRow = NoRow
  MaxRetries = 1
  Batch = 1
  MaxFaults = 2
INVARIANTS
  TypeOK
  ReceiptIsReal
  AttemptsSerialised
  SurplusCostsAFault
  AlteredStaysOwed
PROPERTY DebtsArePaid
