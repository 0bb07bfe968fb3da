SPECIFICATION FairSpec
CONSTANTS
  Tokens = {t1, t2}
  NoBody = NoBody
  SessionLimit = 1
  MaxLost = 1
INVARIANTS
  TypeOK
  QuotaHolds
  VerdictIsGrounded
PROPERTIES
  VerdictStands
  EventuallyDecided
CHECK_DEADLOCK FALSE
