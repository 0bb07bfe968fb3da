SPECIFICATION Spec
CONSTANTS
  A = A
  B = B
  C = C
  Drivers = {A, B, C}
  Original = A
  NoDriver = NoDriver
  NoCapture = NoCapture
  Plan <- MCEmptyRun
  Sessions = {}
  Formats = {"immediate_v2"}
  FindingPhases = {"confirmation"}
  MaxRequests = 3
SYMMETRY MCSymmetry
CHECK_DEADLOCK FALSE
INVARIANTS
  TypeOK
  LedgerInOrder
  PositionFollowsLedger
  AttributedToHolder
  RetriesAcknowledged
  AcknowledgedToItsAuthor
  ChainUnbroken
  IncomingAccepted
PROPERTIES
  ImplementsCustodyRecord
