SPECIFICATION Spec
CONSTANTS
  A = A
  B = B
  C = C
  Drivers = {A, B}
  Original = A
  NoDriver = NoDriver
  NoCapture = NoCapture
  Plan <- MCEmptyRun
  Sessions = {}
  Formats = {"immediate_v2"}
  FindingPhases = {}
  MaxRequests = 1
CHECK_DEADLOCK FALSE
INVARIANT NoPendingOnEndedTrip
