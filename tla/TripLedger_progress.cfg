SPECIFICATION FairSpec
CONSTANTS
  A = A
  B = B
  C = C
  Drivers = {A, B}
  Original = A
  NoDriver = NoDriver
  NoCapture = NoCapture
  Plan <- MCSingleLeg
  Sessions <- MCSingleLegSessions
  Formats = {"planned_v1", "immediate_v2"}
  FindingPhases = {}
  MaxRequests = 1
CHECK_DEADLOCK FALSE
PROPERTY TripReachesAnEnd
