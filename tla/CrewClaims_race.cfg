SPECIFICATION Spec
CONSTANTS
  Trips = {1, 2, 3}
  Drivers = {1, 2}
  Vehicles = {1, 2}
  BookedDriver <- MCBookedDriver
  VehiclesOf <- MCVehiclesOf
  Start <- MCStart
  End <- MCEnd
  OnStops = {3}
  w1 = w1
  w2 = w2
  Workers = {w1, w2}
  Exchanges = {2, 3}
  Formats = {"planned_v1", "immediate_v2"}
  NoOffer = NoOffer
  NoClaim = NoClaim
  DayLength = 6
  UtcOffset = 5
  Forever = 100
  MaxTime = 4
SYMMETRY MCSymmetry
CHECK_DEADLOCK FALSE
INVARIANTS
  TypeOK
  OneTripAtATime
  NoDoubleBooking
  NoWaitCycle
PROPERTIES
  StartedInOrder
