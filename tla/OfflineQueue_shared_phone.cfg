SPECIFICATION Spec
CONSTANTS
  a = a
  b = b
  NoDriver = NoDriver
  Drivers <- MCDrivers
  Custody <- MCCustody
  MaxGenerations = 2
  Rows = 2
  MaxCaptures = 2
  MaxFaults = 1
INVARIANTS TypeOK SentAsCapturer LiveOrLate
PROPERTY NothingLost
CHECK_DEADLOCK FALSE
