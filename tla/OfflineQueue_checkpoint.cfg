SPECIFICATION CheckpointSpec
CONSTANTS
  a = a
  b = b
  NoDriver = NoDriver
  Drivers <- MCDrivers
  Custody <- MCCustody
  MaxGenerations = 1
  Rows = 1
  MaxCaptures = 1
  MaxFaults = 1
INVARIANT NoneUnderAnotherName
CHECK_DEADLOCK FALSE
