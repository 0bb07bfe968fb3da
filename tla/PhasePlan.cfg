SPECIFICATION Spec
CONSTANT MaxStops = 4
INVARIANTS
  EachStopGetsItsPhases
  EveryArrivalFindsItsOwnLeg
