SPECIFICATION FairSpec
CONSTANTS
  Drivers = {a, b}
  NoDriver = NoDriver
  Photos = {p1, p2}
  MaxGenerations = 1
  MaxRevisions = 2
  MaxFaults = 1
CHECK_DEADLOCK FALSE
INVARIANTS
  TypeOK
  SecondCopyHasACause
  FiledAsSubmitted
PROPERTIES
  RemovesOnlyWhatItSent
  PressIsAnswered
