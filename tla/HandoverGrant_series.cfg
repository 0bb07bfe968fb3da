SPECIFICATION Spec
CONSTANTS
  Browsers = {b1, b2}
  NoBrowser = NoBrowser
  MaxTokens = 3
CHECK_DEADLOCK FALSE
INVARIANTS
  TypeOK
  RedeemedIsConfirmed
  OnlyExtensionRevives
