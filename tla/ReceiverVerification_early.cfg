SPECIFICATION Spec
CONSTANTS
  Tokens = {t1}
  NoBody = NoBody
  SessionLimit = 1
  MaxLost = 1
INVARIANT ResolvedIsFinal
CHECK_DEADLOCK FALSE
