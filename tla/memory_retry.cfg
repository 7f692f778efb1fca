SPECIFICATION Spec
CONSTANTS
  MaxEntries <- MCMaxEntries
  MaxKey     <- MCMaxKey
  MaxCalls   <- MCMaxCalls
  MaxHeld    <- MCMaxHeld
INVARIANT RetryGetsUpdatedMap
CHECK_DEADLOCK FALSE
