SPECIFICATION Spec
CONSTANTS
  MaxEntries <- MCMaxEntries
  MaxKey     <- MCMaxKey
  MaxCalls   <- MCMaxCalls
  MaxHeld    <- MCMaxHeld
INVARIANTS TypeOK MapBufferIsSound LeaksOnlyByRefetching ExitStatusIsTrue HandoffIsCurrent
CHECK_DEADLOCK FALSE
