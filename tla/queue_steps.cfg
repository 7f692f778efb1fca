SPECIFICATION Spec
CONSTANTS
  Capacity <- MCCapacity
  Modulus  <- MCModulus
  MaxSends <- MCMaxSends
INVARIANTS TypeOK CountInRange DriftBounded FifoUnlessOverlapped
PROPERTY FifoStepsUnlessOverlapped
CHECK_DEADLOCK FALSE
