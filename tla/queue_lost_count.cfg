SPECIFICATION Spec
CONSTANTS
  Capacity <- MCCapacity
  Modulus  <- MCModulus
  MaxSends <- MCMaxSends
INVARIANT CountIsOccupancy
CHECK_DEADLOCK FALSE
