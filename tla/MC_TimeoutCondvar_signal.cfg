\* Scenario 2 ends with the producer's signal, as the header comment says.
CONSTANTS
  TickMs = 20
  MaxSpurious = 1
SPECIFICATION Spec
INVARIANT Scenario2Signaled
CHECK_DEADLOCK FALSE
