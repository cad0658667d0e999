\* A deadline of 3 seconds of 3 ticks each, over more than three deadlines.
SPECIFICATION Spec
CONSTANTS
  Deadline = 3
  Sec = 3
  Lag = 2
  MaxTime = 45
INVARIANTS
  TypeOK
  NeverEarly
  ClosedInTime
CHECK_DEADLOCK FALSE
