\* A present's barrier on a ring that a teardown stops.
CONSTANTS
  MaxWrites = 2
  MaxVq = 1
  Modulus = 8
  Start = 7
  Buffer = 2
  Settings <- Stopped
SPECIFICATION Spec
PROPERTIES BarrierEnds
\* The guest may write nothing more, and a ring may end.
CHECK_DEADLOCK FALSE
