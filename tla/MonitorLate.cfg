\* A second ring asks for a shorter period; the condvar wakes for cause only.
CONSTANTS
  Rings = {1, 2}
  Wants <- Periods
  OversampleAbove = 3
  MaxSpurious = 0
SPECIFICATION Spec
INVARIANTS ShortenedInTime
\* Nobody need ask for anything, and the thread may be gone.
CHECK_DEADLOCK FALSE
