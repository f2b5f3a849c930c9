\* A context is presented and destroyed, and then cleanup comes.
CONSTANTS
  MaxFences = 2
  Orderly = TRUE
  Stop = Stop
  None = None
SPECIFICATION Spec
INVARIANTS CleanupDelivers
\* The renderer is cleaned up once.
CHECK_DEADLOCK FALSE
