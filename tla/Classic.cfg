\* A context whose batches are held at one fence; the driver may refuse.
CONSTANTS
  c1 = c1
  s1 = s1
  Contexts = {c1}
  SubsOf <- SubsOne
  Ctx0 = ctx0
  Depth = 1
  MaxWork = 2
  MaxFences = 2
  MayRefuse = TRUE
  None = None
SPECIFICATION Spec
INVARIANTS MeansRan QueriesAnswered BellKept GateHasReason
PROPERTIES ImplementsFenceOrder DropReturns
\* The VMM may ask for nothing more, and the waiter may be gone.
CHECK_DEADLOCK FALSE
