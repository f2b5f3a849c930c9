\* A batch held at the bound while a fence is held for a poll.
CONSTANTS
  c1 = c1
  s1 = s1
  Contexts = {c1}
  SubsOf <- SubsOne
  Ctx0 = ctx0
  Depth = 1
  MaxWork = 2
  MaxFences = 2
  MayRefuse = FALSE
  None = None
SPECIFICATION Spec
INVARIANTS OnlyGpuHolds
\* The VMM may ask for nothing more, and the waiter may be gone.
CHECK_DEADLOCK FALSE
