\* An instance is destroyed while the VMM goes on fencing.
CONSTANTS
  r1 = r1
  r2 = r2
  q1 = q1
  q2 = q2
  d1 = d1
  d2 = d2
  None = None
  Rings = {r1, r2}
  Queues = {q1}
  Devices = {d1}
  DeviceOf <- Alone
  PoolSize = 2
  MaxFences = 2
  MaxDraws = 1
  MaxPresents = 0
  Ends = {"teardown"}
  Hung = {}
  MayFail = FALSE
SPECIFICATION Spec
INVARIANTS DestroyedIdle
\* The guest and the VMM may ask for nothing more.
CHECK_DEADLOCK FALSE
