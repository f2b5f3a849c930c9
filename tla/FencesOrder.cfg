\* One ring over two devices, bound, forgotten and bound again, and a
\* present; one of the queues may hang.
CONSTANTS
  r1 = r1
  r2 = r2
  q1 = q1
  q2 = q2
  d1 = d1
  d2 = d2
  None = None
  Rings = {r1}
  Queues = {q1, q2}
  Devices = {d1, d2}
  DeviceOf <- Apart
  PoolSize = 1
  MaxFences = 2
  MaxDraws = 0
  MaxPresents = 1
  Ends = {"destroy"}
  Hung = {q1}
  MayFail = FALSE
SPECIFICATION Spec
INVARIANTS StoppedByItsEnd DestroyedIdle
PROPERTIES ImplementsFenceOrder WaitsEnd
\* The guest and the VMM may ask for nothing more.
CHECK_DEADLOCK FALSE
