\* Presents and fences over two queues of one device, which may end; any driver
\* call may fail.
CONSTANTS
  r1 = r1
  r2 = r2
  q1 = q1
  q2 = q2
  d1 = d1
  d2 = d2
  None = None
  Rings = {r1, r2}
  Queues = {q1, q2}
  Devices = {d1}
  DeviceOf <- Sisters
  PoolSize = 1
  MaxFences = 1
  MaxDraws = 1
  MaxPresents = 1
  Ends = {"destroy", "teardown"}
  Hung = {}
  MayFail = TRUE
SPECIFICATION Spec
SYMMETRY SisterSymmetry
INVARIANTS PoolSound PresentCovers Ordered
\* The guest and the VMM may ask for nothing more.
CHECK_DEADLOCK FALSE
