\* At the doorbell, two writes across the wrap, an idle timeout of one tick, a present
\* and a teardown; at the seqnos, two writes, of virtqueue waits and a command that
\* does not decode too, and two stream commands of submit, wait and destroy.
CONSTANTS
  MaxWrites = 2
  MaxVq = 1
  Modulus = 8
  Start = 7
  Buffer = 2
  Settings <- Waits
SPECIFICATION Spec
INVARIANTS NoLostDoorbell RefusalSound HonestNeverDrained NoSleepThrough
PROPERTIES WorkRuns WaitsEnd
\* The guest may write nothing more, and a ring may end.
CHECK_DEADLOCK FALSE
