\* Batches that run, ask the driver, wait for a seqno, fail to decode or overrun,
\* under busy retries and a teardown.
CONSTANTS
  MaxWrites = 2
  MaxVq = 1
  Modulus = 8
  Start = 7
  Buffer = 2
  Settings <- Batched
SPECIFICATION Spec
INVARIANTS HeadHonest AskedOnce
PROPERTIES StopJoins ImplementsCommandStream
\* The guest may write nothing more, and a ring may end.
CHECK_DEADLOCK FALSE
