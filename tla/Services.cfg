\* Each part alone, on an instance of its own.
CONSTANTS
  Holders = {"renderer", "inner", "sync", "present"}
  Owner = "renderer"
  Streams = {"ring", "shown"}
  MaxFences = 2
  Stop = Stop
  None = None
  GpuRings = {"gfx", "sdma"}
  MaxSubmits = 1
  Rings = {1, 2}
  OversampleAbove = 3
  MaxSpurious = 1
  Ids = {"i1", "i2"}
  MaxKeys = 2
  MaxStorages = 2
  Sizes = {1}
  Cap = 1
  Handles = {1}
  Ctxs = {"c1", "c2"}
  MaxMade = 3
  Modes = 2
  MaxSlots = 3
  MaxJobs = 3
  Targets = {"t1"}
  Codecs = {"k1", "k2"}
  Depth = 1
  MaxOps = 3
  CmdRings = {"r1"}
  MaxRefs = 1
SPECIFICATION Spec
INVARIANTS IInv NothingLost LateOnlyIfMissed Counted VenusCapped ExportKept Reconciled TexturesKept OneWriter GlassKept ReadsLatest CompactionUnseen RestoreFaithful
PROPERTIES ImplementsFenceOrder WaitsEnd Answered TypedStays
\* Nobody need ask for anything, and a thread may be gone.
CHECK_DEADLOCK FALSE
