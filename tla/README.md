# virglrs in TLA+

virglrs is a virtio-gpu host renderer: it takes the command streams, the
shared-memory rings and the blob requests of a guest and runs them against the
host's Vulkan (venus), OpenGL (vrend) or kernel driver (drm), and it answers the
guest's fences. Most of what can go wrong in it and cannot be unit-tested is in
the threads between those parts: one per command ring, one per bound fence ring,
one per context for presents, one for fence retirement, a monitor, and the VMM's
own thread that drives them all. The models here are of those threads.

The source is `src/src` in the paths below, so `fence.rs` is `src/src/fence.rs`.

## The system

| component | state it keeps | operations | talks to |
|---|---|---|---|
| fence retirement, `fence.rs` | a queue of answered fences, a stopped flag, shares of the queue | push a fence, share, drop a share, pop and deliver | every fence source pushes; it calls the embedder's `FenceSink` |
| command ring, `venus/ring_thread.rs`, `venus/ring.rs` | head, tail and status words in guest memory; the park state (started, notified, virtqueue seqno, blocked-on seqno); a kept batch and a pending driver answer | create, promote, doorbell, read a batch, offer, publish, suspend, park, stop, join | dispatches batches into `venus/context.rs` under the context lock (`venus/vkr.rs` RingDispatch) |
| ring waiters, `venus/ring_thread.rs` RingWaiter, BarrierWaiter | a position waited for; the context's WaitRing mutex and condvar | check, sleep, reach, refuse | woken by ring threads; used by the VMM's stream and the present thread |
| venus context, `venus/context.rs` | objects, rings, reply streams, blob exports, poison (fatal) | submit, run a batch, wait, create and destroy rings, decode barrier | VMM thread (stream), ring threads (batches) |
| bound fences, `venus/driver.rs` HostQueue, RingQueues | ring → queue bindings; per queue a spare pool of VkFences; per ring a channel and a sync thread | bind, forget a device's queues, fence, wait out, retire | GPU queues; fence retirement |
| present path, `venus/driver.rs` PresentSync, `venus/vkr.rs` present_fence | a channel of presents, the thread that serves it | take barriers, wait them out, submit one empty fence per queue, retire | ring waiters, bound queues, fence retirement |
| sink and cleanup, C ABI, `ffi.rs`, `renderer.rs` | the sink slot and its deferred queue, the renderer, contexts | fences, polling, context lifecycle, cleanup | everything; the VMM calls it on one thread |
| renderer resources, `renderer.rs` | resources, attachments, blobs | create, attach, map, unref | contexts, platform glue |
| monitor, `venus/monitor.rs` | watched rings and the reporting period | watch, shorten, drop, report alive | sets a status bit on each ring |
| classic GL, `vrend/` | GL contexts, resources, transfers, shaders, queries; `waiter.rs` the fence waiter's queue and its pump, `in_flight.rs` each context's count of fences, `video/pending.rs` pictures being decoded | decode and run GL command streams, take fences, hold a batch at the bound, answer queries, drop the waiter | GL driver; the VMM's poll; fence retirement |
| drm native contexts, `drm/` | host objects, kernel timelines | ioctl proxying, submit, fence timelines | kernel; fence retirement |
| budget, `budget.rs` | per-account and global charges, watermark | open, charge, discharge | allocations everywhere |
| present copy, `venus/present_copy.rs` | a ring of copy slots | take a slot, submit, recycle | the display's surfaces |
| snapshot journal, `venus/journal.rs` | the creates, writes and frees of a context, the commands of its recordings, the latest state of its rings | record, discard a recording, compact, export what a restore replays | the context's recorder and object table; a restore runs it through the context's own dispatch |
| capture and replay, `trace.rs`, `vrend/journal.rs` | recorded streams | record, replay | contexts |
| platform glue, `metal.rs`, `gbm.rs`, `dmabuf.rs`, `surface.rs`, `vaapi.rs`, `videotoolbox.rs`, `guest_mem.rs` | OS handles | import, export, map | OS |

What is hard, by component:

* **Fence retirement.** The sink may block, fences are pushed from many threads,
  and whichever share goes last stops and joins the thread. Correct when each
  stream's fences come out in order, none is lost by a teardown, none is pushed
  after the stop, and the last drop returns.
* **Command ring.** The guest and the ring thread share words without a lock: the
  guest stores a tail and then loads a status, the thread stores a status and then
  loads a tail, and the guest throttles its doorbells. Positions are 32-bit and
  wrap. A dispatch may be refused because a lock is busy, a batch may be suspended
  in the middle on a virtqueue seqno or a driver wait, and a teardown stops and
  joins the thread while it holds the context lock the thread needs. Correct when
  no work sleeps, commands run once each and in order, the head never passes a
  command that has not run, and the join returns.
* **Ring waiters.** The stream waits for a ring that may itself be waiting for the
  stream. The waiter must tell that deadlock from a wait that will end, from two
  separate reads of words other threads change. Correct when it refuses only real
  deadlocks, sleeps through no answer and always ends.
* **Bound fences.** A guest fence on a bound ring may not be answered before the
  GPU has finished everything submitted before it; VkFences are pooled and reused;
  a hung GPU must not hang a teardown; a destroyed device's queues disappear while
  threads wait on them. Correct when a retirement follows the GPU work it stands
  for, a pooled fence is never still pending, a ring's fences stay in order and a
  device's destruction returns.
* **Present path.** A frame's fence covers what the guest wrote to its rings
  before the present and the GPU work those commands submit. Correct when it does,
  and when every present is answered.
* **Sink and cleanup.** The retirement queue lives as long as any share of it, and
  shares are held by the renderer, by each context and by the context's threads; a
  context is torn down on whichever thread lets go of it last. Correct when a
  destroyed context has answered its fences and cleanup returns having told the VMM
  of every one.
* **Classic GL.** One thread has the guest's GL contexts current and takes the
  fences; another waits for them; a decode lands on a third. A fence may cover work
  on several command queues and queries only the first thread can read, and that
  thread may itself be held for a fence. Correct when a retired fence's work has run
  and its queries are answered, fences retire first in first out, no ring of the
  poll bell is lost, a batch is held only for a fence under way, and the waiter's
  drop returns with nothing owed.
* **Monitor.** One thread sets a bit of every watched ring once a period, and the
  period shrinks when a more demanding ring comes. Correct when a ring is stamped in
  time also while the thread sleeps on a longer period, and when a stop never waits out
  a sleep.
* **drm native contexts.** One thread waits on the heads of every ring's queue at once,
  with its lock let go of; submissions of one ring finish in any order, hang, or have no
  sync; a push wakes the thread through a socket. Correct when a fence is answered only
  once what it covers is done, in its ring's order, whatever another ring does, and the
  drop never waits for the GPU.
* **Budget.** A charge lives in the storage it paid for, which outlives the context,
  its memory object, and even the context's id: other contexts import it and the
  embedder holds it. Correct when each bucket is what stands, whoever lets go last and
  on which thread, and when what contexts made stays within the cap.
* **Renderer resources.** A guest's handle is in two tables that are brought together
  lazily: the renderer's entry goes at once, vrend's storage at the next place with a GL
  context, and by then the handle may name another resource, or a framebuffer may draw
  into the storage. Correct when a handle is the same resource in both, nothing drawn
  into is deleted, and what a guest typed stays typed.
* **Present copy.** The VMM's thread picks a surface, another finishes the copy, the
  display shows it and the window server holds it for as long as it likes. Correct when
  no copy is made into a surface another copy is being made into, or into the one on the
  display.
* **Snapshot journal.** A restore replays what the journal kept, and a compaction drops
  what no export could carry, at any time, while the guest goes on. A command is kept for
  what is true of its objects, and its objects' makers for being named. Correct when a
  compaction is never seen and the replay makes what the guest holds: every name there,
  nothing freed come back, every recording what its buffer holds.
* **Video landing.** Decodes finish on threads of their own, into textures that commands
  read, replace and destroy meanwhile. Correct when each command finds a texture as if
  every decode before it had been done at its END_FRAME, and everyone who waits for a
  picture gets to go on, whether or not it was decoded.

## The modules

| module | models | size of the instance |
|---|---|---|
| `FenceOrder` | abstract: each stream's fences answered one at a time, in order, all of them | refined by `Retirement`, `Timeline`, `QueueFences` and `ClassicWaiter` |
| `Retirement` | `fence.rs`, complete | 3 shares, 2 streams, 2 fences each |
| `FenceJobs` | what `Retirement` and `Shutdown` both speak of: shares, streams, jobs | |
| `CommandStream` | abstract: written commands run in order, once each | refined by `Ring` |
| `Ring` | one command ring with its guest, its context's stream, its waiters and a present's barrier | 2 writes, up to 2 stream commands |
| `MCRing` | the settings the Ring runs put a ring in | |
| `QueueFences` | fences of one context behind GPU work: pool, sync threads, presents, the two ends of a device | 1 or 2 rings, 1 or 2 queues and devices |
| `MCQueueFences` | which device each queue belongs to, and the symmetry of the rings | |
| `ClassicWaiter` | the classic GL fence waiter, the bound on fences in flight, the query pump | 1 context on 2 command queues, 2 fences, 2 pieces of work |
| `MCClassicWaiter` | the command queue of the context | |
| `Shutdown` | who holds the retirement queue and a context, and cleanup; composes `Retirement` (INSTANCE) | 1 context, 1 ring, 2 fences, 2 presents |
| `Timeline` | a native context's fences (`drm/timeline.rs`) and what they wait for | 2 rings, 2 fences and 1 submission each |
| `Monitor` | the ring monitor (`venus/monitor.rs`) | 2 rings, periods of 9 and 2 ticks |
| `MCMonitor` | those periods, for the run of the monitor alone | |
| `Memory` | the ledger of host memory (`budget.rs`) and everyone who holds a share of what was charged | 2 context ids, 2 occupants of them, 2 storages |
| `HostTable` | the renderer's resource table and vrend's (`vrend/resource.rs`, `vrend/vrend.rs`) | 1 handle, 2 contexts, 3 resources |
| `PresentCopy` | the copies a scanout's frames are shown through (`venus/present_copy.rs`) | 2 modes, 3 surfaces, 3 presents |
| `Landing` | decoded pictures on their way to their textures (`vrend/video/pending.rs`) | 1 texture, 2 codecs, 3 decodes or writes |
| `Journal` | what a venus context's journal keeps and a restore replays (`venus/journal.rs`) | 7 choices of how many commands of each kind, at most 3 objects an allocate, 1 ring |
| `MCJournal` | two allocates and a free, for the run of the journal alone | |
| `MCServices` | the nine parts that share no state, side by side: `Retirement`, `Shutdown` and the seven above (INSTANCE) | |
| `RingProofs`, `QueueFencesProofs`, `ClassicWaiterProofs`, `MemoryProofs`, `HostTableProofs`, `LandingProofs`, `JournalProofs` | the proofs about those modules | every value of the constants |
| `ServicesProofs` | the proofs about `Retirement`, `Timeline`, `Monitor` and `PresentCopy`, and the theorems of the parts of `MCServices` | every value of the constants |

### Retirement

`jobs` and `stopped` are the two fields of `Queue`; the mutex around them makes
`push` and the thread's pop single steps. `holders` is the reference count of
`Inner`, as the set of who holds a share: `Retire`, `Share` and `DropShare` are the
public operations on either kind of share, and the share that goes last pushes
`Stop` and joins. `thread`, `hand` are the program counter and the local of `run`:
`Pop`, `Sleep`, `Deliver`, `Finish`. Delivery is a step of its own with nothing
held, so a push may come between the pop and the sink's call. `made`, `delivered`
and `refused` are histories. `services` checks the inductive invariant of the proofs, that nothing is
lost, that the drop returns, and the refinement of `FenceOrder`.

### Ring

`setting` is what the guest and the VMM may do in a behaviour, chosen at the start from
`Settings`: the commands it may write and send, how many, how long an idle timeout is,
whether it lies, whether there is a teardown. Actors and their steps, one action per
shared access that another actor can see:

* the guest driver (external: it is Mesa's): `GuestWrite` stores the tail,
  `GuestLook` then loads the status and rings the doorbell if it reads IDLE and its
  window has passed; `GuestSend` sends stream commands; where the setting has it lie it also overruns
  its buffer and waits for positions it never wrote.
* the VMM thread: it takes the context's stream one command at a time
  (`StreamNotify`, `StreamSubmit`, `StreamWait`, `StreamDestroy`, `StreamBad`), and a
  suspended wait leaves the command at the front to be decoded again, as
  `submit_all` does. `Promote` gives the ring its thread; `DestroyContext`,
  `StopRing`, `JoinRing` are the teardown, with the context locked until the join.
* the ring thread: `run` line by line (`Top`, `TakeDoorbell`, `SetIdle`, `ParkTail`,
  `Rewake`, `Unpark`, `Read`, `Busy`, `Dispatch`, `Publish`, `PublishChanged`, `Block`,
  `Announce`, `VqSleep`, `VqOver`, `Unblocked`, `Driver`, `Die`, `Poisoned`, `Exit`).
  A batch runs under the context lock and is one step, `Dispatch`; its prefix up to
  the first command that stops it is `ran`.
* the waiters: `RingWaiter::run` one read at a time (`CheckFatal`, `CheckHead`,
  `CheckStall`, `DrainHead`, `DrainTail`), asleep until `changed` or the half-second
  timeout.

Locks are read off the program counters instead of being variables: `ParkFree`,
`WaitFree` and `ContextFree` say which counters hold them. Positions are counted
modulo `Modulus` and the ring is created at `Start`, just short of the wrap, so
`seqno_ge` and the tail arithmetic cross it in every run. `cur` is kept unwrapped
because the properties compare it with lengths; every use in the code's own
arithmetic goes through `Pos`.

A command is its effect on the ring: `run` (any command that just runs), `ask` (one
that needs a driver wait), `vqwait` (waits for a virtqueue seqno), `bad` (does not
decode). What the commands do to Vulkan objects is left out.

### QueueFences

Actors: the VMM thread (`CreateFence`, `RetireUnbound`, `SubmitFence`,
`PresentFence`), a ring thread that decodes, binds and ends devices one at a time
under the context lock (`Decode`, `Bind`, `DestroyDevice`, `TeardownInstance` and the
steps of `Ender`), one sync thread per bound ring (`Sync`), the present thread
(`PresentThread`) and the GPU queues (`Gpu`, external). The mutex on the bindings is
read off the counters (`BoundFree`): `RingQueues::fence` holds it from the lookup to
the send, `forget_device` through its joins, and the present thread only to copy the
set of queues.

`gpu[q]` is what a queue was given and has not finished, in order: pieces of work
and fences to signal. `pool` says where each VkFence is; a fence that `wait_out`
leaves behind stays `out` for good (`LeftOut`). `hand[r].how` records how a wait ended,
and `cover` how much work its queue had been given when the guest's fence was
submitted; both are histories the properties read, like the `frame` of a present. `MayFail` lets any driver call be
refused, `Hung` names queues that may hang (which of them do is chosen at the start), `Ends` says which of the two ends a
device may meet. A device destroyed by the driver lives on until the present thread
lets go of its queues (`Gone`).

Left out: what commands do besides giving a queue work, the macOS copy that takes an
empty submit's place, and the present barrier's giving up, which is `Ring`'s.

### ClassicWaiter

Actors: the VMM's thread, which runs batches (`Submit`, `GateOver` when it was held at
the bound, `Transfer`, `ContextDestroy`), takes fences (`Fence`: the three entry points
differ only in whom they tell), polls (`Subscribe`, `Drain`, `Look`, `Check`, `Release`,
the steps of `Pump::serve` between its locks) and drops the waiter (`StopQueue`,
`StopPump`, `Join`); the waiter's thread, `run` line by line (`Pop`, `SleepOrGo`,
`WaitOut`, `GiveBack`, `Ask`, `Ring`, `AskLook`, `Retire`); the command queues (`Gpu`,
external) and the decode threads (`Land`).

Work is a count per command queue, and a sync is the count its queue had reached. A
context's work is on its sub-contexts' queues and on ctx0's (`WorkOf`); the blitter's own
context is in neither the code's set nor the model's, as `vrend.rs:1521` says. A
parked query is the place of its end on its queue, ready once that has run. `Fence`
is `queries_before_fence`, `decide_fence` and `push` in their order: finish the work when
nobody promised to poll, take a sync on every queue or, refused one, finish them all,
and take a place under the bound only for a fence that has syncs. `PumpFree` reads the
pump's lock off the waiter's counter: `ask` holds it from its count through its byte.
`at`, `covers`, `refused` and `let` in a job are histories for the properties.

`Depth` is `fence_depth`: 1 stands for the default of 16, since a held batch only asks
whether the count is below it. The gate's patience is a step that may come at any
time. Left out: the renderer without a waiter, `VIRGLRS_FENCE_FINISH`, what is drawn or
uploaded, and how a landed picture reaches its texture.

### Shutdown

`Retirement` is instantiated as `R` with four shares: the renderer's, the one in a
context's `RingQueuesInner`, the sync thread's and the present thread's. `slot` is who
holds the context (the renderer, and a ring thread for one dispatch) and `inner` who
holds its `RingQueuesInner` (the context and, once it exists, the present thread: that
share is the cycle the last run is about). `LetGo` starts the teardown on whichever
thread lets go last; `TearStop`, `TearJoin`, `TearDrop` are its effect on fences. The
sink hands over at once or, `deferred`, when the VMM polls. `kept` remembers that
cleanup left a share of the queue behind.

### Timeline

One variable per field: `queue` and `stop` are `State`, `woken` whether the socket has
something to read, `last` the `last_submit` of `amdgpu/device.rs`. `Submit` and
`SubmitUnsynced` are a submission the kernel took, with and without a sync_file;
`Complete` finishes any one of a ring's submissions, since two GPU contexts on one ring
are not ordered. `Fence` takes the ring's sync, `Push` queues behind what is there or
retires at once, `Kick` wakes the thread once the lock is let go of. The waiter is
`wait` line by line: `Look`, `RetireReady` and `Collect` under the lock, `Poll` without
it, `Lock`, `RetireHead`; the lock is read off its counter (`LockFree`). `covers` is a
history: the newest submission of the ring that was answered as done when the fence was
taken.

### Monitor

`Ask` and `Watch` are vkCreateRingMESA starting or joining the monitor, `Shorten` the
store and the notify, `Destroy` the ring's end, `Drop` and `Join` the monitor's. The
thread is `Top` (reads the period and lets go of it), `Stamp`, `Sleep`, `Wake`;
`left` is what its sleep has left and `since[r]` how long ring `r` has been without a
stamp. Code takes no time: `Tick` moves the clock only while the thread sleeps and no
caller is inside `watch`, so a ring that is late is late by construction and not by
scheduling. A condvar may wake for no cause, `MaxSpurious` times, and then the sleep
begins anew, as the code's does. `missed` remembers a shorten that came between the
thread's read and its sleep, which is what `monitor_late` is about.

### Memory

A storage is what one charge paid for. `store[s].holders` and `.importers` are its
shares: the dispatch making it (`plan`), the context's record, the VMM's stack, a blob
of the renderer, a texture waiting to be deleted, the records of contexts that imported
it. `Held` is the one place a share goes, and when the last one does `Credit` finds the
payer's slot by the payer's key, as `slot_of` does: the id may have another occupant by
then (`Open`, `Retire`), or the account may be gone and its charges moved to the
shared bucket. `Admit` .. `Record` or `DriverRefuses` are an allocation on a ring thread, without the
ledger's lock in between; `Export` and `Insert` publish it, `Import` takes a share,
`FreeMemory`, `Unref`, `Sweep`, `Tear` and `Collect` let go of theirs. A refusal
stops its context, which is the default of `kills_context`. A bucket is kept as the set
of its charges where the code keeps counts by kind and size; `Bytes` is its sum.
`journal` is the contexts' own list of what to replay, and `Collect` what prunes it.

### HostTable

One thread does all of it, so the actions are the guest's calls in any order: on the
renderer's side `Create`, `CreateBlob`, `Claim`, `Unref`, `Attach`, `Detach`,
`ContextCreate`, `ContextDestroy`, `Reset`; on a context's `Describe`, `SetType`,
`Bind`, `Unbind`; and `Look`, any other call that reads the table. A handle whose claim
is gone is in `condemned` until `Sync` takes its storage out of the map and parks it;
`Sweep` deletes what is parked unless a framebuffer of any context holds it, and keeps
that in `doomed` to be asked again. Each action does the sync or the sweep the code's
entry does, no other. Resources are numbered as they are made, so that a reused handle
can be told from the one it replaces.

### PresentCopy

`Hand` is `Ring::job`: it drops the slots of another shape, takes a free one or mints one, and
remembers the last two; `HandUnsent` is a job the context could not send, `Busy` a
present left uncopied because every slot is taken. A job ends by `Retire` and `Drop` (the fence
is retired, then the slot given back) or, never made, by `Lose` and `RetireLost`. Copies
end in any order. External: the display shows the newest frame retired, and the window
server takes and lets go of what it shows (`Take`, `LetGo`).

### Landing

The render thread's commands are told by their effect on a texture: a decode
(`EndFrame` delivers what has landed, `Replace` waits for the decode still pending
there, `Send` gives the codec its job), a read or a write (`Command`, `Settle`, then
`Read` or `Write`), a texture's destroy, which drops what is pending on it, a codec's
destroy with its join, and the drain of everything before the embedder reads. The decode threads are `Decode`,
`DecodeOne`, which may yield no picture, and `Land`. A decode writes its texture itself (`composite`, where the platform can) or has
the render thread upload it. The fence waiter sleeps on the newest decode of a codec (`Fence`, `Retire`). The last of several
decodes of a texture, and every write, is told by its number, so what a texture holds
can be compared with what the order of the commands says it should.

### Journal

A key is the number of the object made, so an id's second use is a new key: the arena's
generations never come back. `journal` is the entries and the recordings of a `Journal`,
as sets, their order kept in `seq`; `twin` is told the same and never compacted, which is
what a compaction is compared with. `Create`, `Mutate`, `Destroy`, `Free`, `Begin`, `Add`,
`PoolReset` are the guest's commands by what `record` makes of them, `Export` and `LetGo` the VMM's hold
on an allocation, `Latest` with its four users the state of a ring or of the context's own
stream that a later command replaces (`slots`). `Compact` may come at any time: when it is due
decides only when. The operators from `Live` to `KeepSet` are `keep_set` pass by pass; its
two fixpoints, over buffers that execute each other and creates that name each other, are
stated as the greatest and the least set they compute. `tape`, `runs` and `void` are Vulkan's own
account (external): what each buffer holds, what it executes, and whether something it
executes was begun again, reset or freed. A behaviour spends a budget of commands by kind,
one of `Budgets`, each made for one sort of history: creates that name creates, frees of a
batch, an exported allocation, recordings that execute each other, rings.

A command pool is taken to stand throughout, and a run of command buffers is one create
of as many objects.

### MCServices

The nine parts share no variable but `Retirement`'s, which `Shutdown` composes with the
context's end, so a step of one commutes with a step of another. A behaviour is one part's, chosen at the start;
the others stay in an initial state. Interleaving them would multiply the states and
show nothing: no property relates two parts, and each part's fairness asks only for its own
steps. Where the code does join them (a native context or the classic waiter
retires into the retirement queue, a landed decode is asked about by the fence waiter) the module
has the other side as an action of its own (`Push`, `Fence`), free to come whenever it
may.
## The runs

| run | bounds | what it shows |
|---|---|---|
| `ring_waits` | a ring in two settings: 2 writes, a timeout of a tick, a present and a teardown; and 2 writes with virtqueue seqnos and bad commands, 2 stream commands of submit and wait | `NoLostDoorbell`, `WorkRuns`: the store/load handshake of guest and ring, the guest's throttle and a seqno that comes before the sleep leave no work asleep; `RefusalSound`, `HonestNeverDrained`, `NoSleepThrough`, `WaitsEnd`: a wait is refused only in a real deadlock, and every wait ends |
| `ring_batch` | 2 writes of any command, overruns, a lying guest, a bad stream command or a destroy, teardown | `HeadHonest`, `AskedOnce`, `StopJoins`, `CommandStream` implemented |
| `fences_order` | 1 ring, 2 devices with a queue each, 2 fences, 1 present; one queue may hang | `StoppedByItsEnd`: a device that ends stops no other's threads; `DestroyedIdle`; `FenceOrder` implemented across binding, forgetting and binding again; `WaitsEnd`: a hung queue does not keep `forget_device`, and a present is answered if none hangs |
| `fences_present` | 2 rings, 2 queues of a device, 1 fence each, 1 piece of work, 1 present, any driver call may fail, both ends | `PresentCovers`: a present's fence follows the work it stands for on every queue; `PoolSound`: a VkFence in the pool is never pending; `Ordered`: a fence waited for stands for the work drawn before it, whoever had its VkFence before |
| `classic` | 1 context on 2 command queues, 2 pieces of work, 2 fences, bound of 1, syncs and waits may be refused | `MeansRan`, `QueriesAnswered`, `BellKept`, `GateHasReason`, `DropReturns`, `FenceOrder` implemented |
| `services` | each of the nine parts on the instance of the table above | see below |
| `ring_barrier_stopped` | 1 present, teardown | violated: a barrier whose ring is stopped short of the tail never ends |
| `fences_teardown` | 2 fences, teardown of the instance | violated: a device goes with a fence in flight |
| `classic_standoff` | as `classic`, nothing refused | violated: a batch at the bound and a fence held for a poll wait for each other |
| `shutdown_present` | the context is destroyed before cleanup | violated: cleanup returns with fences untold |
| `journal_frees` | 2 allocates of up to 2 objects, 1 free | violated: an export carries a free of objects whose allocate it does not |
| `monitor_late` | 2 rings, a shorter period after a longer, no spurious wake-up | violated: a ring watched while the thread stamps is stamped late |

What `services` says of each part:

| part | properties |
|---|---|
| retirement | `IInv` (the invariant of its proofs), `NothingLost`: each fence handed out is delivered, in hand or queued; `WaitsEnd`: the last drop returns; `ImplementsFenceOrder` |
| shutdown | `NothingLost`: a destroyed context has answered its fences, a cleanup that nothing outlives has told the VMM of all; `WaitsEnd`: cleanup returns |
| timeline | `IInv`: a fence is answered only when what it covers is done, also one with no sync of its own, and the head the thread waited for is there when it is popped; `Answered`: neither another ring's hang nor a wake-up sent while the thread is elsewhere loses one; `WaitsEnd`; `ImplementsFenceOrder` |
| monitor | `LateOnlyIfMissed`: a stamp is late only when the shorter period came between the thread's read and its sleep, or the sleep began anew; `WaitsEnd` |
| memory | `Counted`: each bucket is the storages that stand and that it answers for, and no credit misses its charge; `VenusCapped`: contexts' storages stay within the cap; `ExportKept`: what anyone holds is in the journal of the context that published it |
| table | `Reconciled`: a handle is one resource in both tables, and no assertion of vrend's fails; `TexturesKept`: what a framebuffer draws into is not deleted; `TypedStays`: what a guest gave a type keeps it |
| copy | `OneWriter`, `GlassKept`: one copy at a time into a surface, and none into the one on the display while presents are retired as they come |
| journal | `CompactionUnseen`: an export, now or after whatever comes, carries what it would had nothing been compacted; `RestoreFaithful`: a replay of it misses no name but a free's, has at its end all that lives and nothing freed, gives each buffer what it holds unless Vulkan has invalidated it, and what is about a ring comes after the ring |
| landing | `ReadsLatest`: a command finds a texture as the order of the commands before it left it, every decode of it done; `WaitsEnd`: everyone at a landing goes on |

Bounds and why they are enough. Every hazard of the ring is between one write and
the next or between one wait and one announcement: two writes give a batch that
splits, or a write that lands during a park. A timeout of one tick lets the ring's
quiet period and the guest's window be out of step in both directions; zero
elsewhere makes the ring park whenever it may. A modulus of 8 with a buffer of 2
satisfies the condition under which the wrapped comparison is meaningful
(`RingConstants`), and starting at 7 puts the wrap after the first write. A pool of
one fence is enough for reuse, since a fence comes back while the next one is made;
two fences on a ring are the fewest that can be out of order; two devices are needed
for one to end while a ring is bound to the other, two queues for a present to be
half-way. One piece of work, drawn between two uses of the one
VkFence, is what a fence reused too early would answer for; `fences_order` draws none, since what it
asks is which threads stop and which waits end, and no call but a fence's making fails there, so
its `WaitsEnd` covers a present whose fence is refused or whose device ends, and not one whose submit is
refused (`fences_present` has those, for safety only). In `fences_present` the rings are
interchangeable, and so are the two queues of the one device, so `SisterSymmetry` is
sound: no property or constant names one, and no liveness is checked there. In
`classic` a fence is both in hand and in the queue with two fences, the fewest for a
standoff or an order; ctx0's queue is the second one a fence can miss, and two pieces of
work let a query be followed by an upload that its sync has to cover. In
the shutdown part one context is enough because contexts share nothing but the queue.
Two rings of a timeline are the fewest for one to hang beside another, and one
submission with two fences gives a fence with nothing of its own behind one that waits.
The monitor's periods of 9 and 2 have cadences of 3 and 2 (a period above `OversampleAbove`, 3 ticks here, is stamped three times), the closest in which a missed shorten is late. Two occupants
give an id its second life while a charge of its first stands, or two contexts one storage to share; a cap of one
storage is full at once. Three resources on one handle reach every order of the condemned, the parked
and the doomed, which are what a reuse can be confused with; a second handle multiplies
the table's states without adding an order that one does not have, and the theorems hold for
any number. Two modes, three surfaces and three presents let a surface be dropped by a mode change
with its copy pending, and be picked again two frames later. Two codecs on one texture are
the two ways a picture can be overtaken, by another codec's and by a write; a queue depth of
1 fills. Two creates after a first are a chain of names; a free of one object of each of two
allocates, or of some of a batch, is the smallest that ties creates together; three buffers, three
commands and a begin or a reset make a primary that executes a secondary that executes another, each
begun again under it.
Deadlock checking is off where the guest may simply send nothing more and the threads
sleep or have ended.

Fairness. Threads run: the ring thread's own steps and the VMM's are fair, strongly
where a step needs a mutex that other threads take and release (they sleep between,
so the mutex is granted in the end) and where a dispatch uses `try_lock` against a
lock that is free again and again. The clocks advance. The guest that has stored its
tail goes on to load the status. In `QueueFences` a queue that is not hung works
through what it was given; sync threads are weakly fair, and the present thread, a
device's end and a dispatch strongly fair for the locks they take. In `ClassicWaiter` the GPU and the decoders
finish what they were given, the waiter's thread runs, a held batch's patience ends,
and the VMM polls while the bell is readable once it has taken the descriptor, which
`poll_descriptor` makes its promise; it need not poll otherwise, nor take it. In `Shutdown` a
call of the VMM's that has begun goes on, threads run and a dispatch ends. In a
native context the waiter runs, a push or a drop that has begun goes on, and a ring
that is not hung finishes its work, in any order. The monitor's thread runs, and so does its join; the decode
threads run, a command of the render thread goes on once it is not asleep, and so does the
fence waiter. In `MCServices` each of these is asked for only of the part that was chosen.
`Memory`, `HostTable`, `PresentCopy` and `Journal` assume no fairness: what they promise is safety. Nothing is
assumed about the guest writing, the VMM fencing, presenting, polling, destroying or
cleaning up, condvars waking spuriously, or hung queues.

## Proofs

Every theorem is of the specification as it stands, for every value of the constants under the
assumptions named here.

### The retirement queue

`ServicesProofs` proves of `Retirement`, for every set of shares and streams and every bound:
`RetirementTypes`, `RetirementDeliversInOrder` (`PerRingOrder`), `RetirementRefusesNone`
(`NoFenceRefused`) and `RetirementLosesNone` (`NothingLost`), all from `RetirementInductive`, the
invariance of `IInv`. `IInv` adds to the type invariant what a single state must say about the
whole pipeline: one stream's fences are in order along delivered, hand and queue (`InOrder`), no
number is ahead of the stream's counter (`Numbered`, without which a new fence could not be known
to be later than what is queued), every number given out is somewhere (`Present`), and `Stop` is
the last job and comes only when no share is left (`StopIsLast`, without which a fence could
follow it). One lemma per action shows it is kept; the assumptions are `ConstantsOK` and
`JobsDistinct`, that the stop marker and the empty hand are not fences. The same `IInv` is an
invariant of the run `services`, its type invariant as part of it.

`RetirementAnswersInOrder` proves that `Retirement` implements the safety part of `FenceOrder`,
with the fences made and the last one delivered on each stream as the abstract state. Making a
fence and delivering one are the abstract steps and every other step a stutter
(`RetStepsImplement`). That the one delivered is the very next of its stream (`RetHandIsNext`) is
what needs the invariant: every number given out is somewhere (`Present`) and the stream is in
order along delivered, hand and queue (`InOrder`), so no number can lie between. "The last one
delivered" is read from a sequence, and that a sequence with an entry of the stream has a last one
is an induction over its length, which the prover cannot do; `HasLast` is therefore carried along
as a second invariant, step by step.

### The command ring

`RingProofs` proves, for any buffer, wrap, number of commands, presents and kind of guest,
`DoorbellKept` (`NoLostDoorbell`), `SleepersWoken` (`NoSleepThrough`), `HeadOnlyPastWork`
(`HeadHonest`), `DriverAskedOnce` (`AskedOnce`), `RefusalsSound` (`RefusalSound`) and
`RingImplementsStream`, that the ring is a `CommandStream`. All come from `Invariance`, that `Inv`
is invariant:

- `Positions`: `tail` and `head` are the wrapped counts of what was written and read, and no more
  than a buffer and one lie between them, so a comparison of the wrapped words is one of the
  counts (`venus/ring.rs` `seqno_ge`).
- `Progress`: the thread's count trails what ran only between a dispatch and its publish.
- `Bell`: a doorbell is on its way or with the thread, or the guest's last is as long ago as the
  thread's last work, so the window that holds a guest off is over by the time the thread may
  sleep. Neither `NoLostDoorbell` nor the relation of the two clocks holds without the other.
- `Sleepers`: a waiter that has checked the head, and the stall, still knows what it saw unless
  the thread is about to announce the change (`publish`, `announce`): the lost-wakeup argument,
  between each load and the wait.
- `Refused`, `Blocked`: a stall found stays one, since what the thread says it waits for is what
  it waits for and only the stream could end it.
- `AskedRight`: one answer for each `ask` run and at most one more, held for the one at the front.
- `Life`, `Types`: which actor can be where in the ring's life.

`HonestNotDrained` (`HonestNeverDrained`: a guest that waits only for what it wrote is never told
that a drained ring will not get there) assumes `MaxWrites < Modulus \div 2`: the guest writes at
most half the counters' range in a behaviour, beyond which a wrapped comparison says nothing. That
bounds the whole behaviour, where the code (with a range of 2^32) only needs it of what is written
between a wait's asking and its look. What a guest may wait for is then a position it wrote
(`HonestWaits`).

### The fences on bound queues

`QueueFencesProofs` proves `RetiredBehindWork` (`Ordered`,
`StoppedByItsEnd`), `PoolStaysSound` (`PoolSound`),
`PresentStandsForFrame` (`PresentCovers`), `DestroyedStaysIdle` (`DestroyedIdle`) and
`ImplementsSafety`, the safety part of `FenceOrder`, for any rings, queues, devices and bounds and
whatever calls fail. `Inv` is the invariant (`Invariance`), of eight parts:

- `Bindings` ties a binding to its thread, its channel and its device, and keeps the VMM out of
  the window in which bindings are dropped.
- `Order`: the last answered, the one in hand, the channel and the one the VMM is making are
  consecutive, which is all the refinement needs.
- `Owned`: a fence out of the pool has one user, on one queue; `Clean`: it is given to its queue
  once between two resets, and neither signalled nor in flight when it is spare.
- `Covers`: once the fence is signalled, the work it covers has finished. A fence in flight cannot
  say that of itself, so `StandsFor` counts the work ahead of it on its queue (`Ahead`): when the
  queue finishes something, a piece moves from the one side of the sum to the other and the sum
  stands. The lemmas about this count (`CountMore`, `CountRest`, `GpuCounts`) take the cardinality
  of a set of positions apart without an induction.
- `Drawn`: what was drawn on a live device is on a queue still bound, so a present that takes the
  bound queues takes all the frame's; `Presenting` says, of the queues it has been through, that
  the frame's pieces have finished and, of the one in hand, that its fence stands for them.

`DestroyedStaysIdle` assumes `Calm`, the setting of the run `fences_order`: devices end by
`vkDestroyDevice` and no call fails. Both are needed: `fences_teardown` shows the other way of
ending to leave a fence behind. `Quiet` is the invariant it adds: a device that was waited for has
nothing on its queues but the one fence a present is still waiting for.

### The classic fences

`ClassicWaiterProofs` proves `FencesMeanRan` (`MeansRan`), `QueriesComeFirst` (`QueriesAnswered`),
`RingsKept` (`BellKept`), `GateAlwaysHasReason` (`GateHasReason`) and `ImplementsSafety` for any
contexts, sub-contexts, bound and driver. `Inv` follows a fence through the waiter's loop: what it
carries when it is taken (`Taken`), that it has a sync for whatever of its work has not run
(`Waits`), that once waited for its work has run but for what the driver refused (`Passed`), and
that a poll leaves standing only what is behind a refused sync (`Answering`). `Pump` is the
handshake: a serve counts a ring only if it looked after the ring was made, and a ring is made
after the wait, so the look found the queries ready. `Counts` and `GivenBack` say whose the
tickets are, which is what gives a gate its reason.

### Memory, the table, decodes and the journal

`MemoryProofs` proves `CountedAlways`, `VenusCappedAlways`, `ExportKeptAlways` and `AnswersHonest`
for any ids, keys and sizes (`Sized`), the second and the last for any cap in `Nat`. `Counted` alone is not inductive: a credit finds its bucket by the payer's key, so the
invariant must say whose slot an id's is, also between a context's end and its account's
(`Accounts`), that no occupant is older than its mint, so a key is never another's (`Minting`),
and that what a dispatch or the VMM has in hand is held (`InHand`). `Journaled` is what
`ExportKept` needs: a live context's records are in its journal.

`VenusCapped` bounds a sum over a set, and a sum written as a fold needs an induction the provers
here do not have. `Bytes` is therefore the cardinality of the set of the bytes themselves
(`Spans`: a storage and an offset in it), of which the library's theorems on finite sets say what
is needed. `Counted` gives that what stands of contexts' is among what is charged
(`StandsCharged`), so `Admit`, which has room for the size beside every charge, leaves room for
what stands (`AdmitCapped`); no other step makes a storage of a context's stand, or changes a size
(`CappedStays`). `Capped` adds that the bytes are finitely many, which `Cardinality` needs.

`AnswersHonest` is of the answer to `VK_EXT_memory_budget`, for any heap and any answer of the
driver's: a heap's budget is not zero and its usage no more than the budget, which is what Vulkan
asks for; and a context that allocates what its budget leaves, before anyone else does, is
admitted. Floors, clamps and a subtraction that stops at zero make the answer (`AnswerLegal`,
`AnswerHasRoom`); that the subtraction never does stop is the ledger's (`StandingIs`). The one
exception is stated: a budget that would have been zero is told as one byte. No run checks it,
since it speaks of every heap and every answer.

`HostTableProofs` proves `ReconciledAlways`, `TexturesKeptAlways` and the action property
`TypedStaysAlways` for any handles, contexts and resources, assuming nothing. The invariant
(`Kept`) says that a resource is named once (`Named`), that what was let go of has no name left
and is let go of once (`LetGo`), and that what a framebuffer draws into is owned by a slot or
doomed (`Drawn`). It is stated of the table's parts as parameters and not of the variables, so
that a look, which is the first half of most calls, is one lemma (`SyncKeeps`) applied before the
rest of the call.

`LandingProofs` proves that a command finds every decode before it done (`ReadsInOrder`), for any
textures, codecs and depth of queue, of a finite number of textures (`Finite`). Each decode on its
way is at one place (`Threads`); the one in a texture's slot is the newest asked of it, and any
other on its way is the one being waited for (`Slots`); what a texture holds is the newest of what
was delivered to it (`Held`); and the count the barrier looks at is of the slots (`CountHonest`).
None of them is kept without the others.

`JournalProofs` proves `CompactionUnseenAlways` for any objects, commands and rings (`Afforded`: a
context sends some number of commands). `Part` relates the journal to the one never compacted: it
has of it whatever is kept, each live buffer's recording as far as it still replays, and even an
empty one's `executed`, since a later recording is judged by it. The argument is the code's own,
"retention only ever falls": `KeepGrows` says that what is kept after a step was kept before or is
the step's own command, because a command names only what lives and a create's objects are new
(`Numbered`). It takes `keep_set`'s fixpoints as what they are, the greatest set of buffers
(`ReplayableIs`) and the least of creates (`NeededIs`), so no induction is needed: a set that is
closed is inside the one or holds the other. A compaction then keeps `Part` (`Compacts`), so do
fewer objects (`Fewer`), a pushed command (`Pushes`), a recorded one (`Records`) and a pool's
reset (`Empties`), and under `Part` both keep the same (`PartKeeps`).

`RestoreFaithfulAlways` is of the same module and assumes the same. `CompactionUnseen` reduces it
to the journal never compacted, of which four facts together are inductive (`Remade`). `Storied`:
whatever an entry names was made before it and not yet undone, each object has one create, and all
that lives has one. `Taped`: a buffer holds, and executes, what its recording says. `Judged`, in
which the journal meets Vulkan: a buffer that Vulkan has invalidated does not replay and one that
it has not, and that something was recorded into, does, with all it executes. `Slotted`: what is
about a ring comes after the ring's create. `Judged` is the hard one, since a destroyed object, a
pool's reset, a free and a begin each invalidate buffers through chains of `vkCmdExecuteCommands`;
`Judges` is the one lemma for all four: Vulkan's set of the invalidated (`Above`) is the least one
closed upwards and the journal's of those that replay (`Replayable`) the greatest one closed
downwards, so each bounds the other's complement. `Adds` is its counterpart for a command recorded.
That an export begins with what it needs (`NothingMissed`), ends with what there is (`EndsRight`)
and gives the buffers what they hold (`TapesRemade`) then follows of a single state (`Faithful`).
`Typed` shows that these invariants imply the module's type invariant.

### The parts of `MCServices`

`ServicesProofs` carries the theorems of the other modules to `MCServices`, whose run checks them:
a step of the whole is the part's own or leaves its variables alone (one lemma for each part,
`TlSteps`, `MonSteps`, `MemSteps`, `HostSteps`, `CopySteps`, `LandSteps`, `JrSteps`), so the
lemmas of the part's module apply as they stand: `CountedHere`, `ExportKeptHere`,
`VenusCappedHere`, `ReconciledHere`, `TexturesKeptHere`, `TypedStaysHere`, `ReadsLatestHere`,
`CompactionUnseenHere` and `RestoreFaithfulHere`. The retirement queue's theorems above are of its
own specification (`Ret!Spec`), for any shares and streams. The lemmas about five small parts are
in this module too.

`NothingLostHere` proves the whole of `NothingLost`: the queue's own, that a destroyed context has
answered its fences and that a cleanup which nothing outlives has told the VMM of all of them, for
any bound on the fences, the shares and streams being the renderer's (`Same`). A step of `Shutdown`
is one of `Retirement` or leaves the queue alone (`ShutSteps`), so the queue's invariant holds
during a cleanup as well, and `Shutdown`'s own builds on it. `Held` says who has a share of the
queue at each point of a context's end: its threads while they run, the context while anyone holds
it, the renderer until cleanup drops it. `Living` and `Owing` say that a sync thread that has been
joined has an empty channel, hence `DestroyAnswers`. `Tallied` counts: delivered, in hand and
queued are the fences made and one `Stop` from the last drop until the thread ends. With `Alone`, a
cleanup that nothing outlives has joined the queue's thread, so nothing is in hand or queued and
what is delivered is all that was made, hence `CleanupTells`. `QueueAnswersInOrderHere` is the
refinement of `FenceOrder` by the queue, in a cleanup too.

`Timeline`'s proofs assume nothing of the constants. Its own `IInv` is inductive: what a queued
fence covers is its sync or, without one, what the fence before it covers (`Covered`), so a fence
that is retired with no sync has nothing its predecessor, retired already, had not (`TlBareKeeps`,
`TlPushRetires`); and a head polled without the lock is still the head when the lock is back,
because only the waiter pops and a push behind it changes no head (`HeadsStay`, `TlPushQueues`,
`TlHeadKeeps`). `TlKept` is that invariant, `RetiredMeansDoneHere` what it says of a retired
fence, and `RingsAnswerInOrder` the refinement of `FenceOrder`: taking a fence makes it, and each
of the three places that retire one answers the next of its ring.

`LateOnlyIfMissedHere` is proved for any rings and any positive periods (`Asked`). The invariant
relates the sleep to what it was begun with: while no wake-up is owed, what is left of it and what
any ring has waited come to no more than the cadence of the period the thread read (`Fits`), and
that period is the ring's own or longer only if a notify is pending or one was missed (`Heard`).
`StopHeard`, that a stop finds the thread awake or wakes it, is part of it.

`OneWriterHere` and `GlassKeptHere` are proved for any number of slots, modes and presents
(`MaxJobs \in Nat`). `Sound` says a slot is pending exactly while one job writes it; `Watched`
that the slot shown is one of the last two handed out or that of a job with another's fence behind
it.

`InvariantHere` proves `IInv` of the whole: the inductive invariants of `Retirement`, `Shutdown`,
`Timeline`, `Monitor`, `Memory`, `HostTable`, `PresentCopy`, `Landing` and `Journal`, and each
part's types. Where an invariant leaves a variable out that no other property needs, a second one
gives its type (`Filed`, `Waiting`, `MonPlaces`; `CopyFits`, by which a lane has at most `MaxSlots`
surfaces and names only minted ones). What it asks of the constants is `ServicesConstants`, the
conjunction of what the theorems on the parts assume, which TLC evaluates on the run. The run
checks `IInv` too, so it would refute an invariant that a model change breaks before a proof is
tried; those of `Ring`, `QueueFences` and
`ClassicWaiter` were checked the same way, on the instances of their runs.

### Only model-checked

Liveness under fairness (`WaitsEnd`, `Answered`, the fair part of `ImplementsFenceOrder` and the
liveness of every other run), which is out of the prover's reach. Every invariant and every action
property that a passing run checks is stated by a theorem.

## Where the code and its words disagree

* `ring_barrier_stopped`: `venus/ring_thread.rs:366` says a barrier waiter gives up
  and the present retires unfenced. A ring stopped with its head short of the
  barrier's tail is neither poisoned nor stalled nor drained, so the waiter's check
  has no answer for it; the present thread waits for ever, and every later present
  of that context behind it.
* `fences_teardown`: `venus/driver.rs:3270` says teardown takes the same order as
  `vkDestroyDevice`. It waits for idle first and stops the sync threads afterwards, and
  the VMM can put a fence on a queue in between, without the context lock. The stopped
  thread leaves the fence to the device's destroy, which `wait_out` believes to be the
  point where it cannot be in flight; it still is.
* `classic_standoff`: `vrend/waiter.rs:360` gives a fence's place under the bound back
  before the pump is asked, so that a held batch does not keep the render thread from
  the poll. But while the waiter holds that fence it passes none of those behind it:
  with as many further fences of the context as the bound, all of their work done,
  the context's next batch waits on the thread that must poll. The GPU is idle and
  the stall, on every context's thread, ends with the two seconds of patience, not as
  `in_flight.rs:17` says when the GPU retires one fence.
* `shutdown_present`: `ffi.rs:497` says cleanup joins the retirement thread and so
  delivers what is owed. The present thread holds an `Arc` of the `RingQueuesInner`
  whose `PresentSync` would end it, a cycle, so a context that ever presented keeps
  its shares of the queue for the life of the process and cleanup joins nothing.
  Without a present the promise has a second gap: a context dropped by cleanup in the
  middle of a dispatch is torn down later, on the ring thread, as `RingThread`'s drop
  says; `CleanupTells` is the promise with both routes excepted (`kept`).

* `monitor_late`: `venus/monitor.rs:139` says the notify in `shorten` is there so that
  the first stamp under a shorter period is not late by construction. It reaches a
  thread that is in the wait. One that has read the old period and is stamping
  (`monitor.rs:168` to 197) misses it, goes to sleep for the old cadence, and stamps the
  new ring late. `LateOnlyIfMissed` is the promise with that excepted, and it is
  proved, so the missed notify and a spurious wake-up are the only ways.
* `journal_frees`: `venus/journal.rs:93` says a free is tied to the create because one
  replayed when its create was not names objects that do not exist, and that poisons the
  restore. A free may name objects of several allocates; `keep_set` (line 614) keeps it when any of
  their creates is kept and adds nothing for the others. With one object of one allocate, two of
  another, and the first freed together with one of the two, an export has the second
  allocate and the free, and the replay's lookup of the first object misses.
  `RestoreFaithful` excepts exactly those names (`Strays`).

Three more, met while modelling and not runs of their own. `venus/driver.rs:2381` says the
sliced wait of a sync thread is there so that a hung queue does not keep a device
destroy for ever; the join it bounds does return (`WaitsEnd`), and `empty_device`
then calls `vkDeviceWaitIdle`, which waits for the same queue without bound. And
`renderer.rs:1620` says a global fence that names no context is answered by finishing
everything, where `decide_fence` answers it by its place in the queue alone, as its own
comment argues; `MeansRan` therefore asks nothing of such a fence but its pictures. And a
stream's set, seek, set leaves the older seek before the newer set in the journal, one slot per command
(`context.rs:1574`), where a replay refuses a seek of a stream with no set (`context.rs:4054`);
`RestoreFaithful` asks only that both follow the ring's create.

Poisoning the context from its own stream does not announce itself to the ring
waiters; they notice at the half-second timeout. The model has that timeout, so
`WaitsEnd` does not depend on the announcement.

## Not modelled, and the plan

What commands do to Vulkan, GL or kernel objects is data to these models: decoding,
the object tables' layout, shader translation and format conversion are left out, and so are the
platform glue, the trace and vrend's journal (recording formats; nothing depends on their state), the generated wire
formats and capsets, and configuration and statistics, which are read once or only
counted. The bulk of the source is of that kind: `venus/driver.rs`, `venus/context.rs` and
`vrend/` are mostly one function per command, each a call to the host's driver.

Left out of what is modelled: several rings of one venus context, whose only meeting is
the context lock (`Ring` has one ring and the stream); what a reply stream holds; the macOS copy of a frame on the GPU;
a renderer without a classic waiter, which answers each fence inline; the ioctl proxy of a native context;
pages, mappings and transfers of resources, imports and the embedder's own surfaces; `kills_context` turned
off, so that a refused allocation lets its context go on; a replay's own failures other than a missing name, such as an id used again (`context.rs:2790`), and the command pools'
own ends; a decode target that names one texture for two planes.

In this order:

1. `Ring` with two rings and a decode that waits across them (`venus/context.rs` `WaitRing`).
2. Mappings and transfers of a blob against its unref (`renderer.rs` `resource_map`).
3. `promote_to_surface` and the imports of a device that goes (`venus/driver.rs`, macOS).
4. `RingLayout` (`venus/ring.rs` parse): the bounds check as a pure operator.
