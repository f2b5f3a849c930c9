---------------------------- MODULE QueueFences ----------------------------
(***************************************************************************)
(* How one venus context answers fences with GPU work behind them:         *)
(* src/venus/driver.rs HostQueue (a queue and its pool of VkFences),       *)
(* RingQueues (which queue a ring's fences are ordered on, and the thread  *)
(* per ring that waits them out), the present thread, and the two ways a   *)
(* device ends, vkDestroyDevice and the teardown of its instance.          *)
(*                                                                         *)
(* Actors: the VMM thread (fences and presents), a ring thread (decoding,  *)
(* binding, destroying, one at a time under the context lock), the sync    *)
(* thread of each bound ring, the present thread, and the GPU queues.      *)
(*                                                                         *)
(* The lock on the bindings is read off the program counters: fence holds  *)
(* it from the lookup to the send, forget_device through its joins.        *)
(***************************************************************************)
EXTENDS Integers, Sequences, FiniteSets

CONSTANTS
  Rings,        \* the rings a guest fences
  Queues,       \* the VkQueues
  Devices,
  DeviceOf,     \* the device of each queue
  PoolSize,     \* bound on the VkFences a driver will make for one queue
  MaxFences,    \* bound on the fences created on one ring
  MaxDraws,     \* bound on the commands a guest writes to its command ring
  MaxPresents,  \* bound on the presents
  Ends,         \* how devices may end, of "destroy" and "teardown"
  Hung,         \* the queues that may hang
  MayFail,      \* whether the driver's calls may fail
  None          \* no queue, no fence

ASSUME QueueConstants ==
  /\ {PoolSize, MaxFences, MaxDraws, MaxPresents} \subseteq Nat
  /\ DeviceOf \in [Queues -> Devices]
  /\ Ends \subseteq {"destroy", "teardown"}
  /\ Hung \subseteq Queues
  /\ MayFail \in BOOLEAN
  /\ None \notin Queues /\ None \notin Rings

VkFence == Queues \X (1..PoolSize)
ASSUME NoneIsNoFence == None \notin VkFence

VARIABLES
  \* the GPU
  gpu,        \* what each queue has been given and has not finished, in order
  sent,       \* pieces of work each queue has been given
  finished,   \* and has finished
  signalled,  \* the fences signalled and not reset
  hung,       \* the queues that need not finish their work
  \* the guest's command ring and what it drew
  written, drew,
  \* HostQueue: where each fence is: not made, spare, or out with somebody
  pool,
  \* RingQueues
  bound,      \* the queue of each ring
  jobs,       \* the channel of each ring
  going, closed,
  sync, hand, \* each sync thread and the job it has
  device,     \* each device: live, ending, waited idle, or dropped by the driver
  vmm,        \* the VMM thread
  ender,      \* the ring thread that ends a device
  \* the present thread
  presents, shown, pjobs, ppc, barrier, held, left, pfence, partial,
  \* fences created and answered, per ring
  made, answered

gpuVars  == <<gpu, sent, finished, signalled, hung>>
ringVars == <<bound, jobs, going, closed, sync, hand>>
presentVars == <<presents, shown, pjobs, ppc, barrier, held, left, pfence, partial>>
guestVars == <<written, drew>>
vars == <<gpuVars, guestVars, pool, ringVars, device, vmm, ender, presentVars, made, answered>>

\* What a queue is given besides a fence to signal.
Work == None

NoJob == [seqno |-> 0, fence |-> None, cover |-> 0, how |-> "never"]
\* What a present waits to see read, and the frame: what had been written by then.
NoPresent == [reads |-> 0, frame |-> 0]
Idle  == [at |-> "idle", ring |-> None, fence |-> None]
Alive == [at |-> "none", way |-> "destroy", device |-> None, ring |-> None]

Init ==
  /\ gpu = [q \in Queues |-> <<>>] /\ sent = [q \in Queues |-> 0]
  /\ finished = [q \in Queues |-> 0] /\ signalled = {} /\ hung \in SUBSET Hung
  /\ written = 0 /\ drew = <<>>
  /\ pool = [f \in VkFence |-> "none"]
  /\ bound = [r \in Rings |-> None] /\ jobs = [r \in Rings |-> <<>>]
  /\ going = [r \in Rings |-> FALSE] /\ closed = [r \in Rings |-> FALSE]
  /\ sync = [r \in Rings |-> "off"] /\ hand = [r \in Rings |-> NoJob]
  /\ device = [d \in Devices |-> "live"]
  /\ vmm = Idle /\ ender = Alive
  /\ presents = 0 /\ shown = 0 /\ pjobs = <<>> /\ ppc = "off" /\ barrier = NoPresent
  /\ held = {} /\ left = {} /\ pfence = None /\ partial = FALSE
  /\ made = [r \in Rings |-> 0] /\ answered = [r \in Rings |-> 0]

-----------------------------------------------------------------------------
(* Slips the code could plausibly have, each the mutant of a definition    *)
(* below: a fence pooled without its reset, one pooled while its queue     *)
(* still works, one handed out and left in the pool, a job waited for that *)
(* has no fence, a job sent ahead of the others, an empty submit without   *)
(* its fence, every ring stopped with one device, a flag left up, a device *)
(* dropped while it works, a barrier at what is read already.              *)

KeepSignal(f) == signalled
PoolPending(f) == [pool EXCEPT ![f] = "spare"]
ShareSpare(f) == pool
AlwaysWaits(job) == TRUE
SendFirst(q, job) == <<job>> \o q
SubmitNothing(q, f) == UNCHANGED gpu
EveryRing(d) == {r \in Rings : bound[r] # None}
LeaveGoing(r) == going
NotWaited(d) == TRUE
AlreadyRead == Len(drew)

-----------------------------------------------------------------------------
(* The GPU (external) and the guest's drawing                              *)

Gpu(q) ==
  /\ gpu[q] # <<>>
  /\ gpu' = [gpu EXCEPT ![q] = Tail(@)]
  /\ IF Head(gpu[q]) = Work
     THEN finished' = [finished EXCEPT ![q] = @ + 1] /\ UNCHANGED signalled
     ELSE signalled' = signalled \cup {Head(gpu[q])} /\ UNCHANGED finished
  /\ UNCHANGED <<hung, sent, guestVars, pool, ringVars, device, vmm, ender, presentVars, made,
                 answered>>

QueuesOf(d) == {q \in Queues : DeviceOf[q] = d}

BoundQueues == {q \in Queues : \E r \in Rings : bound[r] = q}

\* The guest writes to its command ring, ahead of anyone reading it.
Write ==
  /\ written < MaxDraws
  /\ written' = written + 1
  /\ UNCHANGED <<gpuVars, drew, pool, ringVars, device, vmm, ender, presentVars, made, answered>>

ContextFree == ender.at = "none"

\* A ring thread reads one command: it draws on a queue, or does something else.
Decode ==
  /\ ContextFree
  /\ Len(drew) < written
  /\ \/ \E q \in BoundQueues :
          /\ gpu' = [gpu EXCEPT ![q] = Append(@, Work)]
          /\ sent' = [sent EXCEPT ![q] = @ + 1]
          /\ drew' = Append(drew, [queue |-> q, piece |-> sent[q] + 1])
     \/ drew' = Append(drew, [queue |-> None, piece |-> 0]) /\ UNCHANGED <<gpu, sent>>
  /\ UNCHANGED <<hung, finished, signalled, written, pool, ringVars, device, vmm, ender,
                 presentVars, made, answered>>

-----------------------------------------------------------------------------
(* HostQueue: the pool                                                     *)

Of(q, where) == {f \in VkFence : f[1] = q /\ pool[f] = where}

\* take_fence: a spare one, or else a new one, or none from a driver that
\* refuses.
take_fence(q) ==
  IF Of(q, "spare") # {} THEN Of(q, "spare") ELSE Of(q, "none") \cup {None}

TakenOut(f) == [pool EXCEPT ![f] = "out"]

\* What is signalled after put_fence's reset.
Unsignalled(f) == signalled \ {f}

\* put_fence: spare again, or destroyed when it would not reset.
put_fence(f) ==
  \/ pool' = [pool EXCEPT ![f] = "spare"] /\ signalled' = Unsignalled(f)
  \/ MayFail /\ pool' = [pool EXCEPT ![f] = "none"] /\ signalled' = signalled \ {f}

\* wait_out stopped or failed: the fence is neither pooled nor destroyed.
LeftOut(f) == pool

\* An empty submit with a fence goes behind everything its queue has.
Submit(q, f) == gpu' = [gpu EXCEPT ![q] = Append(@, f)]

-----------------------------------------------------------------------------
(* RingQueues: bind and fence                                              *)

BoundFree == vmm.at # "took" /\ ender.at \notin {"forget", "join"}

Bind(r, q) ==
  /\ ContextFree /\ BoundFree
  /\ bound[r] = None /\ device[DeviceOf[q]] = "live"
  /\ bound' = [bound EXCEPT ![r] = q]
  /\ going' = [going EXCEPT ![r] = TRUE] /\ closed' = [closed EXCEPT ![r] = FALSE]
  /\ sync' = [sync EXCEPT ![r] = "recv"]
  /\ UNCHANGED <<gpuVars, guestVars, pool, jobs, hand, device, vmm, ender, presentVars, made,
                 answered>>

\* Renderer::context_create_fence, and the lookup and the pool in fence.
CreateFence(r) ==
  /\ vmm.at = "idle" /\ BoundFree
  /\ made[r] < MaxFences
  /\ made' = [made EXCEPT ![r] = @ + 1]
  /\ IF bound[r] = None
     THEN vmm' = [at |-> "unbound", ring |-> r, fence |-> None] /\ UNCHANGED pool
     ELSE \E f \in take_fence(bound[r]) :
            /\ vmm' = [at |-> "took", ring |-> r, fence |-> f]
            /\ pool' = IF f = None THEN pool ELSE TakenOut(f)
  /\ UNCHANGED <<gpuVars, guestVars, ringVars, device, ender, presentVars, answered>>

\* A ring with no queue: the caller retires the fence itself.
RetireUnbound ==
  /\ vmm.at = "unbound"
  /\ answered' = [answered EXCEPT ![vmm.ring] = made[vmm.ring]]
  /\ vmm' = Idle
  /\ UNCHANGED <<gpuVars, guestVars, pool, ringVars, device, ender, presentVars, made>>

Send(q, job) == Append(q, job)

\* The empty submit and the send; with no fence, or a refused submit, a job
\* that retires at once.
SubmitFence ==
  /\ vmm.at = "took"
  /\ LET r == vmm.ring
         f == vmm.fence
         q == bound[r]
         job(g) == [seqno |-> made[r], fence |-> g, cover |-> sent[q], how |-> "never"]
     IN  \/ /\ f # None
            /\ Submit(q, f)
            /\ jobs' = [jobs EXCEPT ![r] = Send(@, job(f))]
            /\ UNCHANGED <<pool, signalled>>
         \/ /\ f # None /\ MayFail
            /\ put_fence(f)
            /\ jobs' = [jobs EXCEPT ![r] = Send(@, job(None))]
            /\ UNCHANGED gpu
         \/ /\ f = None
            /\ jobs' = [jobs EXCEPT ![r] = Send(@, job(None))]
            /\ UNCHANGED <<gpu, pool, signalled>>
  /\ vmm' = Idle
  /\ UNCHANGED <<hung, sent, finished, guestVars, bound, going, closed, sync, hand, device, ender,
                 presentVars, made, answered>>

-----------------------------------------------------------------------------
(* sync_thread                                                             *)

Fenced(job) == job.fence # None

\* A channel gives what was sent to it before it says it is closed.
Receives(r) == jobs[r] # <<>>

SyncRecv(r) ==
  /\ sync[r] = "recv" /\ Receives(r)
  /\ hand' = [hand EXCEPT ![r] = Head(jobs[r])]
  /\ jobs' = [jobs EXCEPT ![r] = Tail(@)]
  /\ sync' = [sync EXCEPT ![r] = IF Fenced(Head(jobs[r])) THEN "wait" ELSE "retire"]
  /\ UNCHANGED <<gpuVars, guestVars, pool, bound, going, closed, device, vmm, ender, presentVars,
                 made, answered>>

SyncEnd(r) ==
  /\ sync[r] = "recv" /\ ~Receives(r) /\ closed[r]
  /\ sync' = [sync EXCEPT ![r] = "gone"]
  /\ UNCHANGED <<gpuVars, guestVars, pool, bound, jobs, going, closed, hand, device, vmm, ender,
                 presentVars, made, answered>>

\* The wait of wait_out is over, one way or another.
WaitOver(r, how) ==
  /\ hand' = [hand EXCEPT ![r].how = how]
  /\ sync' = [sync EXCEPT ![r] = "retire"]
  /\ UNCHANGED <<hung, gpu, sent, finished, guestVars, bound, jobs, going, closed, device, vmm,
                 ender, presentVars, made, answered>>

WaitDone(r) ==
  /\ sync[r] = "wait" /\ hand[r].fence \in signalled
  /\ put_fence(hand[r].fence)
  /\ WaitOver(r, "waited")

WaitStopped(r) ==
  /\ sync[r] = "wait" /\ ~going[r]
  /\ pool' = LeftOut(hand[r].fence) /\ UNCHANGED signalled
  /\ WaitOver(r, "stopped")

WaitFailed(r) ==
  /\ sync[r] = "wait" /\ MayFail
  /\ pool' = LeftOut(hand[r].fence) /\ UNCHANGED signalled
  /\ WaitOver(r, "failed")

SyncRetire(r) ==
  /\ sync[r] = "retire"
  /\ answered' = [answered EXCEPT ![r] = hand[r].seqno]
  /\ hand' = [hand EXCEPT ![r] = NoJob]
  /\ sync' = [sync EXCEPT ![r] = "recv"]
  /\ UNCHANGED <<gpuVars, guestVars, pool, bound, jobs, going, closed, device, vmm, ender,
                 presentVars, made>>

Sync(r) == SyncRecv(r) \/ SyncEnd(r) \/ WaitDone(r) \/ WaitStopped(r) \/ WaitFailed(r)
           \/ SyncRetire(r)

-----------------------------------------------------------------------------
(* The end of a device, on a ring thread that holds the context            *)

\* destroy_device: the rings first, then the idle wait.
DestroyDevice(d) ==
  /\ "destroy" \in Ends
  /\ ContextFree /\ BoundFree /\ device[d] = "live"
  /\ device' = [device EXCEPT ![d] = "ending"]
  /\ ender' = [at |-> "forget", way |-> "destroy", device |-> d, ring |-> None]
  /\ UNCHANGED <<gpuVars, guestVars, pool, ringVars, vmm, presentVars, made, answered>>

\* teardown, of an instance with every device under it: each is waited for,
\* and only then are their rings forgotten.
TeardownInstance ==
  /\ "teardown" \in Ends
  /\ ContextFree /\ \E d \in Devices : device[d] = "live"
  /\ device' = [d \in Devices |-> IF device[d] = "live" THEN "ending" ELSE device[d]]
  /\ ender' = [at |-> "wait", way |-> "teardown", device |-> None, ring |-> None]
  /\ UNCHANGED <<gpuVars, guestVars, pool, ringVars, vmm, presentVars, made, answered>>

DeviceIdle(d) == \A q \in QueuesOf(d) : gpu[q] = <<>>

\* vkDeviceWaitIdle returns; its error is only reported.
IdleAnswered(d) == DeviceIdle(d) \/ MayFail

WaitIdle ==
  /\ ender.at = "wait"
  /\ \E d \in Devices :
       /\ device[d] = "ending" /\ IdleAnswered(d)
       /\ device' = [device EXCEPT ![d] = "idle"]
  /\ ender' = [ender EXCEPT !.at = IF ender.way = "destroy" THEN "drop"
                                  ELSE IF \E d \in Devices : device'[d] = "ending" THEN "wait"
                                  ELSE "lock"]
  /\ UNCHANGED <<gpuVars, guestVars, pool, ringVars, vmm, presentVars, made, answered>>

LockBound ==
  /\ ender.at = "lock" /\ BoundFree
  /\ \E d \in Devices : /\ device[d] = "idle"
                        /\ ender' = [ender EXCEPT !.at = "forget", !.device = d]
  /\ UNCHANGED <<gpuVars, guestVars, pool, ringVars, device, vmm, presentVars, made, answered>>

\* forget_device: the bindings that do not survive it.
Doomed(d) == {r \in Rings : bound[r] # None /\ DeviceOf[bound[r]] = d}

\* The flag RingSync's drop leaves behind.
Stopped(r) == [going EXCEPT ![r] = FALSE]

\* The next binding's drop: its thread is told and its channel closed.
Forget(r) ==
  /\ ender.at = "forget" /\ r \in Doomed(ender.device)
  /\ going' = Stopped(r)
  /\ closed' = [closed EXCEPT ![r] = TRUE]
  /\ ender' = [ender EXCEPT !.at = "join", !.ring = r]
  /\ UNCHANGED <<gpuVars, guestVars, pool, bound, jobs, sync, hand, device, vmm, presentVars,
                 made, answered>>

JoinSync ==
  /\ ender.at = "join" /\ sync[ender.ring] = "gone"
  /\ sync' = [sync EXCEPT ![ender.ring] = "off"]
  /\ bound' = [bound EXCEPT ![ender.ring] = None]
  /\ ender' = [ender EXCEPT !.at = "forget", !.ring = None]
  /\ UNCHANGED <<gpuVars, guestVars, pool, jobs, going, closed, hand, device, vmm, presentVars,
                 made, answered>>

Forgotten ==
  /\ ender.at = "forget" /\ Doomed(ender.device) = {}
  /\ ender' = [ender EXCEPT !.at = IF ender.way = "destroy" THEN "wait" ELSE "drop"]
  /\ UNCHANGED <<gpuVars, guestVars, pool, ringVars, device, vmm, presentVars, made, answered>>

\* The driver's share goes. The device goes with it, or with the last queue
\* the present thread still holds.
DropDevice ==
  /\ ender.at = "drop"
  /\ device' = [device EXCEPT ![ender.device] = "dropped"]
  /\ ender' = IF \E d \in Devices : device'[d] = "idle"
              THEN [ender EXCEPT !.at = "lock", !.device = None] ELSE Alive
  /\ UNCHANGED <<gpuVars, guestVars, pool, ringVars, vmm, presentVars, made, answered>>

Ender == WaitIdle \/ LockBound \/ (\E r \in Rings : Forget(r)) \/ JoinSync \/ Forgotten
         \/ DropDevice

-----------------------------------------------------------------------------
(* Presents: Vkr::present_fence, send_present, present_thread              *)

\* The decode barrier: everything the guest has written.
DecodeBarrier == written

\* Refused when no ring is bound; the frame is then shown unfenced.
PresentFence ==
  /\ vmm.at = "idle" /\ ContextFree /\ BoundFree
  /\ presents < MaxPresents /\ BoundQueues # {}
  /\ presents' = presents + 1
  /\ pjobs' = Append(pjobs, [reads |-> DecodeBarrier, frame |-> written])
  /\ ppc' = IF ppc = "off" THEN "recv" ELSE ppc
  /\ UNCHANGED <<gpuVars, guestVars, pool, ringVars, device, vmm, ender, shown, barrier, held,
                 left, pfence, partial, made, answered>>

PresentRecv ==
  /\ ppc = "recv" /\ pjobs # <<>>
  /\ barrier' = Head(pjobs) /\ pjobs' = Tail(pjobs)
  /\ ppc' = "barrier"
  /\ UNCHANGED <<gpuVars, guestVars, pool, ringVars, device, vmm, ender, presents, shown, held,
                 left, pfence, partial, made, answered>>

\* Phase one. Ring.tla has the wait itself.
PresentBarrier ==
  /\ ppc = "barrier" /\ Len(drew) >= barrier.reads
  /\ ppc' = "snapshot"
  /\ UNCHANGED <<gpuVars, guestVars, pool, ringVars, device, vmm, ender, presents, shown, pjobs,
                 barrier, held, left, pfence, partial, made, answered>>

\* queues: every distinct queue bound to a ring.
queues == BoundQueues

\* Phase two: the set is taken, not held.
PresentSnapshot ==
  /\ ppc = "snapshot" /\ BoundFree
  /\ held' = queues /\ left' = queues
  /\ ppc' = "each"
  /\ UNCHANGED <<gpuVars, guestVars, pool, ringVars, device, vmm, ender, presents, shown, pjobs,
                 barrier, pfence, partial, made, answered>>

PresentTake ==
  /\ ppc = "each"
  /\ \E q \in left : \E f \in take_fence(q) :
       /\ left' = left \ {q}
       /\ IF f = None
          THEN partial' = TRUE /\ UNCHANGED <<pool, ppc, pfence>>
          ELSE pool' = TakenOut(f) /\ pfence' = f /\ ppc' = "took" /\ UNCHANGED partial
  /\ UNCHANGED <<gpuVars, guestVars, ringVars, device, vmm, ender, presents, shown, pjobs,
                 barrier, held, made, answered>>

PresentSubmit ==
  /\ ppc = "took"
  /\ \/ /\ Submit(pfence[1], pfence)
        /\ ppc' = "wait"
        /\ UNCHANGED <<pool, signalled, partial, pfence>>
     \/ /\ MayFail
        /\ put_fence(pfence)
        /\ partial' = TRUE /\ ppc' = "each" /\ pfence' = None
        /\ UNCHANGED gpu
  /\ UNCHANGED <<hung, sent, finished, guestVars, ringVars, device, vmm, ender, presents, shown,
                 pjobs, barrier, held, left, made, answered>>

PresentWait ==
  /\ ppc = "wait"
  /\ \/ pfence \in signalled /\ put_fence(pfence) /\ UNCHANGED partial
     \/ MayFail /\ partial' = TRUE /\ pool' = LeftOut(pfence) /\ UNCHANGED signalled
  /\ ppc' = "each" /\ pfence' = None
  /\ UNCHANGED <<hung, gpu, sent, finished, guestVars, ringVars, device, vmm, ender, presents,
                 shown, pjobs, barrier, held, left, made, answered>>

PresentRetire ==
  /\ ppc = "each" /\ left = {}
  /\ shown' = shown + 1
  /\ ppc' = "recv" /\ barrier' = NoPresent /\ held' = {} /\ partial' = FALSE
  /\ UNCHANGED <<gpuVars, guestVars, pool, ringVars, device, vmm, ender, presents, pjobs, left,
                 pfence, made, answered>>

PresentThread == PresentRecv \/ PresentBarrier \/ PresentSnapshot \/ PresentTake \/ PresentSubmit
                 \/ PresentWait \/ PresentRetire

-----------------------------------------------------------------------------

Next ==
  \/ \E q \in Queues : Gpu(q)
  \/ \E d \in Devices : DestroyDevice(d)
  \/ TeardownInstance
  \/ Write \/ Decode
  \/ \E r \in Rings : CreateFence(r) \/ Sync(r) \/ \E q \in Queues : Bind(r, q)
  \/ RetireUnbound \/ SubmitFence
  \/ Ender
  \/ PresentFence \/ PresentThread

\* Every thread runs, strongly fair where it takes the bindings' lock or the
\* context's; a queue that is not hung works through what it was given. The
\* guest owes no command, the VMM no fence and no present, nobody a destroy.
Fairness ==
  /\ \A q \in Queues : WF_vars(q \notin hung /\ Gpu(q))
  /\ \A r \in Rings : WF_vars(Sync(r))
  /\ WF_vars(RetireUnbound \/ SubmitFence)
  /\ SF_vars(Ender) /\ SF_vars(Decode) /\ SF_vars(PresentThread)

Spec == Init /\ [][Next]_vars /\ Fairness

-----------------------------------------------------------------------------
(* Properties                                                              *)

\* The variables have their types, and a thread's locals are set while it is
\* where it uses them.
TypeOK ==
  /\ gpu \in [Queues -> Seq({Work} \cup VkFence)] /\ signalled \subseteq VkFence /\ hung \subseteq Hung
  /\ \A q \in Queues : finished[q] \in 0..sent[q] /\ sent[q] <= MaxDraws
  /\ written \in 0..MaxDraws /\ Len(drew) <= written
  /\ pool \in [VkFence -> {"none", "spare", "out"}]
  /\ bound \in [Rings -> Queues \cup {None}]
  /\ going \in [Rings -> BOOLEAN] /\ closed \in [Rings -> BOOLEAN]
  /\ \A r \in Rings : /\ sync[r] = "off" <=> bound[r] = None
                      /\ sync[r] = "wait" => hand[r].fence # None
                      /\ answered[r] <= made[r] /\ made[r] <= MaxFences
  /\ device \in [Devices -> {"live", "ending", "idle", "dropped"}]
  /\ vmm.at \in {"idle", "took", "unbound"}
  /\ ender.at \in {"none", "forget", "join", "wait", "lock", "drop"}
  /\ ppc \in {"off", "recv", "barrier", "snapshot", "each", "took", "wait"}
  /\ shown <= presents /\ presents <= MaxPresents /\ left \subseteq held
  /\ (pfence # None) <=> ppc \in {"took", "wait"}

\* A fence retired as waited out stands for finished work: its queue has finished
\* everything it was given before the guest's fence was, whoever had the VkFence
\* before (sync_thread, put_fence).
Ordered ==
  \A r \in Rings :
    sync[r] = "retire" /\ hand[r].how = "waited" => finished[bound[r]] >= hand[r].cover

\* A fence is retired unordered, its thread stopped mid-wait, only when the
\* device of its own queue ends, never for another's (forget_device).
StoppedByItsEnd ==
  \A r \in Rings :
    sync[r] = "retire" /\ hand[r].how = "stopped" => device[DeviceOf[bound[r]]] # "live"

\* How many jobs and threads have a fence.
Uses(f) ==
  Cardinality({at \in Rings \X (1..MaxFences) :
                 at[2] <= Len(jobs[at[1]]) /\ jobs[at[1]][at[2]].fence = f})
  + Cardinality({r \in Rings : sync[r] = "wait" /\ hand[r].fence = f})
  + (IF vmm.fence = f THEN 1 ELSE 0) + (IF pfence = f THEN 1 ELSE 0)

\* The pool gives a fence to one user at a time, and what it gives is neither
\* signalled nor in flight: put_fence is only for a fence its queue has done
\* with, "a spare that is never signalled would answer every later fence".
PoolSound ==
  /\ TypeOK
  /\ \A f \in VkFence :
       /\ Uses(f) <= 1
       /\ pool[f] = "spare" =>
            Uses(f) = 0 /\ f \notin signalled /\ \A i \in 1..Len(gpu[f[1]]) : gpu[f[1]][i] # f

\* A present retires behind the frame's work: everything written to the command
\* ring before it has been read, and what that drew has finished, on every
\* queue it could fence. A device that is ending has no queue left to fence.
PresentCovers ==
  ppc = "each" /\ left = {} /\ ~partial =>
    \A i \in 1..barrier.frame :
      /\ i <= Len(drew)
      /\ drew[i].queue # None /\ device[DeviceOf[drew[i].queue]] = "live"
           => drew[i].piece <= finished[drew[i].queue]

\* The device has been destroyed: the driver's share and the present thread's
\* are gone.
Gone(d) == device[d] = "dropped" /\ held \cap QueuesOf(d) = {}

\* A device is destroyed with nothing in flight on it: the fence a stopped
\* thread leaves behind "is left for the device's own destroy, which is the
\* only point at which it is certainly no longer in flight" (wait_out).
DestroyedIdle == \A d \in Devices : Gone(d) => DeviceIdle(d)

FO == INSTANCE FenceOrder WITH Streams <- Rings, seen <- answered

\* Each ring's fences are answered one at a time, in order, whichever thread
\* answers each, across binding, forgetting and binding again; all of them are
\* if no queue hangs.
ImplementsFenceOrder ==
  FO!Safety /\ \A r \in Rings : hung = {} => WF_(FO!vars)(FO!Answer(r))

\* Every wait ends: forgetting a device's rings returns whatever its queues do,
\* as the flag frees a thread that waits on a hung one (RingSync's drop), and
\* every present taken is answered if no queue hangs (present_thread).
WaitsEnd ==
  /\ ender.at \in {"forget", "join"} ~> ender.at \notin {"forget", "join"}
  /\ \A n \in 1..MaxPresents : hung = {} /\ presents >= n ~> shown >= n
=============================================================================
