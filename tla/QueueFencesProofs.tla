------------------------- MODULE QueueFencesProofs -------------------------
(***************************************************************************)
(* Proofs about the fences on bound queues, for any rings, queues, devices *)
(* and bounds: a ring's fence retires behind the work it covers, a fence   *)
(* has one user at a time and is clean when it is pooled, a present        *)
(* retires behind its frame, and a ring's fences are answered in order.    *)
(*                                                                         *)
(* Inv is the inductive invariant, conjunct by conjunct: what each actor   *)
(* may touch first (the frames), then what each step does to a conjunct.   *)
(* What a fence on a queue stands for is counted in the pieces of work     *)
(* ahead of it, so Gpu steps move a piece from one side to the other.      *)
(***************************************************************************)
EXTENDS QueueFences, FiniteSetTheorems, SequenceTheorems, TLAPS

-----------------------------------------------------------------------------
(* The inductive invariant                                                 *)

Fence == VkFence \cup {None}
Job == [seqno : Nat, fence : Fence, cover : Nat, how : {"never", "waited", "stopped", "failed"}]
Present == [reads : Nat, frame : Nat]

\* The types of each actor's variables, and when its locals are set.
GpuTypes ==
  /\ gpu \in [Queues -> Seq({Work} \cup VkFence)]
  /\ sent \in [Queues -> Nat] /\ finished \in [Queues -> Nat]
  /\ signalled \in SUBSET VkFence /\ hung \in SUBSET Hung
  /\ \A q \in Queues : \A i \in 1..Len(gpu[q]) : gpu[q][i] # Work => gpu[q][i][1] = q
GuestTypes ==
  /\ written \in 0..MaxDraws
  /\ drew \in Seq([queue : Queues \cup {None}, piece : Nat]) /\ Len(drew) <= written
  /\ \A q \in Queues : sent[q] <= Len(drew)
RingTypes ==
  /\ pool \in [VkFence -> {"none", "spare", "out"}]
  /\ bound \in [Rings -> Queues \cup {None}]
  /\ jobs \in [Rings -> Seq(Job)] /\ hand \in [Rings -> Job]
  /\ going \in [Rings -> BOOLEAN] /\ closed \in [Rings -> BOOLEAN]
  /\ sync \in [Rings -> {"off", "recv", "wait", "retire", "gone"}]
  /\ made \in [Rings -> 0..MaxFences] /\ answered \in [Rings -> Nat]
VmmTypes ==
  /\ vmm \in [at : {"idle", "took", "unbound"}, ring : Rings \cup {None}, fence : Fence]
  /\ vmm.at = "idle" => vmm = Idle
  /\ vmm.at # "idle" => vmm.ring \in Rings
  /\ vmm.at = "unbound" => vmm.fence = None
EnderTypes ==
  /\ device \in [Devices -> {"live", "ending", "idle", "dropped"}]
  /\ ender \in [at : {"none", "forget", "join", "wait", "lock", "drop"}, way : {"destroy", "teardown"},
                device : Devices \cup {None}, ring : Rings \cup {None}]
  /\ ender.at \in {"forget", "join", "drop"} => ender.device \in Devices
  /\ ender.at = "wait" /\ ender.way = "destroy" => ender.device \in Devices
  /\ ender.at = "join" => ender.ring \in Rings
PresentTypes ==
  /\ presents \in 0..MaxPresents /\ shown \in Nat
  /\ pjobs \in Seq(Present) /\ barrier \in Present
  /\ ppc \in {"off", "recv", "barrier", "snapshot", "each", "took", "wait"}
  /\ held \in SUBSET Queues /\ left \in SUBSET held /\ pfence \in Fence /\ partial \in BOOLEAN
  /\ (pfence # None) <=> ppc \in {"took", "wait"}
  /\ pfence # None => pfence[1] \in held \ left
  /\ presents = shown + Len(pjobs) + (IF ppc \in {"off", "recv"} THEN 0 ELSE 1)
  /\ ppc = "off" => pjobs = <<>>
Types == GpuTypes /\ GuestTypes /\ RingTypes /\ VmmTypes /\ EnderTypes /\ PresentTypes

\* A binding, its thread and its channel: they live and go together, and the VMM is never
\* between a lookup and its send while bindings are dropped.
Bindings ==
  /\ vmm.at = "took" => ender.at \notin {"forget", "join"} /\ bound[vmm.ring] # None
  /\ \A r \in Rings :
       /\ sync[r] = "off" <=> bound[r] = None
       /\ sync[r] \in {"off", "gone"} => jobs[r] = <<>>
       /\ sync[r] = "gone" => closed[r]
       /\ bound[r] # None /\ closed[r] => ender.at = "join" /\ ender.ring = r
       /\ bound[r] # None /\ ~going[r] => device[DeviceOf[bound[r]]] # "live"
  /\ ender.at \in {"forget", "join"} => device[ender.device] # "live"
  /\ ender.at = "join" => bound[ender.ring] # None /\ DeviceOf[bound[ender.ring]] = ender.device

\* A ring's fences stand in order: the last answered, the one in hand, the channel, the one
\* the VMM is making.
InHand(r) == IF sync[r] \in {"wait", "retire"} THEN 1 ELSE 0
Making(r) == IF vmm.at # "idle" /\ vmm.ring = r THEN 1 ELSE 0
Order ==
  \A r \in Rings :
    /\ made[r] = answered[r] + InHand(r) + Len(jobs[r]) + Making(r)
    /\ sync[r] \in {"wait", "retire"} => hand[r].seqno = answered[r] + 1
    /\ \A i \in 1..Len(jobs[r]) : jobs[r][i].seqno = answered[r] + InHand(r) + i
    /\ vmm.at = "unbound" /\ vmm.ring = r =>
         jobs[r] = <<>> /\ sync[r] \notin {"wait", "retire"}

\* A ring's fences by position, the one its thread waits for at 0.
At(r, i) == IF i = 0 THEN IF sync[r] = "wait" THEN hand[r].fence ELSE None ELSE jobs[r][i].fence
Cover(r, i) == IF i = 0 THEN hand[r].cover ELSE jobs[r][i].cover
Places(r) == 0..Len(jobs[r])

\* A fence out of the pool has one user, who may use it on one queue.
Owned ==
  /\ \A r, s \in Rings : \A i \in Places(r) : \A j \in Places(s) :
       At(r, i) # None /\ At(r, i) = At(s, j) => r = s /\ i = j
  /\ \A r \in Rings : \A i \in Places(r) :
       At(r, i) # None => /\ At(r, i)[1] = bound[r] /\ pool[At(r, i)] = "out"
                          /\ At(r, i) # vmm.fence /\ At(r, i) # pfence
  /\ \A r \in Rings : sync[r] = "wait" => hand[r].fence # None
  /\ vmm.fence # None => /\ vmm.at = "took" /\ vmm.fence[1] = bound[vmm.ring]
                         /\ pool[vmm.fence] = "out" /\ vmm.fence # pfence
  /\ pfence # None => pool[pfence] = "out"

\* A fence is given to its queue once between two resets, and only by its user.
InFlight(f) == \E i \in 1..Len(gpu[f[1]]) : gpu[f[1]][i] = f
Untouched(f) == f \notin signalled /\ ~InFlight(f)
Clean ==
  /\ \A f \in VkFence : pool[f] # "out" => Untouched(f)
  /\ vmm.fence # None => Untouched(vmm.fence)
  /\ ppc = "took" => Untouched(pfence)
  /\ \A f \in signalled : ~InFlight(f)
  /\ \A q \in Queues : \A i, j \in 1..Len(gpu[q]) :
       gpu[q][i] # Work /\ gpu[q][i] = gpu[q][j] => i = j

\* The pieces of work among the first n things a queue has still to do.
Ahead(q, n) == Cardinality({i \in 1..n : gpu[q][i] = Work})

\* Once it is signalled, k pieces of the fence's queue have finished.
StandsFor(f, k) ==
  /\ f \in signalled => k <= finished[f[1]]
  /\ \A i \in 1..Len(gpu[f[1]]) : gpu[f[1]][i] = f => k <= finished[f[1]] + Ahead(f[1], i)

\* Each job's fence stands for what the job covers.
Covers ==
  /\ \A q \in Queues : sent[q] = finished[q] + Ahead(q, Len(gpu[q]))
  /\ \A r \in Rings : \A i \in Places(r) : At(r, i) # None => StandsFor(At(r, i), Cover(r, i))
  /\ \A r \in Rings : \A i \in 1..Len(jobs[r]) : jobs[r][i].how = "never"
  /\ Ordered /\ StoppedByItsEnd

\* What was drawn on a queue that still has its device is on a queue still bound.
Drawn ==
  \A i \in 1..Len(drew) : drew[i].queue # None =>
    /\ drew[i].piece <= sent[drew[i].queue]
    /\ device[DeviceOf[drew[i].queue]] = "live" => drew[i].queue \in BoundQueues

\* A present behind its barrier has fenced the queues of its frame but for those left, and
\* what it waits for stands for the frame's work on its queue.
Presenting ==
  /\ barrier.reads = barrier.frame /\ \A i \in 1..Len(pjobs) : pjobs[i].reads = pjobs[i].frame
  /\ ppc \in {"snapshot", "each", "took", "wait"} => barrier.frame <= Len(drew)
  /\ ppc \in {"each", "took", "wait"} /\ ~partial =>
       \A i \in 1..barrier.frame :
         drew[i].queue # None /\ device[DeviceOf[drew[i].queue]] = "live" =>
           /\ drew[i].queue \in held
           /\ drew[i].queue \notin left /\ (pfence # None => pfence[1] # drew[i].queue) =>
                drew[i].piece <= finished[drew[i].queue]
  /\ ppc = "wait" =>
       \A i \in 1..barrier.frame : drew[i].queue = pfence[1] => StandsFor(pfence, drew[i].piece)

Inv == Types /\ Bindings /\ Order /\ Owned /\ Clean /\ Covers /\ Drawn /\ Presenting

\* Where devices end one at a time and no call fails: a device that has been waited for has
\* nothing left but the one fence a present is still waiting for.
Calm == Ends \subseteq {"destroy"} /\ MayFail = FALSE
Quiet ==
  /\ ender.at # "none" => ender.way = "destroy" /\ ender.at # "lock" /\ ender.device \in Devices
  /\ \A d \in Devices : device[d] = "ending" =>
       ender.at \in {"forget", "join", "wait"} /\ ender.device = d
  /\ \A d \in Devices : device[d] = "idle" => ender.at = "drop" /\ ender.device = d
  /\ ender.at = "wait" => Doomed(ender.device) = {}
  /\ ender.at = "drop" => device[ender.device] = "idle"
  /\ \A d \in Devices : device[d] \in {"idle", "dropped"} =>
       /\ Doomed(d) = {}
       /\ \A q \in QueuesOf(d) :
            gpu[q] = <<>> \/ (ppc = "wait" /\ pfence[1] = q /\ gpu[q] = <<pfence>>)

-----------------------------------------------------------------------------
(* Who touches what: for each actor's variables, the only steps that do.    *)

\* The VMM's three steps: a fence made, retired at once or put on its queue.
Vmm == (\E r \in Rings : CreateFence(r)) \/ RetireUnbound \/ SubmitFence

LEMMA GpuFrame ==
  Next => \/ \E q \in Queues : Gpu(q)
          \/ Decode \/ SubmitFence \/ PresentSubmit \/ PresentWait
          \/ \E r \in Rings : WaitDone(r)
          \/ UNCHANGED gpuVars
  BY DEF Next, gpuVars, Ender, PresentThread, Sync, Write, Bind, CreateFence, RetireUnbound,
    SyncRecv, SyncEnd, WaitStopped, WaitFailed, WaitOver, SyncRetire, DestroyDevice,
    TeardownInstance, WaitIdle, LockBound, Forget, JoinSync, Forgotten, DropDevice, PresentFence,
    PresentRecv, PresentBarrier, PresentSnapshot, PresentTake, PresentRetire

LEMMA GuestFrame == Next => Write \/ Decode \/ UNCHANGED <<guestVars, sent>>
  BY DEF Next, gpuVars, guestVars, Ender, PresentThread, Sync, Gpu, Bind, CreateFence,
    RetireUnbound, SubmitFence, SyncRecv, SyncEnd, WaitDone, WaitStopped, WaitFailed, WaitOver,
    SyncRetire, DestroyDevice, TeardownInstance, WaitIdle, LockBound, Forget, JoinSync, Forgotten,
    DropDevice, PresentFence, PresentRecv, PresentBarrier, PresentSnapshot, PresentTake,
    PresentSubmit, PresentWait, PresentRetire

LEMMA RingFrame ==
  Next => \/ \E r \in Rings : CreateFence(r) \/ Sync(r) \/ Forget(r) \/ \E q \in Queues : Bind(r, q)
          \/ RetireUnbound \/ SubmitFence \/ JoinSync
          \/ PresentTake \/ PresentSubmit \/ PresentWait
          \/ UNCHANGED <<pool, ringVars, made, answered>>
  BY DEF Next, ringVars, Ender, PresentThread, Gpu, Write, Decode, DestroyDevice, TeardownInstance,
    WaitIdle, LockBound, Forgotten, DropDevice, PresentFence, PresentRecv, PresentBarrier,
    PresentSnapshot, PresentRetire

LEMMA VmmFrame == Next => Vmm \/ UNCHANGED vmm
  BY DEF Next, Vmm, ringVars, Ender, PresentThread, Sync, Gpu, Write, Decode, Bind, SyncRecv,
    SyncEnd, WaitDone, WaitStopped, WaitFailed, WaitOver, SyncRetire, DestroyDevice,
    TeardownInstance, WaitIdle, LockBound, Forget, JoinSync, Forgotten, DropDevice, PresentFence,
    PresentRecv, PresentBarrier, PresentSnapshot, PresentTake, PresentSubmit, PresentWait,
    PresentRetire

LEMMA EnderFrame ==
  Next => (\E d \in Devices : DestroyDevice(d)) \/ TeardownInstance \/ Ender \/ UNCHANGED <<device, ender>>
  BY DEF Next, PresentThread, Sync, Gpu, Write, Decode, Bind, CreateFence, RetireUnbound,
    SubmitFence, SyncRecv, SyncEnd, WaitDone, WaitStopped, WaitFailed, WaitOver, SyncRetire,
    PresentFence, PresentRecv, PresentBarrier, PresentSnapshot, PresentTake, PresentSubmit,
    PresentWait, PresentRetire

LEMMA PresentFrame == Next => PresentFence \/ PresentThread \/ UNCHANGED presentVars
  BY DEF Next, presentVars, Ender, Sync, Gpu, Write, Decode, Bind, CreateFence, RetireUnbound,
    SubmitFence, SyncRecv, SyncEnd, WaitDone, WaitStopped, WaitFailed, WaitOver, SyncRetire,
    DestroyDevice, TeardownInstance, WaitIdle, LockBound, Forget, JoinSync, Forgotten, DropDevice

-----------------------------------------------------------------------------
(* Sequences, and the pool                                                 *)

LEMMA Added ==
  ASSUME NEW S, NEW s \in Seq(S), NEW e \in S
  PROVE  /\ Append(s, e) \in Seq(S) /\ Len(s) \in Nat /\ Len(Append(s, e)) = Len(s) + 1
         /\ \A i \in 1..Len(s) : Append(s, e)[i] = s[i]
         /\ Append(s, e)[Len(s) + 1] = e
  BY AppendProperties, LenProperties

LEMMA Taken ==
  ASSUME NEW S, NEW s \in Seq(S), s # <<>>
  PROVE  /\ Tail(s) \in Seq(S) /\ Len(s) \in Nat \ {0} /\ Len(Tail(s)) = Len(s) - 1
         /\ Head(s) \in S /\ Head(s) = s[1]
         /\ \A i \in 1..Len(Tail(s)) : Tail(s)[i] = s[i + 1]
  <1>1. Len(s) \in Nat \ {0}
    BY EmptySeq, LenProperties
  <1>2. Tail(s) \in Seq(S) /\ Len(Tail(s)) = Len(s) - 1
        /\ \A i \in 1..Len(Tail(s)) : Tail(s)[i] = s[i + 1]
    BY HeadTailProperties
  <1>3. Head(s) \in S /\ Head(s) = s[1]
    BY HeadTailProperties
  <1> QED BY <1>1, <1>2, <1>3

\* A fence's queue is its first part.
LEMMA FenceQueue == ASSUME NEW f \in VkFence PROVE f[1] \in Queues /\ f # None
  BY NoneIsNoFence DEF VkFence

\* What the pool gives (take_fence).
LEMMA Given ==
  ASSUME NEW q \in Queues, NEW f \in take_fence(q), RingTypes
  PROVE  f = None \/ (f \in VkFence /\ f[1] = q /\ pool[f] # "out")
  BY DEF take_fence, Of, RingTypes

\* What put_fence does: no longer signalled, and spare or destroyed.
LEMMA Put ==
  ASSUME NEW f \in VkFence, put_fence(f), RingTypes
  PROVE  /\ signalled' = signalled \ {f}
         /\ pool' \in [VkFence -> {"none", "spare", "out"}] /\ pool'[f] # "out"
         /\ \A g \in VkFence : g # f => pool'[g] = pool[g]
  BY DEF put_fence, Unsignalled, RingTypes

LEMMA Out ==
  ASSUME NEW f \in VkFence, pool' = TakenOut(f), RingTypes
  PROVE  /\ pool' \in [VkFence -> {"none", "spare", "out"}] /\ pool'[f] = "out"
         /\ \A g \in VkFence : g # f => pool'[g] = pool[g]
  BY DEF TakenOut, RingTypes

-----------------------------------------------------------------------------
(* Types                                                                   *)

LEMMA TypesStart == Init => Types
  <1> SUFFICES ASSUME Init PROVE Types
    OBVIOUS
  <1>0. NoJob \in Job /\ NoPresent \in Present /\ <<>> \in Seq(Job) /\ <<>> \in Seq(Present)
        /\ <<>> \in Seq({Work} \cup VkFence) /\ 0 \in 0..MaxFences /\ 0 \in 0..MaxPresents
        /\ 0 \in 0..MaxDraws
    BY QueueConstants DEF NoJob, NoPresent, Job, Present, Fence
  <1>1. GpuTypes
    BY <1>0 DEF Init, GpuTypes
  <1>2. GuestTypes
    BY <1>0 DEF Init, GuestTypes
  <1>3. RingTypes
    BY <1>0, QueueConstants DEF Init, RingTypes
  <1>4. VmmTypes
    BY DEF Init, VmmTypes, Idle, Fence
  <1>5. EnderTypes
    BY DEF Init, EnderTypes, Alive
  <1>6. PresentTypes
    <2>1. presents = 0 /\ shown = 0 /\ pjobs = <<>> /\ ppc = "off" /\ barrier = NoPresent /\ held = {}
          /\ left = {} /\ pfence = None /\ partial = FALSE
      BY DEF Init
    <2>2. presents = shown + Len(pjobs) + (IF ppc \in {"off", "recv"} THEN 0 ELSE 1)
      BY <2>1
    <2> QED BY <2>1, <2>2, <1>0 DEF PresentTypes, Fence
  <1> QED BY <1>1, <1>2, <1>3, <1>4, <1>5, <1>6 DEF Types

\* What the queue of a new piece or fence looks like.
LEMMA Given2 ==
  ASSUME GpuTypes, NEW q \in Queues, NEW e \in {Work} \cup VkFence, e # Work => e[1] = q,
         gpu' = [gpu EXCEPT ![q] = Append(@, e)]
  PROVE  /\ gpu' \in [Queues -> Seq({Work} \cup VkFence)]
         /\ \A p \in Queues : \A i \in 1..Len(gpu'[p]) : gpu'[p][i] # Work => gpu'[p][i][1] = p
         /\ \A p \in Queues : p # q => gpu'[p] = gpu[p]
         /\ Len(gpu[q]) \in Nat /\ Len(gpu'[q]) = Len(gpu[q]) + 1
         /\ \A i \in 1..Len(gpu[q]) : gpu'[q][i] = gpu[q][i]
         /\ gpu'[q][Len(gpu[q]) + 1] = e
  <1> DEFINE s == gpu[q]
             t == Append(s, e)
  <1>1. s \in Seq({Work} \cup VkFence) /\ \A i \in 1..Len(s) : s[i] # Work => s[i][1] = q
    BY DEF GpuTypes
  <1> HIDE DEF s
  <1>2. /\ t \in Seq({Work} \cup VkFence) /\ Len(s) \in Nat /\ Len(t) = Len(s) + 1
        /\ \A i \in 1..Len(s) : t[i] = s[i]
        /\ t[Len(s) + 1] = e
    BY <1>1, Added
  <1> HIDE DEF t
  <1>3. \A i \in 1..Len(t) : t[i] # Work => t[i][1] = q
    <2> SUFFICES ASSUME NEW i \in 1..Len(t), t[i] # Work PROVE t[i][1] = q
      OBVIOUS
    <2>1. i \in 1..Len(s) \/ i = Len(s) + 1
      BY <1>2
    <2> QED BY <2>1, <1>1, <1>2
  <1>4. gpu'[q] = t /\ gpu' \in [Queues -> Seq({Work} \cup VkFence)]
        /\ \A p \in Queues : p # q => gpu'[p] = gpu[p]
    BY <1>2 DEF GpuTypes, s, t
  <1>5. ASSUME NEW p \in Queues, NEW i \in 1..Len(gpu'[p]), gpu'[p][i] # Work
        PROVE  gpu'[p][i][1] = p
    <2>1. CASE p = q
      BY <2>1, <1>3, <1>4, <1>5
    <2>2. CASE p # q
      BY <2>2, <1>4, <1>5 DEF GpuTypes
    <2> QED BY <2>1, <2>2
  <1> QED BY <1>2, <1>4, <1>5 DEF s

\* What a queue is when its first has finished.
LEMMA Finished ==
  ASSUME GpuTypes, NEW q \in Queues, Gpu(q)
  PROVE  /\ gpu' \in [Queues -> Seq({Work} \cup VkFence)]
         /\ \A p \in Queues : \A i \in 1..Len(gpu'[p]) : gpu'[p][i] # Work => gpu'[p][i][1] = p
         /\ \A p \in Queues : p # q => gpu'[p] = gpu[p]
         /\ gpu'[q] = Tail(gpu[q]) /\ Len(gpu[q]) \in Nat \ {0} /\ Len(gpu'[q]) = Len(gpu[q]) - 1
         /\ \A i \in 1..Len(gpu'[q]) : gpu'[q][i] = gpu[q][i + 1]
         /\ gpu[q][1] \in {Work} \cup VkFence /\ (gpu[q][1] # Work => gpu[q][1][1] = q)
         /\ Head(gpu[q]) = gpu[q][1]
  <1> DEFINE s == gpu[q]
             t == Tail(s)
  <1>1. s \in Seq({Work} \cup VkFence) /\ s # <<>> /\ \A i \in 1..Len(s) : s[i] # Work => s[i][1] = q
    BY DEF GpuTypes, Gpu
  <1> HIDE DEF s
  <1>2. /\ t \in Seq({Work} \cup VkFence) /\ Len(s) \in Nat \ {0} /\ Len(t) = Len(s) - 1
        /\ Head(s) \in {Work} \cup VkFence /\ Head(s) = s[1]
        /\ \A i \in 1..Len(t) : t[i] = s[i + 1]
    BY <1>1, Taken
  <1> HIDE DEF t
  <1>3. \A i \in 1..Len(t) : t[i] # Work => t[i][1] = q
    BY <1>1, <1>2
  <1>4. gpu'[q] = t /\ gpu' \in [Queues -> Seq({Work} \cup VkFence)]
        /\ \A p \in Queues : p # q => gpu'[p] = gpu[p]
    BY <1>2 DEF GpuTypes, Gpu, s, t
  <1>5. ASSUME NEW p \in Queues, NEW i \in 1..Len(gpu'[p]), gpu'[p][i] # Work
        PROVE  gpu'[p][i][1] = p
    <2>1. CASE p = q
      BY <2>1, <1>3, <1>4, <1>5
    <2>2. CASE p # q
      BY <2>2, <1>4, <1>5 DEF GpuTypes
    <2> QED BY <2>1, <2>2
  <1>6. 1 \in 1..Len(s)
    BY <1>2
  <1> QED BY <1>1, <1>2, <1>4, <1>5, <1>6 DEF s, t

\* The VMM submits f to q, or does not, and sends a job with fence g on r's channel.
SubmitsAs(r, q, f, g) ==
  /\ vmm.at = "took" /\ r = vmm.ring /\ f = vmm.fence /\ q = bound[r] /\ vmm' = Idle
  /\ jobs' = [jobs EXCEPT ![r] =
                Append(@, [seqno |-> made[r], fence |-> g, cover |-> sent[q], how |-> "never"])]
  /\ f # None => f \in VkFence /\ f[1] = q
  /\ \/ /\ f # None /\ g = f /\ gpu' = [gpu EXCEPT ![q] = Append(@, f)]
        /\ UNCHANGED <<pool, signalled>>
     \/ f # None /\ g = None /\ MayFail /\ put_fence(f) /\ UNCHANGED gpu
     \/ f = None /\ g = None /\ UNCHANGED <<gpu, pool, signalled>>
  /\ UNCHANGED <<hung, sent, finished, guestVars, bound, going, closed, sync, hand, device, ender,
                 presentVars, made, answered>>

\* It is the queue the fence was taken for.
LEMMA Submits ==
  ASSUME Types, Bindings, Owned, SubmitFence
  PROVE  \E r \in Rings, q \in Queues, f \in Fence, g \in Fence : SubmitsAs(r, q, f, g)
  <1>1. vmm.ring \in Rings /\ bound[vmm.ring] \in Queues /\ vmm.fence \in Fence /\ None \in Fence
    BY DEF SubmitFence, Types, VmmTypes, RingTypes, Bindings, Fence
  <1>2. vmm.fence # None => vmm.fence \in VkFence /\ vmm.fence[1] = bound[vmm.ring]
    BY <1>1 DEF Owned, Fence
  <1> DEFINE r == vmm.ring
             q == bound[r]
             f == vmm.fence
             Sends(g) == jobs' = [jobs EXCEPT ![r] = Append(@, [seqno |-> made[r], fence |-> g,
                                                     cover |-> sent[q], how |-> "never"])]
  <1>3. /\ vmm.at = "took" /\ vmm' = Idle
        /\ UNCHANGED <<hung, sent, finished, guestVars, bound, going, closed, sync, hand, device,
                       ender, presentVars, made, answered>>
    BY DEF SubmitFence
  <1>4. \/ f # None /\ gpu' = [gpu EXCEPT ![q] = Append(@, f)] /\ Sends(f) /\ UNCHANGED <<pool, signalled>>
        \/ f # None /\ MayFail /\ put_fence(f) /\ Sends(None) /\ UNCHANGED gpu
        \/ f = None /\ Sends(None) /\ UNCHANGED <<gpu, pool, signalled>>
    BY DEF SubmitFence, Send, Submit
  <1>5. SubmitsAs(r, q, f, f) \/ SubmitsAs(r, q, f, None)
    BY <1>2, <1>3, <1>4 DEF SubmitsAs
  <1> HIDE DEF r, q, f, Sends
  <1>6. r \in Rings /\ q \in Queues /\ f \in Fence
    BY <1>1 DEF r, q, f
  <1> QED BY <1>1, <1>5, <1>6

LEMMA GpuTyped == ASSUME Types, Bindings, Owned, Next PROVE GpuTypes'
  <1>0. GpuTypes /\ RingTypes /\ hung' = hung /\ hung \in SUBSET Hung
    BY GpuFrame DEF Types, GpuTypes, Gpu, Decode, SubmitFence, PresentSubmit, PresentWait, WaitDone,
      WaitOver, gpuVars
  <1>1. ASSUME NEW q \in Queues, Gpu(q) PROVE GpuTypes'
    <2>1. /\ sent' = sent
          /\ \/ finished' = [finished EXCEPT ![q] = @ + 1] /\ signalled' = signalled
             \/ /\ finished' = finished /\ Head(gpu[q]) # Work
                /\ signalled' = signalled \cup {Head(gpu[q])}
      BY <1>1 DEF Gpu
    <2>2. /\ gpu' \in [Queues -> Seq({Work} \cup VkFence)] /\ Head(gpu[q]) \in {Work} \cup VkFence
          /\ \A p \in Queues : \A i \in 1..Len(gpu'[p]) : gpu'[p][i] # Work => gpu'[p][i][1] = p
      BY <1>0, <1>1, Finished
    <2>3. finished' \in [Queues -> Nat] /\ signalled' \in SUBSET VkFence
      <3>1. finished \in [Queues -> Nat] /\ signalled \in SUBSET VkFence
        BY <1>0 DEF GpuTypes
      <3>2. CASE finished' = [finished EXCEPT ![q] = @ + 1] /\ signalled' = signalled
        BY <3>1, <3>2
      <3>3. CASE /\ finished' = finished /\ Head(gpu[q]) # Work
                 /\ signalled' = signalled \cup {Head(gpu[q])}
        BY <3>1, <3>3, <2>2
      <3> QED BY <2>1, <3>2, <3>3
    <2> QED BY <2>1, <2>2, <2>3, <1>0 DEF GpuTypes
  <1>2. CASE Decode
    <2>1. CASE UNCHANGED <<gpu, sent>>
      BY <1>0, <1>2, <2>1 DEF Decode, GpuTypes
    <2>2. ASSUME NEW q \in BoundQueues, gpu' = [gpu EXCEPT ![q] = Append(@, Work)],
                 sent' = [sent EXCEPT ![q] = @ + 1]
          PROVE  GpuTypes'
      <3>1. sent' \in [Queues -> Nat] /\ q \in Queues
        BY <2>2, <1>0 DEF GpuTypes, BoundQueues
      <3>2. /\ gpu' \in [Queues -> Seq({Work} \cup VkFence)]
            /\ \A p \in Queues : \A i \in 1..Len(gpu'[p]) : gpu'[p][i] # Work => gpu'[p][i][1] = p
        BY <2>2, <3>1, <1>0, Given2
      <3> QED BY <3>1, <3>2, <1>0, <1>2 DEF GpuTypes, Decode
    <2> QED BY <1>2, <2>1, <2>2 DEF Decode
  <1>3. CASE SubmitFence
    <2>0. PICK r \in Rings, q \in Queues, f \in Fence, g \in Fence : SubmitsAs(r, q, f, g)
      BY <1>3, Submits
    <2>1. /\ f # None => f \in VkFence /\ f[1] = q
          /\ \/ f # None /\ gpu' = [gpu EXCEPT ![q] = Append(@, f)] /\ UNCHANGED signalled
             \/ f # None /\ put_fence(f) /\ UNCHANGED gpu
             \/ UNCHANGED <<gpu, signalled>>
          /\ UNCHANGED <<sent, finished>>
      BY <2>0 DEF SubmitsAs
    <2>2. signalled' \in SUBSET VkFence
      BY <2>1, <1>0, Put DEF GpuTypes
    <2>3. /\ gpu' \in [Queues -> Seq({Work} \cup VkFence)]
          /\ \A p \in Queues : \A i \in 1..Len(gpu'[p]) : gpu'[p][i] # Work => gpu'[p][i][1] = p
      <3>1. CASE f # None /\ gpu' = [gpu EXCEPT ![q] = Append(@, f)]
        BY <3>1, <2>1, <1>0, Given2
      <3>2. CASE gpu' = gpu
        BY <3>2, <1>0 DEF GpuTypes
      <3> QED BY <2>1, <3>1, <3>2
    <2> QED BY <2>1, <2>2, <2>3, <1>0 DEF GpuTypes
  <1>4. CASE PresentSubmit
    <2>0. pfence \in VkFence /\ pfence[1] \in Queues
      BY <1>4, FenceQueue DEF PresentSubmit, Types, PresentTypes, Fence
    <2>1. /\ UNCHANGED <<sent, finished>>
          /\ \/ gpu' = [gpu EXCEPT ![pfence[1]] = Append(@, pfence)] /\ signalled' = signalled
             \/ put_fence(pfence) /\ gpu' = gpu
      BY <1>4 DEF PresentSubmit, Submit
    <2>2. signalled' \in SUBSET VkFence
      BY <2>0, <2>1, <1>0, Put DEF GpuTypes
    <2>3. /\ gpu' \in [Queues -> Seq({Work} \cup VkFence)]
          /\ \A p \in Queues : \A i \in 1..Len(gpu'[p]) : gpu'[p][i] # Work => gpu'[p][i][1] = p
      <3>1. CASE gpu' = [gpu EXCEPT ![pfence[1]] = Append(@, pfence)]
        BY <3>1, <2>0, <1>0, Given2
      <3>2. CASE gpu' = gpu
        BY <3>2, <1>0 DEF GpuTypes
      <3> QED BY <2>1, <3>1, <3>2
    <2> QED BY <2>1, <2>2, <2>3, <1>0 DEF GpuTypes
  <1>5. CASE PresentWait
    <2>0. pfence \in VkFence
      BY <1>5 DEF PresentWait, Types, PresentTypes, Fence
    <2>1. UNCHANGED <<gpu, sent, finished>> /\ (put_fence(pfence) \/ UNCHANGED signalled)
      BY <1>5 DEF PresentWait
    <2> QED BY <2>0, <2>1, <1>0, Put DEF GpuTypes
  <1>6. ASSUME NEW r \in Rings, WaitDone(r) PROVE GpuTypes'
    <2>0. hand[r].fence \in VkFence
      BY <1>6 DEF WaitDone, Types, GpuTypes
    <2>1. UNCHANGED <<gpu, sent, finished>> /\ put_fence(hand[r].fence)
      BY <1>6 DEF WaitDone, WaitOver
    <2> QED BY <2>0, <2>1, <1>0, Put DEF GpuTypes
  <1>7. CASE UNCHANGED gpuVars
    BY <1>7, <1>0 DEF gpuVars, GpuTypes
  <1> QED BY <1>1, <1>2, <1>3, <1>4, <1>5, <1>6, <1>7, GpuFrame

LEMMA GuestTyped == ASSUME Types, Next PROVE GuestTypes'
  <1>0. GuestTypes /\ GpuTypes /\ MaxDraws \in Nat
    BY QueueConstants DEF Types
  <1>1. CASE Write
    BY <1>0, <1>1 DEF GuestTypes, Write, gpuVars
  <1>2. CASE Decode
    <2>1. PICK q \in Queues \cup {None}, n \in Nat :
            /\ drew' = Append(drew, [queue |-> q, piece |-> n])
            /\ sent' = sent \/ (q \in Queues /\ sent' = [sent EXCEPT ![q] = @ + 1])
      <3>1. CASE drew' = Append(drew, [queue |-> None, piece |-> 0]) /\ UNCHANGED <<gpu, sent>>
        BY <3>1
      <3>2. ASSUME NEW q \in BoundQueues, sent' = [sent EXCEPT ![q] = @ + 1],
                   drew' = Append(drew, [queue |-> q, piece |-> sent[q] + 1])
            PROVE  \E p \in Queues \cup {None}, n \in Nat :
                     /\ drew' = Append(drew, [queue |-> p, piece |-> n])
                     /\ sent' = sent \/ (p \in Queues /\ sent' = [sent EXCEPT ![p] = @ + 1])
        <4>1. q \in Queues /\ sent[q] + 1 \in Nat
          BY <1>0 DEF BoundQueues, GpuTypes
        <4> QED BY <4>1, <3>2
      <3> QED BY <1>2, <3>1, <3>2 DEF Decode
    <2>2. /\ drew' \in Seq([queue : Queues \cup {None}, piece : Nat])
          /\ Len(drew) \in Nat /\ Len(drew') = Len(drew) + 1
      <3>1. [queue |-> q, piece |-> n] \in [queue : Queues \cup {None}, piece : Nat]
        OBVIOUS
      <3> QED BY <3>1, <2>1, <1>0, Added DEF GuestTypes
    <2>3. Len(drew) < written /\ written' = written
      BY <1>2 DEF Decode
    <2>4. \A p \in Queues : sent'[p] <= Len(drew')
      <3> SUFFICES ASSUME NEW p \in Queues PROVE sent'[p] <= Len(drew')
        OBVIOUS
      <3>1. sent[p] <= Len(drew) /\ sent[p] \in Nat /\ sent'[p] \in {sent[p], sent[p] + 1}
        BY <2>1, <1>0 DEF GuestTypes, GpuTypes
      <3> QED BY <3>1, <2>2
    <2> QED BY <1>0, <2>2, <2>3, <2>4 DEF GuestTypes
  <1>3. CASE UNCHANGED <<guestVars, sent>>
    BY <1>0, <1>3 DEF GuestTypes, guestVars
  <1> QED BY <1>1, <1>2, <1>3, GuestFrame

LEMMA RingTyped == ASSUME Types, Bindings, Owned, Next PROVE RingTypes'
  <1>0. RingTypes /\ GpuTypes /\ MaxFences \in Nat /\ NoJob \in Job
    BY QueueConstants DEF Types, NoJob, Job, Fence
  <1> DEFINE Pools == [VkFence -> {"none", "spare", "out"}]
  <1>1. ASSUME NEW r \in Rings, CreateFence(r) PROVE RingTypes'
    <2>1. made' \in [Rings -> 0..MaxFences]
      BY <1>0, <1>1 DEF CreateFence, RingTypes
    <2>2. pool' \in Pools
      <3>1. CASE UNCHANGED pool
        BY <3>1, <1>0 DEF RingTypes
      <3>2. ASSUME NEW f \in take_fence(bound[r]), bound[r] # None,
                   pool' = IF f = None THEN pool ELSE TakenOut(f)
            PROVE  pool' \in Pools
        <4>1. bound[r] \in Queues
          BY <3>2, <1>0 DEF RingTypes
        <4>2. f = None \/ f \in VkFence
          BY <4>1, <1>0, Given
        <4> QED BY <4>2, <3>2, <1>0, Out DEF RingTypes
      <3> QED BY <1>1, <3>1, <3>2 DEF CreateFence
    <2> QED BY <1>0, <1>1, <2>1, <2>2 DEF CreateFence, RingTypes, ringVars
  <1>2. ASSUME NEW r \in Rings, Sync(r) PROVE RingTypes'
    <2>1. CASE SyncRecv(r)
      <3>1. jobs[r] \in Seq(Job) /\ jobs[r] # <<>>
        BY <1>0, <2>1 DEF SyncRecv, Receives, RingTypes
      <3>2. Head(jobs[r]) \in Job /\ Tail(jobs[r]) \in Seq(Job)
        BY <3>1, Taken
      <3> QED BY <1>0, <2>1, <3>2 DEF SyncRecv, RingTypes
    <2>2. CASE SyncEnd(r)
      BY <1>0, <2>2 DEF SyncEnd, RingTypes
    <2>3. ASSUME NEW how \in {"waited", "stopped", "failed"}, WaitOver(r, how)
          PROVE  hand' \in [Rings -> Job] /\ sync' \in [Rings -> {"off", "recv", "wait", "retire", "gone"}]
                 /\ UNCHANGED <<bound, jobs, going, closed, made, answered>>
      <3>1. [hand[r] EXCEPT !.how = how] \in Job
        BY <1>0 DEF RingTypes, Job
      <3>2. hand' = [hand EXCEPT ![r] = [hand[r] EXCEPT !.how = how]] /\ sync' = [sync EXCEPT ![r] = "retire"]
        BY <2>3 DEF WaitOver
      <3>3. UNCHANGED <<bound, jobs, going, closed>>
        BY <2>3 DEF WaitOver
      <3>4. UNCHANGED <<made, answered>>
        BY <2>3 DEF WaitOver
      <3> QED BY <3>1, <3>2, <3>3, <3>4, <1>0 DEF RingTypes
    <2>4. CASE WaitDone(r)
      <3>1. hand[r].fence \in VkFence
        BY <2>4 DEF WaitDone, Types, GpuTypes
      <3>2. pool' \in Pools
        BY <3>1, <2>4, <1>0, Put DEF WaitDone
      <3> QED BY <3>2, <2>3, <2>4, <1>0 DEF WaitDone, RingTypes
    <2>5. CASE WaitStopped(r)
      BY <2>3, <2>5, <1>0 DEF WaitStopped, RingTypes, LeftOut
    <2>6. CASE WaitFailed(r)
      BY <2>3, <2>6, <1>0 DEF WaitFailed, RingTypes, LeftOut
    <2>7. CASE SyncRetire(r)
      <3>1. hand[r].seqno \in Nat
        BY <1>0 DEF RingTypes, Job
      <3>2. hand' \in [Rings -> Job] /\ sync' \in [Rings -> {"off", "recv", "wait", "retire", "gone"}]
        BY <2>7, <1>0 DEF SyncRetire, RingTypes
      <3>3. answered' \in [Rings -> Nat]
        BY <2>7, <3>1, <1>0 DEF SyncRetire, RingTypes
      <3> QED BY <2>7, <3>2, <3>3, <1>0 DEF SyncRetire, RingTypes
    <2> QED BY <1>2, <2>1, <2>2, <2>4, <2>5, <2>6, <2>7 DEF Sync
  <1>3. ASSUME NEW r \in Rings, Forget(r) PROVE RingTypes'
    BY <1>0, <1>3 DEF Forget, Stopped, RingTypes
  <1>4. ASSUME NEW r \in Rings, NEW q \in Queues, Bind(r, q) PROVE RingTypes'
    BY <1>0, <1>4 DEF Bind, RingTypes
  <1>5. CASE RetireUnbound
    <2>1. vmm.ring \in Rings
      BY <1>5 DEF RetireUnbound, Types, VmmTypes
    <2>2. answered' \in [Rings -> Nat]
      BY <2>1, <1>0, <1>5 DEF RetireUnbound, RingTypes
    <2> QED BY <2>2, <1>0, <1>5 DEF RetireUnbound, RingTypes, ringVars
  <1>6. CASE SubmitFence
    <2>1. PICK r \in Rings, q \in Queues, f \in Fence, g \in Fence : SubmitsAs(r, q, f, g)
      BY <1>6, Submits
    <2> DEFINE j == [seqno |-> made[r], fence |-> g, cover |-> sent[q], how |-> "never"]
    <2>2. j \in Job
      BY <1>0 DEF RingTypes, GpuTypes, Job
    <2> HIDE DEF j
    <2>3. Append(jobs[r], j) \in Seq(Job) /\ jobs' = [jobs EXCEPT ![r] = Append(@, j)]
      BY <2>1, <2>2, <1>0, Added DEF RingTypes, SubmitsAs, j
    <2>4. pool' \in Pools
      BY <2>1, <1>0, Put DEF SubmitsAs, RingTypes
    <2>5. UNCHANGED <<bound, going, closed, sync, hand, made, answered>>
      BY <2>1 DEF SubmitsAs
    <2>6. jobs' \in [Rings -> Seq(Job)]
      BY <2>3, <1>0 DEF RingTypes
    <2> QED BY <2>4, <2>5, <2>6, <1>0 DEF RingTypes
  <1>7. CASE JoinSync
    BY <1>0, <1>7 DEF JoinSync, RingTypes
  <1>8. CASE PresentTake
    <2>1. PICK q \in left : \E f \in take_fence(q) :
             IF f = None THEN UNCHANGED pool ELSE pool' = TakenOut(f)
      BY <1>8 DEF PresentTake
    <2>2. q \in Queues
      BY DEF Types, PresentTypes
    <2>3. PICK f \in take_fence(q) : IF f = None THEN UNCHANGED pool ELSE pool' = TakenOut(f)
      BY <2>1
    <2>4. pool' \in Pools
      BY <2>2, <2>3, <1>0, Given, Out DEF RingTypes
    <2>5. UNCHANGED <<ringVars, made, answered>>
      BY <1>8 DEF PresentTake
    <2> QED BY <2>4, <2>5, <1>0 DEF RingTypes, ringVars
  <1>9. CASE PresentSubmit
    <2>1. pfence \in VkFence
      BY <1>9 DEF PresentSubmit, Types, PresentTypes, Fence
    <2>2. (UNCHANGED pool \/ put_fence(pfence)) /\ UNCHANGED <<ringVars, made, answered>>
      BY <1>9 DEF PresentSubmit
    <2> QED BY <2>1, <2>2, <1>0, Put DEF RingTypes, ringVars
  <1>10. CASE PresentWait
    <2>1. pfence \in VkFence
      BY <1>10 DEF PresentWait, Types, PresentTypes, Fence
    <2>2. (UNCHANGED pool \/ put_fence(pfence)) /\ UNCHANGED <<ringVars, made, answered>>
      BY <1>10 DEF PresentWait, LeftOut
    <2> QED BY <2>1, <2>2, <1>0, Put DEF RingTypes, ringVars
  <1>11. CASE UNCHANGED <<pool, ringVars, made, answered>>
    BY <1>0, <1>11 DEF RingTypes, ringVars
  <1> QED BY <1>1, <1>2, <1>3, <1>4, <1>5, <1>6, <1>7, <1>8, <1>9, <1>10, <1>11, RingFrame

LEMMA VmmTyped == ASSUME Types, Next PROVE VmmTypes'
  <1>0. VmmTypes /\ RingTypes
    BY DEF Types
  <1>1. ASSUME NEW r \in Rings, CreateFence(r) PROVE VmmTypes'
    <2>1. CASE vmm' = [at |-> "unbound", ring |-> r, fence |-> None]
      BY <2>1 DEF VmmTypes, Fence
    <2>2. ASSUME NEW f \in take_fence(bound[r]), bound[r] # None,
                 vmm' = [at |-> "took", ring |-> r, fence |-> f]
          PROVE  VmmTypes'
      <3>1. f \in Fence
        <4>1. bound[r] \in Queues
          BY <2>2, <1>0 DEF RingTypes
        <4> QED BY <4>1, <2>2, <1>0, Given DEF Fence
      <3> QED BY <2>2, <3>1 DEF VmmTypes
    <2> QED BY <1>1, <2>1, <2>2 DEF CreateFence
  <1>2. CASE vmm' = Idle
    BY <1>2 DEF VmmTypes, Idle, Fence
  <1>3. CASE UNCHANGED vmm
    BY <1>0, <1>3 DEF VmmTypes
  <1> QED BY <1>1, <1>2, <1>3, VmmFrame DEF Vmm, RetireUnbound, SubmitFence

LEMMA EnderTyped == ASSUME Types, Next PROVE EnderTypes'
  <1>0. EnderTypes
    BY DEF Types
  <1> USE <1>0 DEF EnderTypes
  <1>1. ASSUME NEW d \in Devices, DestroyDevice(d) PROVE EnderTypes'
    BY <1>1 DEF DestroyDevice
  <1>2. CASE TeardownInstance
    BY <1>2 DEF TeardownInstance
  <1>3. CASE WaitIdle
    <2>1. PICK d \in Devices : device' = [device EXCEPT ![d] = "idle"]
      BY <1>3 DEF WaitIdle
    <2>2. device' \in [Devices -> {"live", "ending", "idle", "dropped"}]
      BY <2>1
    <2>3. PICK to \in {"drop", "wait", "lock"} :
            /\ ender' = [ender EXCEPT !.at = to]
            /\ to = "drop" <=> ender.way = "destroy"
      BY <1>3 DEF WaitIdle
    <2>4. ender.at = "wait"
      BY <1>3 DEF WaitIdle
    <2> QED BY <2>2, <2>3, <2>4
  <1>4. CASE LockBound
    BY <1>4 DEF LockBound
  <1>5. ASSUME NEW r \in Rings, Forget(r) PROVE EnderTypes'
    BY <1>5 DEF Forget
  <1>6. CASE JoinSync
    BY <1>6 DEF JoinSync
  <1>7. CASE Forgotten
    BY <1>7 DEF Forgotten
  <1>8. CASE DropDevice
    BY <1>8 DEF DropDevice, Alive
  <1>9. CASE UNCHANGED <<device, ender>>
    BY <1>9
  <1> QED BY <1>1, <1>2, <1>3, <1>4, <1>5, <1>6, <1>7, <1>8, <1>9, EnderFrame DEF Ender

LEMMA PresentTyped == ASSUME Types, Next PROVE PresentTypes'
  <1>0. PresentTypes /\ RingTypes /\ MaxPresents \in Nat /\ NoPresent \in Present /\ written \in Nat
    BY QueueConstants DEF Types, GuestTypes, NoPresent, Present
  <1> DEFINE Counted == presents = shown + Len(pjobs) + (IF ppc \in {"off", "recv"} THEN 0 ELSE 1)
  <1>1. CASE PresentFence
    <2>1. [reads |-> DecodeBarrier, frame |-> written] \in Present
      BY <1>0 DEF Present, DecodeBarrier
    <2>2. pjobs' \in Seq(Present) /\ Len(pjobs) \in Nat /\ Len(pjobs') = Len(pjobs) + 1
      BY <1>0, <1>1, <2>1, Added DEF PresentFence, PresentTypes
    <2>3. /\ presents' = presents + 1 /\ presents < MaxPresents
          /\ ppc' = IF ppc = "off" THEN "recv" ELSE ppc
          /\ UNCHANGED <<shown, barrier, held, left, pfence, partial>>
      BY <1>1 DEF PresentFence
    <2>4. Counted' /\ presents' \in 0..MaxPresents
      BY <1>0, <2>2, <2>3 DEF PresentTypes
    <2>5. ppc' # "off"
      BY <2>3
    <2> QED BY <1>0, <2>2, <2>3, <2>4, <2>5 DEF PresentTypes
  <1>2. CASE PresentRecv
    <2>1. pjobs \in Seq(Present) /\ pjobs # <<>> /\ barrier' = Head(pjobs) /\ pjobs' = Tail(pjobs)
      BY <1>0, <1>2 DEF PresentRecv, PresentTypes
    <2>2. /\ pjobs' \in Seq(Present) /\ Len(pjobs) \in Nat \ {0} /\ Len(pjobs') = Len(pjobs) - 1
          /\ barrier' \in Present
      BY <2>1, Taken
    <2>3. Counted'
      BY <1>0, <1>2, <2>2 DEF PresentRecv, PresentTypes
    <2> QED BY <1>0, <1>2, <2>2, <2>3 DEF PresentRecv, PresentTypes
  <1>3. CASE PresentBarrier
    BY <1>0, <1>3 DEF PresentBarrier, PresentTypes
  <1>4. CASE PresentSnapshot
    <2>1. queues \in SUBSET Queues
      BY DEF queues, BoundQueues
    <2>2. Counted'
      BY <1>0, <1>4 DEF PresentSnapshot, PresentTypes
    <2> QED BY <1>0, <1>4, <2>1, <2>2 DEF PresentSnapshot, PresentTypes
  <1>5. CASE PresentTake
    <2>1. PICK q \in left : \E f \in take_fence(q) :
             /\ left' = left \ {q}
             /\ IF f = None THEN partial' = TRUE /\ UNCHANGED <<pool, ppc, pfence>>
                ELSE pool' = TakenOut(f) /\ pfence' = f /\ ppc' = "took" /\ UNCHANGED partial
      BY <1>5 DEF PresentTake
    <2>2. q \in Queues /\ q \in held
      BY <1>0 DEF PresentTypes
    <2>3. PICK f \in take_fence(q) :
             /\ left' = left \ {q}
             /\ IF f = None THEN partial' = TRUE /\ UNCHANGED <<pool, ppc, pfence>>
                ELSE pool' = TakenOut(f) /\ pfence' = f /\ ppc' = "took" /\ UNCHANGED partial
      BY <2>1
    <2>4. f = None \/ (f \in VkFence /\ f[1] = q)
      BY <2>2, <2>3, <1>0, Given
    <2>5. /\ UNCHANGED <<presents, shown, pjobs, barrier, held>> /\ ppc = "each"
      BY <1>5 DEF PresentTake
    <2>6. CASE f = None
      BY <2>3, <2>5, <2>6, <1>0 DEF PresentTypes
    <2>7. CASE f # None
      <3>1. ppc' = "took" /\ pfence' = f /\ partial' = partial /\ f \in VkFence /\ f[1] = q
        BY <2>3, <2>4, <2>7
      <3>2. Counted'
        BY <3>1, <2>5, <1>0 DEF PresentTypes
      <3>3. pfence'[1] \in held' \ left' /\ left' \in SUBSET held'
        BY <3>1, <2>2, <2>3, <2>5, <1>0 DEF PresentTypes
      <3> QED BY <3>1, <3>2, <3>3, <2>5, <2>7, <1>0 DEF PresentTypes, Fence
    <2> QED BY <2>6, <2>7
  <1>6. CASE PresentSubmit \/ PresentWait
    <2>1. /\ UNCHANGED <<presents, shown, pjobs, barrier, held, left>> /\ ppc \in {"took", "wait"}
          /\ \/ ppc' = "wait" /\ UNCHANGED <<pfence, partial>>
             \/ ppc' = "each" /\ pfence' = None /\ partial' \in {TRUE, partial}
      BY <1>6 DEF PresentSubmit, PresentWait
    <2>2. Counted'
      BY <1>0, <2>1 DEF PresentTypes
    <2> QED BY <1>0, <2>1, <2>2 DEF PresentTypes, Fence
  <1>7. CASE PresentRetire
    <2>1. Counted' /\ shown' \in Nat
      BY <1>0, <1>7 DEF PresentRetire, PresentTypes
    <2> QED BY <1>0, <1>7, <2>1 DEF PresentRetire, PresentTypes
  <1>8. CASE UNCHANGED presentVars
    BY <1>0, <1>8 DEF PresentTypes, presentVars
  <1> QED BY <1>1, <1>2, <1>3, <1>4, <1>5, <1>6, <1>7, <1>8, PresentFrame DEF PresentThread

LEMMA TypesKept == ASSUME Types, Bindings, Owned, Next PROVE Types'
  BY GpuTyped, GuestTyped, RingTyped, VmmTyped, EnderTyped, PresentTyped DEF Types

-----------------------------------------------------------------------------
(* Bindings, and the order of a ring's fences                              *)

\* A device that is not live never is again.
LEMMA DevicesEnd ==
  Types /\ Next => \A d \in Devices : device[d] # "live" => device'[d] # "live"
  <1> SUFFICES ASSUME Types, Next, NEW d \in Devices, device[d] # "live" PROVE device'[d] # "live"
    OBVIOUS
  <1>1. device \in [Devices -> {"live", "ending", "idle", "dropped"}]
    BY DEF Types, EnderTypes
  <1>2. (\E e \in Devices, v \in {"ending", "idle", "dropped"} : device' = [device EXCEPT ![e] = v])
        \/ TeardownInstance \/ device' = device
    <2>1. ender.at = "drop" => ender.device \in Devices
      BY DEF Types, EnderTypes
    <2> QED BY <2>1, EnderFrame DEF DestroyDevice, Ender, WaitIdle, LockBound, Forget, JoinSync,
      Forgotten, DropDevice
  <1> QED BY <1>1, <1>2 DEF TeardownInstance

LEMMA BindingsStart == Init => Bindings
  BY DEF Init, Bindings, Idle, Alive

\* What may change of a ring's binding, and when.
BindingIs(r) ==
  /\ sync[r] = "off" <=> bound[r] = None
  /\ sync[r] \in {"off", "gone"} => jobs[r] = <<>>
  /\ sync[r] = "gone" => closed[r]
  /\ bound[r] # None /\ closed[r] => ender.at = "join" /\ ender.ring = r
  /\ bound[r] # None /\ ~going[r] => device[DeviceOf[bound[r]]] # "live"

\* The lock on the bindings is with the VMM or with a device's end, never with both.
LEMMA LockKept ==
  ASSUME Types, Bindings, Next
  PROVE  /\ vmm'.at = "took" => ender'.at \notin {"forget", "join"} /\ bound'[vmm'.ring] # None
         /\ ender'.at \in {"forget", "join"} => device'[ender'.device] # "live"
         /\ ender'.at = "join" =>
              bound'[ender'.ring] # None /\ DeviceOf[bound'[ender'.ring]] = ender'.device
  <1>0. /\ vmm.at = "took" => /\ ender.at \notin {"forget", "join"} /\ bound[vmm.ring] # None
                              /\ vmm.ring \in Rings
        /\ ender.at \in {"forget", "join"} => device[ender.device] # "live" /\ ender.device \in Devices
        /\ ender.at = "join" => /\ bound[ender.ring] # None /\ ender.ring \in Rings
                                /\ DeviceOf[bound[ender.ring]] = ender.device
        /\ bound \in [Rings -> Queues \cup {None}]
        /\ ender \in [at : {"none", "forget", "join", "wait", "lock", "drop"},
                      way : {"destroy", "teardown"}, device : Devices \cup {None}, ring : Rings \cup {None}]
    BY DEF Bindings, Types, VmmTypes, EnderTypes, RingTypes
  <1>1. ASSUME NEW r \in Rings, NEW q \in Queues, Bind(r, q)
        PROVE  /\ UNCHANGED <<vmm, ender, device>> /\ vmm.at # "took" /\ ender.at = "none"
               /\ \A s \in Rings : s # r => bound'[s] = bound[s]
    BY <1>0, <1>1 DEF Bind, BoundFree, ContextFree
  <1>2. CASE JoinSync
    <2>1. /\ UNCHANGED <<vmm, device>> /\ vmm.at # "took" /\ ender'.at = "forget"
          /\ ender'.device = ender.device
      BY <1>0, <1>2 DEF JoinSync
    <2> QED BY <2>1, <1>0, <1>2 DEF JoinSync
  <1>3. CASE bound' = bound
    <2>1. vmm'.at = "took" => vmm' = vmm \/ (ender.at \notin {"forget", "join"} /\ UNCHANGED <<ender, device>>
                                             /\ bound[vmm'.ring] # None)
      <3>1. ASSUME NEW r \in Rings, CreateFence(r)
            PROVE  vmm'.at = "took" => ender.at \notin {"forget", "join"} /\ UNCHANGED <<ender, device>>
                                       /\ bound[vmm'.ring] # None
        BY <3>1 DEF CreateFence, BoundFree
      <3>2. CASE RetireUnbound \/ SubmitFence
        BY <3>2 DEF RetireUnbound, SubmitFence, Idle
      <3> QED BY <3>1, <3>2, VmmFrame DEF Vmm
    <2>2. ASSUME NEW d \in Devices, DestroyDevice(d)
          PROVE  vmm.at # "took" /\ vmm' = vmm /\ ender'.at = "forget" /\ ender'.device = d /\ device'[d] # "live"
      <3>1. device' = [device EXCEPT ![d] = "ending"] /\ device \in [Devices -> {"live", "ending", "idle", "dropped"}]
        BY <2>2 DEF DestroyDevice, Types, EnderTypes
      <3> QED BY <3>1, <2>2 DEF DestroyDevice, BoundFree
    <2>3. ASSUME TeardownInstance \/ WaitIdle \/ Forgotten \/ DropDevice
          PROVE  ender'.at \notin {"forget", "join"} /\ vmm' = vmm
      <3>1. CASE TeardownInstance
        BY <3>1 DEF TeardownInstance
      <3>3. CASE Forgotten
        <4>1. PICK to \in {"drop", "wait"} : ender' = [ender EXCEPT !.at = to]
          BY <3>3 DEF Forgotten
        <4> QED BY <4>1, <3>3, <1>0 DEF Forgotten
      <3>4. CASE DropDevice
        <4>1. ender' = [ender EXCEPT !.at = "lock", !.device = None] \/ ender' = Alive
          BY <3>4 DEF DropDevice
        <4> QED BY <4>1, <3>4, <1>0 DEF DropDevice, Alive
      <3>2. CASE WaitIdle
        <4>1. PICK to \in {"drop", "wait", "lock"} : ender' = [ender EXCEPT !.at = to]
          BY <3>2 DEF WaitIdle
        <4> QED BY <4>1, <3>2, <1>0 DEF WaitIdle
      <3> QED BY <2>3, <3>1, <3>2, <3>3, <3>4
    <2>4. CASE LockBound
      <3>1. vmm.at # "took" /\ vmm' = vmm /\ device' = device
        BY <2>4 DEF LockBound, BoundFree
      <3>2. PICK d \in Devices : device[d] = "idle" /\ ender' = [ender EXCEPT !.at = "forget", !.device = d]
        BY <2>4 DEF LockBound
      <3>3. ender'.at = "forget" /\ ender'.device = d
        BY <3>2, <1>0
      <3> QED BY <3>1, <3>2, <3>3
    <2>5. ASSUME NEW r \in Rings, Forget(r)
          PROVE  /\ vmm' = vmm /\ device' = device /\ ender.at = "forget" /\ ender'.at = "join"
                 /\ ender'.ring = r /\ ender'.device = ender.device
                 /\ bound[r] # None /\ DeviceOf[bound[r]] = ender.device
      BY <2>5, <1>0 DEF Forget, Doomed
    <2>6. CASE UNCHANGED <<device, ender>>
      BY <2>1, <2>6, <1>0, <1>3
    <2>7. JoinSync => bound'[ender.ring] = None
      BY <1>0 DEF JoinSync
    <2>8. CASE \E d \in Devices : DestroyDevice(d)
      <3>1. PICK d \in Devices : DestroyDevice(d)
        BY <2>8
      <3> QED BY <3>1, <2>2
    <2>9. CASE TeardownInstance \/ WaitIdle \/ Forgotten \/ DropDevice
      BY <2>3, <2>9, <1>0, <1>3
    <2>10. CASE \E r \in Rings : Forget(r)
      <3>1. PICK r \in Rings : Forget(r)
        BY <2>10
      <3> QED BY <3>1, <2>5, <1>0, <1>3
    <2>11. ~JoinSync
      BY <2>7, <1>0, <1>3 DEF JoinSync
    <2> QED BY <2>4, <2>6, <2>8, <2>9, <2>10, <2>11, EnderFrame DEF Ender
  <1>4. bound' = bound \/ JoinSync \/ \E r \in Rings, q \in Queues : Bind(r, q)
    BY RingFrame DEF Sync, SyncRecv, SyncEnd, WaitDone, WaitStopped, WaitFailed, WaitOver,
      SyncRetire, CreateFence, Forget, RetireUnbound, SubmitFence, PresentTake, PresentSubmit,
      PresentWait, ringVars
  <1> QED BY <1>0, <1>1, <1>2, <1>3, <1>4

LEMMA BindingsKept == ASSUME Types, Bindings, Next PROVE Bindings'
  <1>0. /\ RingTypes /\ MaxFences \in Nat /\ (\A r \in Rings : jobs[r] \in Seq(Job))
        /\ vmm.at = "took" => /\ ender.at \notin {"forget", "join"} /\ bound[vmm.ring] # None
                              /\ vmm.ring \in Rings
        /\ ender.at = "join" => ender.ring \in Rings
        /\ bound \in [Rings -> Queues \cup {None}] /\ closed \in [Rings -> BOOLEAN]
        /\ going \in [Rings -> BOOLEAN]
        /\ sync \in [Rings -> {"off", "recv", "wait", "retire", "gone"}]
        /\ device \in [Devices -> {"live", "ending", "idle", "dropped"}]
        /\ DeviceOf \in [Queues -> Devices]
    BY QueueConstants DEF Types, RingTypes, VmmTypes, EnderTypes, Bindings
  <1>1. \A r \in Rings : BindingIs(r)
    BY DEF Bindings, BindingIs
  <1>2. ASSUME NEW r \in Rings PROVE BindingIs(r)'
    <2>0. BindingIs(r)
      BY <1>1
    <2>1. ASSUME NEW s \in Rings, NEW q \in Queues, Bind(s, q) PROVE BindingIs(r)'
      <3>1. CASE s = r
        <4>1. bound[r] = None /\ device[DeviceOf[q]] = "live" /\ jobs' = jobs /\ device' = device
          BY <2>1, <3>1 DEF Bind
        <4>2. /\ bound'[r] = q /\ q # None /\ going'[r] = TRUE /\ closed'[r] = FALSE
              /\ sync'[r] = "recv"
          BY <2>1, <3>1, <1>0, QueueConstants DEF Bind
        <4> QED BY <4>1, <4>2 DEF BindingIs
      <3>2. CASE s # r
        <4>1. /\ bound'[r] = bound[r] /\ sync'[r] = sync[r] /\ going'[r] = going[r]
              /\ closed'[r] = closed[r]
          BY <2>1, <3>2, <1>0 DEF Bind
        <4>2. UNCHANGED <<jobs, device, ender>>
          BY <2>1 DEF Bind
        <4> QED BY <4>1, <4>2, <2>0 DEF BindingIs
      <3> QED BY <3>1, <3>2
    <2>2. CASE SubmitFence
      <3>1. UNCHANGED <<bound, going, closed, sync, device, ender>> /\ vmm.ring \in Rings
        BY <2>2, <1>0 DEF SubmitFence
      <3>2. CASE r # vmm.ring
        <4>1. jobs'[r] = jobs[r]
          BY <2>2, <3>2, <3>1, <1>0 DEF SubmitFence, RingTypes
        <4> QED BY <3>1, <4>1, <2>0 DEF BindingIs
      <3>3. CASE r = vmm.ring
        <4>1. bound[r] # None /\ ender.at # "join"
          BY <2>2, <3>3, <1>0 DEF SubmitFence
        <4>2. sync[r] \notin {"off", "gone"}
          BY <4>1, <2>0 DEF BindingIs
        <4> QED BY <3>1, <4>1, <4>2, <2>0 DEF BindingIs
      <3> QED BY <3>2, <3>3
    <2>3. ASSUME NEW s \in Rings, Sync(s) PROVE BindingIs(r)'
      <3>0. UNCHANGED <<bound, going, closed, device, ender>> /\ sync[s] \in {"recv", "wait", "retire"}
        BY <2>3 DEF Sync, SyncRecv, SyncEnd, WaitDone, WaitStopped, WaitFailed, WaitOver, SyncRetire
      <3>1. CASE s # r
        <4>1. sync'[r] = sync[r] /\ jobs'[r] = jobs[r]
          BY <2>3, <3>1, <1>0 DEF Sync, SyncRecv, SyncEnd, WaitDone, WaitStopped, WaitFailed,
            WaitOver, SyncRetire, RingTypes
        <4> QED BY <3>0, <4>1, <2>0 DEF BindingIs
      <3>2. CASE s = r
        <4>1. CASE SyncEnd(s)
          <5>1. sync'[r] = "gone" /\ jobs'[r] = <<>> /\ closed[r]
            BY <4>1, <3>2, <1>0 DEF SyncEnd, Receives
          <5> QED BY <3>0, <3>2, <5>1, <2>0 DEF BindingIs
        <4>2. CASE ~SyncEnd(s)
          <5>1. sync'[r] \in {"recv", "wait", "retire"}
            BY <2>3, <4>2, <3>2, <1>0 DEF Sync, SyncRecv, WaitDone, WaitStopped, WaitFailed,
              WaitOver, SyncRetire
          <5> QED BY <3>0, <3>2, <5>1, <2>0 DEF BindingIs
        <4> QED BY <4>1, <4>2
      <3> QED BY <3>1, <3>2
    <2>4. ASSUME NEW s \in Rings, Forget(s) PROVE BindingIs(r)'
      <3>0. /\ UNCHANGED <<bound, jobs, sync, device>> /\ ender.at = "forget" /\ s \in Doomed(ender.device)
            /\ ender' = [ender EXCEPT !.at = "join", !.ring = s]
            /\ going' = [going EXCEPT ![s] = FALSE] /\ closed' = [closed EXCEPT ![s] = TRUE]
        BY <2>4 DEF Forget, Stopped
      <3>1. ender'.at = "join" /\ ender'.ring = s
        BY <3>0 DEF Types, EnderTypes
      <3>2. CASE s # r
        <4>1. going'[r] = going[r] /\ closed'[r] = closed[r]
          BY <3>0, <3>2, <1>0
        <4> QED BY <3>0, <4>1, <2>0 DEF BindingIs
      <3>3. CASE s = r
        <4>1. DeviceOf[bound[r]] = ender.device /\ device[ender.device] # "live" /\ closed'[r] = TRUE
          BY <3>0, <3>3, <1>0 DEF Doomed, Bindings
        <4> QED BY <3>0, <3>1, <3>3, <4>1, <2>0 DEF BindingIs
      <3> QED BY <3>2, <3>3
    <2>5. CASE JoinSync
      <3>0. /\ UNCHANGED <<jobs, going, closed, device>> /\ ender.at = "join" /\ ender.ring \in Rings
            /\ sync[ender.ring] = "gone"
            /\ sync' = [sync EXCEPT ![ender.ring] = "off"] /\ bound' = [bound EXCEPT ![ender.ring] = None]
        BY <2>5, <1>0 DEF JoinSync
      <3>1. CASE ender.ring = r
        <4>1. sync'[r] = "off" /\ bound'[r] = None /\ sync[r] = "gone"
          BY <3>0, <3>1, <1>0
        <4> QED BY <3>0, <4>1, <2>0 DEF BindingIs
      <3>2. CASE ender.ring # r
        <4>1. sync'[r] = sync[r] /\ bound'[r] = bound[r] /\ ~(bound[r] # None /\ closed[r])
          BY <3>0, <3>2, <1>0, <2>0 DEF BindingIs
        <4> QED BY <3>0, <4>1, <2>0 DEF BindingIs
      <3> QED BY <3>1, <3>2
    <2>6. CASE UNCHANGED <<bound, jobs, sync, closed, going>>
      <3>1. ~JoinSync /\ ~\E s \in Rings : Forget(s)
        <4>1. ASSUME JoinSync PROVE FALSE
          <5>1. sync'[ender.ring] = "off" /\ sync[ender.ring] = "gone"
            BY <4>1, <1>0 DEF JoinSync
          <5> QED BY <5>1, <2>6
        <4>2. ASSUME NEW s \in Rings, Forget(s) PROVE FALSE
          <5>1. closed'[s] = TRUE /\ bound[s] # None /\ ender.at = "forget"
            BY <4>2, <1>0 DEF Forget, Doomed
          <5>2. BindingIs(s)
            BY <1>1
          <5> QED BY <5>1, <5>2, <2>6 DEF BindingIs
        <4> QED BY <4>1, <4>2
      <3>2. ender.at = "join" => UNCHANGED ender
        BY <3>1, EnderFrame DEF Ender, DestroyDevice, TeardownInstance, WaitIdle, LockBound,
          Forgotten, DropDevice, ContextFree
      <3>3. bound[r] # None => DeviceOf[bound[r]] \in Devices
        BY <1>0
      <3> QED BY <2>0, <2>6, <3>2, <3>3, DevicesEnd DEF BindingIs
    <2>7. ASSUME NEW s \in Rings, CreateFence(s) PROVE UNCHANGED <<bound, jobs, sync, closed, going>>
      BY <2>7 DEF CreateFence, ringVars
    <2>8. RetireUnbound \/ PresentTake \/ PresentSubmit \/ PresentWait \/ UNCHANGED <<pool, ringVars, made, answered>>
          => UNCHANGED <<bound, jobs, sync, closed, going>>
      BY DEF RetireUnbound, PresentTake, PresentSubmit, PresentWait, ringVars
    <2> QED BY <2>1, <2>2, <2>3, <2>4, <2>5, <2>6, <2>7, <2>8, RingFrame
  <1> QED BY <1>2, LockKept DEF Bindings, BindingIs

\* The order, of one ring.
OrderOf(r) ==
  /\ made[r] = answered[r] + InHand(r) + Len(jobs[r]) + Making(r)
  /\ sync[r] \in {"wait", "retire"} => hand[r].seqno = answered[r] + 1
  /\ \A i \in 1..Len(jobs[r]) : jobs[r][i].seqno = answered[r] + InHand(r) + i
  /\ vmm.at = "unbound" /\ vmm.ring = r => jobs[r] = <<>> /\ sync[r] \notin {"wait", "retire"}

LEMMA OrderStart == Init => Order
  <1> SUFFICES ASSUME Init, NEW r \in Rings PROVE OrderOf(r)
    BY DEF Order, OrderOf
  <1>1. /\ made[r] = 0 /\ answered[r] = 0 /\ jobs[r] = <<>> /\ sync[r] = "off" /\ vmm = Idle
    BY DEF Init
  <1>2. InHand(r) = 0 /\ Making(r) = 0 /\ Len(jobs[r]) = 0
    BY <1>1 DEF InHand, Making, Idle
  <1> QED BY <1>1, <1>2 DEF OrderOf, Idle

\* What one ring's place is made of.
PlaceOf(r) == <<made[r], answered[r], jobs[r], hand[r].seqno, InHand(r), Making(r)>>

LEMMA OrderSame ==
  ASSUME NEW r \in Rings, OrderOf(r), PlaceOf(r)' = PlaceOf(r),
         vmm'.at = "unbound" /\ vmm'.ring = r =>
           (vmm.at = "unbound" /\ vmm.ring = r) \/ (jobs[r] = <<>> /\ sync[r] \notin {"wait", "retire"})
  PROVE  OrderOf(r)'
  <1>1. /\ made'[r] = made[r] /\ answered'[r] = answered[r] /\ jobs'[r] = jobs[r]
        /\ hand'[r].seqno = hand[r].seqno /\ InHand(r)' = InHand(r) /\ Making(r)' = Making(r)
    BY DEF PlaceOf
  <1>2. sync'[r] \in {"wait", "retire"} <=> sync[r] \in {"wait", "retire"}
    BY <1>1 DEF InHand
  <1> HIDE DEF InHand, Making
  <1> QED BY <1>1, <1>2 DEF OrderOf

LEMMA OrderKept == ASSUME Types, Bindings, Owned, Order, Next PROVE Order'
  <1> SUFFICES ASSUME NEW r \in Rings PROVE OrderOf(r)'
    BY DEF Order, OrderOf
  <1>0. /\ OrderOf(r) /\ BindingIs(r) /\ made \in [Rings -> 0..MaxFences] /\ answered \in [Rings -> Nat]
        /\ jobs \in [Rings -> Seq(Job)] /\ hand \in [Rings -> Job] /\ vmm.ring \in Rings \cup {None}
        /\ sync \in [Rings -> {"off", "recv", "wait", "retire", "gone"}] /\ MaxFences \in Nat
        /\ bound \in [Rings -> Queues \cup {None}]
        /\ made[r] \in Nat /\ answered[r] \in Nat /\ Len(jobs[r]) \in Nat
    <2>1. made \in [Rings -> 0..MaxFences] /\ MaxFences \in Nat
      BY QueueConstants DEF Types, RingTypes
    <2>2. made[r] \in Nat
      BY <2>1
    <2>3. jobs \in [Rings -> Seq(Job)]
      BY DEF Types, RingTypes
    <2>4. jobs[r] \in Seq(Job)
      BY <2>3
    <2>5. Len(jobs[r]) \in Nat
      BY <2>4, LenProperties
    <2> QED BY <2>1, <2>2, <2>3, <2>5 DEF Types, RingTypes, VmmTypes, Order, OrderOf, Bindings,
      BindingIs
  <1>1. ASSUME NEW s \in Rings, CreateFence(s) PROVE OrderOf(r)'
    <2>1. UNCHANGED <<jobs, sync, hand, answered>> /\ made' = [made EXCEPT ![s] = @ + 1] /\ vmm.at = "idle"
      BY <1>1 DEF CreateFence, ringVars
    <2>2. /\ vmm'.at \in {"took", "unbound"} /\ vmm'.ring = s
          /\ vmm'.at = "unbound" => bound[s] = None
      <3>1. CASE bound[s] = None
        BY <1>1, <3>1 DEF CreateFence
      <3>2. CASE bound[s] # None
        <4>1. PICK f : vmm' = [at |-> "took", ring |-> s, fence |-> f]
          BY <1>1, <3>2 DEF CreateFence
        <4> QED BY <4>1
      <3> QED BY <3>1, <3>2
    <2>3. InHand(r)' = InHand(r) /\ Making(r) = 0 /\ Making(r)' = IF s = r THEN 1 ELSE 0
      BY <2>1, <2>2 DEF InHand, Making
    <2>4. CASE s = r
      <3>1. made'[r] = made[r] + 1 /\ answered'[r] = answered[r] /\ jobs'[r] = jobs[r]
            /\ hand'[r] = hand[r] /\ sync'[r] = sync[r]
        BY <2>1, <2>4, <1>0
      <3>2. InHand(r) \in 0..1
        BY DEF InHand
      <3>3. vmm'.at = "unbound" => jobs[r] = <<>> /\ sync[r] \notin {"wait", "retire"}
        BY <2>2, <2>4, <1>0 DEF BindingIs
      <3> HIDE DEF InHand, Making
      <3>4. made'[r] = answered'[r] + InHand(r)' + Len(jobs'[r]) + Making(r)'
        BY <3>1, <3>2, <2>3, <2>4, <1>0 DEF OrderOf
      <3> QED BY <3>1, <3>3, <3>4, <2>3, <1>0 DEF OrderOf
    <2>5. CASE s # r
      <3>1. PlaceOf(r)' = PlaceOf(r)
        BY <2>1, <2>3, <2>5, <1>0 DEF PlaceOf
      <3> QED BY <3>1, <2>2, <2>5, <1>0, OrderSame
    <2> QED BY <2>4, <2>5
  <1>2. CASE RetireUnbound
    <2>1. /\ answered' = [answered EXCEPT ![vmm.ring] = made[vmm.ring]] /\ vmm' = Idle /\ vmm.at = "unbound"
          /\ UNCHANGED <<jobs, sync, hand, made>> /\ vmm.ring \in Rings
      BY <1>2 DEF RetireUnbound, ringVars, Types, VmmTypes
    <2>2. CASE vmm.ring = r
      <3>1. /\ jobs'[r] = <<>> /\ sync'[r] \notin {"wait", "retire"} /\ answered'[r] = made[r]
            /\ made'[r] = made[r]
        BY <2>1, <2>2, <1>0 DEF OrderOf
      <3>2. InHand(r)' = 0 /\ Making(r)' = 0 /\ Len(jobs'[r]) = 0 /\ vmm'.at = "idle"
        BY <3>1, <2>1 DEF InHand, Making, Idle
      <3> HIDE DEF InHand, Making
      <3> QED BY <3>1, <3>2, <1>0 DEF OrderOf
    <2>3. CASE vmm.ring # r
      <3>1. PlaceOf(r)' = PlaceOf(r) /\ vmm'.at # "unbound"
        BY <2>1, <2>3, <1>0 DEF PlaceOf, InHand, Making, Idle
      <3> QED BY <3>1, <1>0, OrderSame
    <2> QED BY <2>2, <2>3
  <1>3. CASE SubmitFence
    <2>0. PICK s \in Rings, q \in Queues, f \in Fence, g \in Fence : SubmitsAs(s, q, f, g)
      BY <1>3, Submits
    <2> DEFINE j == [seqno |-> made[s], fence |-> g, cover |-> sent[q], how |-> "never"]
    <2>1. /\ jobs' = [jobs EXCEPT ![s] = Append(@, j)] /\ vmm.at = "took" /\ vmm.ring = s /\ vmm' = Idle
          /\ UNCHANGED <<sync, hand, made, answered>>
      BY <2>0 DEF SubmitsAs
    <2>2. CASE s = r
      <3>1. j \in Job /\ j.seqno = made[r]
        BY <2>2, <1>0 DEF Job, Types, GpuTypes
      <3> HIDE DEF j
      <3>2. /\ jobs'[r] = Append(jobs[r], j) /\ made'[r] = made[r] /\ answered'[r] = answered[r]
            /\ hand'[r] = hand[r] /\ sync'[r] = sync[r]
        BY <2>1, <2>2, <1>0
      <3>3. /\ Len(jobs'[r]) = Len(jobs[r]) + 1 /\ jobs'[r][Len(jobs[r]) + 1] = j
            /\ \A i \in 1..Len(jobs[r]) : jobs'[r][i] = jobs[r][i]
        BY <3>1, <3>2, <1>0, Added
      <3>4. InHand(r)' = InHand(r) /\ InHand(r) \in 0..1 /\ Making(r) = 1 /\ Making(r)' = 0 /\ vmm'.at = "idle"
        BY <2>1, <2>2, <3>2 DEF InHand, Making, Idle
      <3> HIDE DEF InHand, Making
      <3>5. PICK n \in 0..1, a \in Nat, m \in Nat : n = InHand(r) /\ a = answered[r] /\ m = Len(jobs[r])
        BY <3>4, <1>0
      <3>6. made[r] = a + n + m + 1 /\ \A i \in 1..m : jobs[r][i].seqno = a + n + i
        BY <3>4, <3>5, <1>0 DEF OrderOf
      <3>7. ASSUME NEW i \in 1..m + 1 PROVE jobs'[r][i].seqno = a + n + i
        <4>1. CASE i \in 1..m
          BY <4>1, <3>3, <3>5, <3>6
        <4>2. CASE i = m + 1
          <5>1. jobs'[r][i].seqno = made[r]
            BY <4>2, <3>1, <3>3, <3>5
          <5>2. a + n + m + 1 = a + n + i
            BY <4>2
          <5> QED BY <5>1, <5>2, <3>6
        <4> QED BY <4>1, <4>2
      <3>8. /\ made'[r] = a + n + m + 1 /\ answered'[r] = a /\ InHand(r)' = n /\ Len(jobs'[r]) = m + 1
            /\ Making(r)' = 0 /\ hand'[r] = hand[r] /\ sync'[r] = sync[r] /\ vmm'.at = "idle"
        BY <3>2, <3>3, <3>4, <3>5, <3>6
      <3>9. sync'[r] \in {"wait", "retire"} => hand'[r].seqno = answered'[r] + 1
        BY <3>8, <3>5, <1>0 DEF OrderOf
      <3>10. a + n + m + 1 = a + n + (m + 1) + 0
        OBVIOUS
      <3>11. made'[r] = answered'[r] + InHand(r)' + Len(jobs'[r]) + Making(r)'
        BY <3>8, <3>10
      <3>12. \A i \in 1..Len(jobs'[r]) : jobs'[r][i].seqno = answered'[r] + InHand(r)' + i
        BY <3>7, <3>8
      <3> QED BY <3>8, <3>9, <3>11, <3>12 DEF OrderOf
    <2>3. CASE s # r
      <3>1. PlaceOf(r)' = PlaceOf(r) /\ vmm'.at # "unbound"
        BY <2>1, <2>3, <1>0 DEF PlaceOf, InHand, Making, Idle
      <3> QED BY <3>1, <1>0, OrderSame
    <2> QED BY <2>2, <2>3
  <1>4. CASE SyncRecv(r)
    <2>1. /\ sync[r] = "recv" /\ jobs[r] # <<>> /\ hand'[r] = Head(jobs[r]) /\ jobs'[r] = Tail(jobs[r])
          /\ sync'[r] \in {"wait", "retire"} /\ UNCHANGED <<made, answered, vmm>>
      BY <1>4, <1>0 DEF SyncRecv, Receives
    <2>2. jobs[r] \in Seq(Job)
      BY <1>0
    <2>3. /\ Len(jobs[r]) \in Nat \ {0} /\ Len(jobs'[r]) = Len(jobs[r]) - 1 /\ hand'[r] = jobs[r][1]
          /\ \A i \in 1..Len(jobs'[r]) : jobs'[r][i] = jobs[r][i + 1]
      BY <2>1, <2>2, Taken
    <2>4. InHand(r) = 0 /\ InHand(r)' = 1 /\ Making(r)' = Making(r) /\ Making(r) \in 0..1
      BY <2>1 DEF InHand, Making
    <2> HIDE DEF InHand, Making
    <2>5. made'[r] = made[r] /\ answered'[r] = answered[r]
      BY <2>1
    <2>6. made'[r] = answered'[r] + InHand(r)' + Len(jobs'[r]) + Making(r)'
      BY <2>3, <2>4, <2>5, <1>0 DEF OrderOf
    <2>7. \A i \in 1..Len(jobs[r]) : jobs[r][i].seqno = answered[r] + 0 + i
      BY <2>4, <1>0 DEF OrderOf
    <2>8. hand'[r].seqno = answered'[r] + 1
      BY <2>3, <2>5, <2>7, <1>0, SMTT(60)
    <2>9. ASSUME NEW i \in 1..Len(jobs'[r]) PROVE jobs'[r][i].seqno = answered[r] + 1 + i
      <3>1. i + 1 \in 1..Len(jobs[r]) /\ i \in Nat
        BY <2>3
      <3>2. jobs[r][i + 1].seqno = answered[r] + 0 + (i + 1)
        BY <3>1, <2>7
      <3>3. answered[r] + 0 + (i + 1) = answered[r] + 1 + i
        BY <3>1, <1>0
      <3> QED BY <3>2, <3>3, <2>3
    <2>10. ~(vmm.at = "unbound" /\ vmm.ring = r)
      BY <2>1, <1>0 DEF OrderOf
    <2> QED BY <2>1, <2>4, <2>5, <2>6, <2>8, <2>9, <2>10 DEF OrderOf
  <1>5. CASE SyncRetire(r)
    <2>1. /\ sync[r] = "retire" /\ answered'[r] = hand[r].seqno /\ sync'[r] = "recv"
          /\ UNCHANGED <<made, jobs, vmm>>
      BY <1>5, <1>0 DEF SyncRetire
    <2>2. answered'[r] = answered[r] + 1
      BY <2>1, <1>0 DEF OrderOf
    <2>3. InHand(r) = 1 /\ InHand(r)' = 0 /\ Making(r)' = Making(r) /\ Making(r) \in 0..1
      BY <2>1 DEF InHand, Making
    <2> HIDE DEF InHand, Making
    <2>4. jobs'[r] = jobs[r] /\ made'[r] = made[r]
      BY <2>1
    <2>5. made'[r] = answered'[r] + InHand(r)' + Len(jobs'[r]) + Making(r)'
      BY <2>2, <2>3, <2>4, <1>0 DEF OrderOf
    <2>6. \A i \in 1..Len(jobs'[r]) : jobs'[r][i].seqno = answered'[r] + InHand(r)' + i
      BY <2>2, <2>3, <2>4, <1>0 DEF OrderOf
    <2>7. ~(vmm.at = "unbound" /\ vmm.ring = r)
      BY <2>1, <1>0 DEF OrderOf
    <2> QED BY <2>1, <2>5, <2>6, <2>7 DEF OrderOf
  <1>6. CASE /\ UNCHANGED <<made, answered, jobs, vmm>> /\ hand'[r].seqno = hand[r].seqno
             /\ sync'[r] \in {"wait", "retire"} <=> sync[r] \in {"wait", "retire"}
    <2>1. PlaceOf(r)' = PlaceOf(r)
      BY <1>6 DEF PlaceOf, InHand, Making
    <2> QED BY <2>1, <1>6, <1>0, OrderSame
  <1>7. ASSUME NEW s \in Rings, Sync(s), s # r \/ ~(SyncRecv(r) \/ SyncRetire(r)) PROVE OrderOf(r)'
    <2>1. CASE s # r
      <3>1. /\ made'[r] = made[r] /\ answered'[r] = answered[r] /\ jobs'[r] = jobs[r] /\ hand'[r] = hand[r]
            /\ sync'[r] = sync[r] /\ vmm' = vmm
        BY <1>7, <2>1, <1>0 DEF Sync, SyncRecv, SyncEnd, WaitDone, WaitStopped, WaitFailed,
          WaitOver, SyncRetire
      <3>2. PlaceOf(r)' = PlaceOf(r)
        BY <3>1 DEF PlaceOf, InHand, Making
      <3> QED BY <3>1, <3>2, <1>0, OrderSame
    <2>2. CASE s = r /\ SyncEnd(s)
      BY <2>2, <1>0, <1>6 DEF SyncEnd
    <2>3. ASSUME s = r, NEW how, WaitOver(s, how), sync[s] = "wait", UNCHANGED <<made, answered>> PROVE OrderOf(r)'
      <3>1. hand'[r] = [hand[r] EXCEPT !.how = how] /\ hand[r] \in Job
        BY <2>3, <1>0 DEF WaitOver
      <3>2. hand'[r].seqno = hand[r].seqno
        BY <3>1 DEF Job
      <3> QED BY <2>3, <3>2, <1>0, <1>6 DEF WaitOver
    <2>4. WaitOver(s, "waited") \/ WaitOver(s, "stopped") \/ WaitOver(s, "failed") => UNCHANGED <<made, answered>>
      BY DEF WaitOver
    <2> QED BY <1>7, <2>1, <2>2, <2>3, <2>4 DEF Sync, WaitDone, WaitStopped, WaitFailed
  <1>8. ASSUME NEW s \in Rings, NEW q \in Queues, Bind(s, q) PROVE OrderOf(r)'
    <2>1. CASE s # r
      <3>1. sync'[r] = sync[r] /\ UNCHANGED <<made, answered, jobs, hand, vmm>>
        BY <1>8, <2>1, <1>0 DEF Bind
      <3> QED BY <3>1, <1>6
    <2>2. CASE s = r
      <3>1. sync'[r] = "recv" /\ bound[r] = None /\ UNCHANGED <<made, answered, jobs, hand, vmm>>
        BY <1>8, <2>2, <1>0 DEF Bind
      <3>2. sync[r] = "off"
        BY <3>1, <1>0 DEF BindingIs
      <3> QED BY <3>1, <3>2, <1>6
    <2> QED BY <2>1, <2>2
  <1>9. CASE JoinSync
    <2>1. /\ sync[ender.ring] = "gone" /\ sync' = [sync EXCEPT ![ender.ring] = "off"]
          /\ UNCHANGED <<made, answered, jobs, hand, vmm>>
      BY <1>9 DEF JoinSync
    <2> QED BY <2>1, <1>0, <1>6
  <1>10. CASE UNCHANGED <<made, answered, jobs, hand, sync, vmm>>
    BY <1>10, <1>6
  <1>11. ASSUME NEW s \in Rings, Forget(s) PROVE UNCHANGED <<made, answered, jobs, hand, sync, vmm>>
    BY <1>11 DEF Forget
  <1>12. PresentTake \/ PresentSubmit \/ PresentWait => UNCHANGED <<made, answered, jobs, hand, sync, vmm>>
    BY DEF PresentTake, PresentSubmit, PresentWait, ringVars
  <1>13. CASE UNCHANGED <<pool, ringVars, made, answered>>
    <2>1. CASE Vmm
      BY <1>1, <1>2, <1>3, <2>1 DEF Vmm
    <2>2. CASE UNCHANGED vmm
      BY <2>2, <1>13, <1>10 DEF ringVars
    <2> QED BY <2>1, <2>2, VmmFrame
  <1> QED BY <1>1, <1>2, <1>3, <1>4, <1>5, <1>7, <1>8, <1>9, <1>10, <1>11, <1>12, <1>13, RingFrame
    DEF Sync

-----------------------------------------------------------------------------
(* Who has a fence                                                         *)

LEMMA PlaceTypes ==
  ASSUME Types
  PROVE  /\ \A r \in Rings : jobs[r] \in Seq(Job) /\ Len(jobs[r]) \in Nat /\ hand[r] \in Job
         /\ \A r \in Rings : \A i \in 1..Len(jobs[r]) : jobs[r][i] \in Job
         /\ \A r \in Rings : \A i \in Places(r) : At(r, i) \in Fence /\ Cover(r, i) \in Nat
  <1>1. \A r \in Rings : jobs[r] \in Seq(Job) /\ hand[r] \in Job
    BY DEF Types, RingTypes
  <1>2. \A r \in Rings : \A i \in 1..Len(jobs[r]) : jobs[r][i] \in Job
    BY <1>1, ElementOfSeq
  <1>3. \A r \in Rings : Len(jobs[r]) \in Nat
    BY <1>1, LenProperties
  <1>4. ASSUME NEW r \in Rings, NEW i \in Places(r) PROVE At(r, i) \in Fence /\ Cover(r, i) \in Nat
    <2>1. i = 0 \/ i \in 1..Len(jobs[r])
      BY <1>3 DEF Places
    <2> QED BY <2>1, <1>1, <1>2 DEF At, Cover, Job, Fence
  <1> QED BY <1>1, <1>2, <1>3, <1>4

LEMMA OwnedStart == Init => Owned
  <1> SUFFICES ASSUME Init PROVE Owned
    OBVIOUS
  <1>1. /\ \A r \in Rings : jobs[r] = <<>> /\ sync[r] = "off"
        /\ vmm.fence = None /\ pfence = None
    BY DEF Init, Idle
  <1>2. \A r \in Rings : \A i \in Places(r) : At(r, i) = None
    BY <1>1 DEF Places, At
  <1> QED BY <1>1, <1>2 DEF Owned

\* A step that hands no fence on: what it leaves is a part of what was, shifted on the ring
\* whose job was received.
LEMMA OwnedFewer ==
  ASSUME Types, Owned, NEW d \in [Rings -> 0..1],
         \A r \in Rings : \A i \in Places(r)' : At(r, i)' # None =>
           /\ i + d[r] \in Places(r) /\ At(r, i)' = At(r, i + d[r]) /\ bound'[r] = bound[r]
           /\ pool'[At(r, i)'] = "out",
         \A r \in Rings : sync'[r] = "wait" => hand'[r].fence # None,
         vmm'.fence = None \/ (/\ vmm'.fence = vmm.fence /\ vmm'.at = "took"
                               /\ bound'[vmm'.ring] = bound[vmm.ring] /\ pool'[vmm.fence] = "out"),
         pfence' = None \/ (pfence' = pfence /\ pool'[pfence] = "out"),
         \A r \in Rings : \A i \in Places(r)' : i \in Nat
  PROVE  Owned'
  <1>1. ASSUME NEW r \in Rings, NEW s \in Rings, NEW i \in Places(r)', NEW j \in Places(s)',
               At(r, i)' # None, At(r, i)' = At(s, j)'
        PROVE  r = s /\ i = j
    <2>1. /\ i + d[r] \in Places(r) /\ At(r, i)' = At(r, i + d[r])
          /\ j + d[s] \in Places(s) /\ At(s, j)' = At(s, j + d[s])
      BY <1>1
    <2>2. r = s /\ i + d[r] = j + d[s]
      BY <2>1, <1>1 DEF Owned
    <2> QED BY <2>2
  <1>2. ASSUME NEW r \in Rings, NEW i \in Places(r)', At(r, i)' # None
        PROVE  /\ At(r, i)'[1] = bound'[r] /\ pool'[At(r, i)'] = "out"
               /\ At(r, i)' # vmm'.fence /\ At(r, i)' # pfence'
    <2>1. /\ i + d[r] \in Places(r) /\ At(r, i)' = At(r, i + d[r]) /\ bound'[r] = bound[r]
          /\ pool'[At(r, i)'] = "out"
      BY <1>2
    <2> QED BY <2>1, <1>2 DEF Owned
  <1>3. vmm'.fence # None => /\ vmm'.at = "took" /\ vmm'.fence[1] = bound'[vmm'.ring]
                             /\ pool'[vmm'.fence] = "out" /\ vmm'.fence # pfence'
    BY DEF Owned
  <1>4. pfence' # None => pool'[pfence'] = "out"
    OBVIOUS
  <1> QED BY <1>1, <1>2, <1>3, <1>4 DEF Owned

\* A fence from the pool has no user yet.
LEMMA Fresh ==
  ASSUME Types, Owned, NEW f \in VkFence, pool[f] # "out"
  PROVE  /\ f # vmm.fence /\ f # pfence /\ f # None
         /\ \A r \in Rings : \A i \in Places(r) : At(r, i) # f
  <1>1. f # None
    BY FenceQueue
  <1> QED BY <1>1 DEF Owned

LEMMA OwnedKept == ASSUME Types, Bindings, Order, Owned, Next PROVE Owned'
  <1> DEFINE Same == [r \in Rings |-> 0]
  <1>0. /\ \A r \in Rings : BindingIs(r) /\ (sync[r] = "wait" => hand[r].fence # None)
        /\ RingTypes /\ bound \in [Rings -> Queues \cup {None}] /\ hand \in [Rings -> Job]
        /\ jobs \in [Rings -> Seq(Job)] /\ sync \in [Rings -> {"off", "recv", "wait", "retire", "gone"}]
        /\ pool \in [VkFence -> {"none", "spare", "out"}]
        /\ Same \in [Rings -> 0..1] /\ \A r \in Rings : Same[r] = 0
    BY DEF Bindings, BindingIs, Types, RingTypes, Owned
  <1>00. /\ \A r \in Rings : \A i \in Places(r) : i \in Nat /\ i + Same[r] = i
         /\ \A r \in Rings : \A i \in Places(r) :
              At(r, i) # None => At(r, i) \in VkFence /\ pool[At(r, i)] = "out"
         /\ vmm.fence # None => /\ vmm.fence \in VkFence /\ vmm.at = "took" /\ pool[vmm.fence] = "out"
                                /\ vmm.ring \in Rings
         /\ pfence # None => pfence \in VkFence /\ pool[pfence] = "out"
    BY PlaceTypes DEF Types, Owned, Places, Fence, VmmTypes, PresentTypes
  <1> HIDE DEF Same
  \* A step that leaves the users of fences alone.
  <1>1. ASSUME \A r \in Rings : jobs'[r] = jobs[r] /\ hand'[r] = hand[r] /\ (sync'[r] = "wait" <=> sync[r] = "wait")
                                /\ (bound'[r] = bound[r] \/ (jobs[r] = <<>> /\ sync[r] # "wait")),
               \/ vmm'.fence = None
               \/ vmm' = vmm /\ bound'[vmm.ring] = bound[vmm.ring],
               UNCHANGED <<pool, pfence>>
        PROVE  Owned'
    <2>1. \A r \in Rings : Places(r)' = Places(r) /\ \A i \in Places(r) : At(r, i)' = At(r, i)
      BY <1>1 DEF Places, At
    <2>2. \A r \in Rings : jobs[r] = <<>> /\ sync[r] # "wait" => \A i \in Places(r) : At(r, i) = None
      BY DEF Places, At
    <2>3. ASSUME NEW r \in Rings, NEW i \in Places(r)', At(r, i)' # None
          PROVE  /\ i + Same[r] \in Places(r) /\ At(r, i)' = At(r, i + Same[r]) /\ bound'[r] = bound[r]
                 /\ pool'[At(r, i)'] = "out"
      BY <2>1, <2>2, <2>3, <1>1, <1>00
    <2>4. \A r \in Rings : sync'[r] = "wait" => hand'[r].fence # None
      BY <1>0, <1>1
    <2>5. \A r \in Rings : \A i \in Places(r)' : i \in Nat
      BY <2>1, <1>00
    <2>6. vmm'.fence = None \/ (/\ vmm'.fence = vmm.fence /\ vmm'.at = "took"
                                /\ bound'[vmm'.ring] = bound[vmm.ring] /\ pool'[vmm.fence] = "out")
      BY <1>1, <1>00
    <2>7. pfence' = None \/ (pfence' = pfence /\ pool'[pfence] = "out")
      BY <1>1, <1>00
    <2> QED BY <2>3, <2>4, <2>5, <2>6, <2>7, <1>0, OwnedFewer
  <1>2. ASSUME NEW s \in Rings, CreateFence(s) PROVE Owned'
    <2>1. UNCHANGED <<jobs, hand, sync, bound, pfence>> /\ vmm.at = "idle"
      BY <1>2 DEF CreateFence, ringVars, presentVars
    <2>2. CASE UNCHANGED pool /\ vmm'.fence = None
      BY <2>1, <2>2, <1>1
    <2>3. ASSUME NEW f \in VkFence, pool[f] # "out", f[1] = bound[s], pool' = TakenOut(f),
                 vmm' = [at |-> "took", ring |-> s, fence |-> f]
          PROVE  Owned'
      <3>1. /\ f # pfence /\ f # None
            /\ \A r \in Rings : \A i \in Places(r) : At(r, i) # f
        BY <2>3, Fresh
      <3>2. \A r \in Rings : Places(r)' = Places(r) /\ \A i \in Places(r) : At(r, i)' = At(r, i)
        BY <2>1 DEF Places, At
      <3>3. pool'[f] = "out" /\ \A g \in VkFence : g # f => pool'[g] = pool[g]
        BY <2>3, <1>0, Out
      <3>4. vmm'.fence = f /\ vmm'.at = "took" /\ vmm'.ring = s
        BY <2>3
      <3>5. ASSUME NEW r \in Rings, NEW i \in Places(r), At(r, i) # None
            PROVE  /\ At(r, i)[1] = bound[r] /\ pool'[At(r, i)] = "out" /\ At(r, i) # f /\ At(r, i) # pfence
        BY <3>1, <3>3, <3>5, <1>00 DEF Owned
      <3>6. pfence # None => pool'[pfence] = "out"
        BY <3>1, <3>3, <1>00
      <3> QED BY <3>1, <3>2, <3>3, <3>4, <3>5, <3>6, <2>1, <2>3 DEF Owned
    <2>4. CASE bound[s] # None
      <3>1. PICK f \in take_fence(bound[s]) : /\ vmm' = [at |-> "took", ring |-> s, fence |-> f]
                                              /\ pool' = IF f = None THEN pool ELSE TakenOut(f)
        BY <1>2, <2>4 DEF CreateFence
      <3>2. f = None \/ (f \in VkFence /\ f[1] = bound[s] /\ pool[f] # "out")
        BY <2>4, <1>0, Given
      <3>3. f # None => f \in VkFence /\ f[1] = bound[s] /\ pool[f] # "out" /\ pool' = TakenOut(f)
        BY <3>1, <3>2
      <3>4. f = None => UNCHANGED pool /\ vmm'.fence = None
        BY <3>1
      <3> QED BY <3>1, <3>3, <3>4, <2>2, <2>3
    <2>5. CASE bound[s] = None
      <3>1. UNCHANGED pool /\ vmm'.fence = None
        BY <1>2, <2>5 DEF CreateFence
      <3> QED BY <3>1, <2>2
    <2> QED BY <2>4, <2>5
  <1>3. CASE SubmitFence
    <2>0. PICK s \in Rings, q \in Queues, f \in Fence, g \in Fence : SubmitsAs(s, q, f, g)
      BY <1>3, Submits
    <2> DEFINE j == [seqno |-> made[s], fence |-> g, cover |-> sent[q], how |-> "never"]
    <2>1. /\ UNCHANGED <<hand, sync, bound, pfence>> /\ vmm.at = "took" /\ vmm.ring = s /\ f = vmm.fence
          /\ jobs' = [jobs EXCEPT ![s] = Append(@, j)] /\ vmm' = Idle
          /\ q = bound[s]
          /\ (g = f /\ UNCHANGED pool) \/ (f # None /\ g = None /\ put_fence(f))
      <3>1. vmm.at = "took" /\ vmm.ring = s /\ f = vmm.fence /\ q = bound[s] /\ vmm' = Idle
            /\ jobs' = [jobs EXCEPT ![s] = Append(@, j)]
        BY <2>0 DEF SubmitsAs
      <3>2. UNCHANGED <<hand, sync, bound, pfence>>
        BY <2>0 DEF SubmitsAs, presentVars
      <3>3. (g = f /\ UNCHANGED pool) \/ (f # None /\ g = None /\ put_fence(f))
        BY <2>0 DEF SubmitsAs
      <3> QED BY <3>1, <3>2, <3>3
    <2>2. jobs[s] \in Seq(Job) /\ j \in Job
      <3>1. made[s] \in Nat /\ sent[q] \in Nat
        BY QueueConstants DEF Types, RingTypes, GpuTypes
      <3> QED BY <1>0, <3>1 DEF Job
    <2>20. j.fence = g
      OBVIOUS
    <2> HIDE DEF j
    <2>19. PICK n \in Nat : n = Len(jobs[s]) + 1
      BY <2>2, LenProperties
    <2>3. /\ Len(jobs[s]) \in Nat /\ Len(jobs'[s]) = n /\ jobs'[s][n] = j
          /\ \A i \in 1..Len(jobs[s]) : jobs'[s][i] = jobs[s][i]
          /\ \A r \in Rings : r # s => jobs'[r] = jobs[r]
      BY <2>1, <2>2, <2>19, <1>0, Added
    <2>4. /\ Places(s)' = Places(s) \cup {n} /\ n \notin Places(s) /\ n \in Nat /\ n # 0
          /\ \A i \in Places(s) : i = 0 \/ i \in 1..Len(jobs[s])
      BY <2>3, <2>19 DEF Places
    <2>5. /\ At(s, n)' = g /\ \A i \in Places(s) : At(s, i)' = At(s, i)
          /\ \A r \in Rings : r # s => Places(r)' = Places(r) /\ \A i \in Places(r) : At(r, i)' = At(r, i)
      <3>1. At(s, n)' = g
        BY <2>3, <2>4, <2>20 DEF At
      <3>2. ASSUME NEW i \in Places(s) PROVE At(s, i)' = At(s, i)
        <4>1. sync'[s] = sync[s] /\ hand'[s] = hand[s]
          BY <2>1
        <4> QED BY <4>1, <2>3, <2>4 DEF At
      <3>3. ASSUME NEW r \in Rings, r # s
            PROVE  Places(r)' = Places(r) /\ \A i \in Places(r) : At(r, i)' = At(r, i)
        BY <2>1, <2>3, <3>3 DEF At, Places
      <3> QED BY <3>1, <3>2, <3>3
    <2>6. CASE g = f /\ UNCHANGED pool
      <3>1. f # None => /\ f[1] = bound[s] /\ f # pfence /\ pool[f] = "out"
                        /\ \A r \in Rings : \A i \in Places(r) : At(r, i) # None => At(r, i) # f
        BY <2>1 DEF Owned
      <3>2. ASSUME NEW r \in Rings, NEW i \in Places(r)', At(r, i)' # None
            PROVE  \/ r = s /\ i = n /\ At(r, i)' = f /\ f # None
                   \/ i \in Places(r) /\ At(r, i)' = At(r, i)
        <4>1. CASE r = s
          BY <4>1, <3>2, <2>4, <2>5, <2>6
        <4>2. CASE r # s
          BY <4>2, <3>2, <2>5
        <4> QED BY <4>1, <4>2
      <3>3. ASSUME NEW r \in Rings, NEW i \in Places(r)', At(r, i)' # None
            PROVE  /\ At(r, i)'[1] = bound[r] /\ pool'[At(r, i)'] = "out" /\ At(r, i)' # pfence
                   /\ At(r, i)' # None
        BY <3>1, <3>2, <3>3, <2>6 DEF Owned
      <3>4. ASSUME NEW r \in Rings, NEW t \in Rings, NEW i \in Places(r)', NEW k \in Places(t)',
                   At(r, i)' # None, At(r, i)' = At(t, k)'
            PROVE  r = t /\ i = k
        <4>1. \/ r = s /\ i = n /\ At(r, i)' = f /\ f # None
              \/ i \in Places(r) /\ At(r, i)' = At(r, i)
          BY <3>2, <3>4
        <4>2. \/ t = s /\ k = n /\ At(t, k)' = f /\ f # None
              \/ k \in Places(t) /\ At(t, k)' = At(t, k)
          BY <3>2, <3>4
        <4> QED BY <4>1, <4>2, <3>1, <3>4 DEF Owned
      <3>5. vmm'.fence = None /\ \A r \in Rings : sync'[r] = "wait" => hand'[r].fence # None
        BY <2>1, <1>0 DEF Idle
      <3>6. pfence' # None => pool'[pfence'] = "out"
        BY <2>1, <2>6, <1>00
      <3> QED BY <3>3, <3>4, <3>5, <3>6, <2>1 DEF Owned
    <2>7. CASE f # None /\ g = None /\ put_fence(f)
      <3>1. f \in VkFence /\ f = vmm.fence
        BY <2>1, <2>7 DEF Fence
      <3>2. \A h \in VkFence : h # f => pool'[h] = pool[h]
        BY <3>1, <2>7, <1>0, Put
      <3>3. ASSUME NEW r \in Rings, NEW i \in Places(r)', At(r, i)' # None
            PROVE  /\ i + Same[r] \in Places(r) /\ At(r, i)' = At(r, i + Same[r]) /\ bound'[r] = bound[r]
                   /\ pool'[At(r, i)'] = "out"
        <4>1. i \in Places(r) /\ At(r, i)' = At(r, i) /\ At(r, i) # None
          <5>1. CASE r = s
            BY <5>1, <3>3, <2>4, <2>5, <2>7
          <5>2. CASE r # s
            BY <5>2, <3>3, <2>5
          <5> QED BY <5>1, <5>2
        <4>2. At(r, i) # f
          BY <4>1, <3>1, <2>1 DEF Owned
        <4> QED BY <4>1, <4>2, <3>2, <2>1, <1>00
      <3>4. \A r \in Rings : sync'[r] = "wait" => hand'[r].fence # None
        BY <2>1, <1>0
      <3>5. \A r \in Rings : \A i \in Places(r)' : i \in Nat
        BY <2>4, <2>5, <1>00
      <3>6. vmm'.fence = None
        BY <2>1 DEF Idle
      <3>7. pfence' = None \/ (pfence' = pfence /\ pool'[pfence] = "out")
        BY <2>1, <2>7, <3>1, <3>2, <1>00 DEF Owned
      <3> QED BY <3>3, <3>4, <3>5, <3>6, <3>7, <1>0, OwnedFewer
    <2> QED BY <2>1, <2>6, <2>7
  <1>4. ASSUME NEW s \in Rings, SyncRecv(s) PROVE Owned'
    <2> DEFINE d == [r \in Rings |-> IF r = s THEN 1 ELSE 0]
    <2>1. /\ sync[s] = "recv" /\ jobs[s] # <<>>
          /\ hand' = [hand EXCEPT ![s] = Head(jobs[s])] /\ jobs' = [jobs EXCEPT ![s] = Tail(@)]
          /\ sync' = [sync EXCEPT ![s] = IF Fenced(Head(jobs[s])) THEN "wait" ELSE "retire"]
          /\ UNCHANGED <<pool, bound, vmm, pfence>>
      BY <1>4 DEF SyncRecv, Receives, presentVars
    <2>2. jobs[s] \in Seq(Job)
      BY <1>0
    <2>3. /\ Len(jobs[s]) \in Nat \ {0} /\ Len(jobs'[s]) = Len(jobs[s]) - 1 /\ hand'[s] = jobs[s][1]
          /\ \A i \in 1..Len(jobs'[s]) : jobs'[s][i] = jobs[s][i + 1]
          /\ sync'[s] = "wait" <=> hand'[s].fence # None
      <3>1. jobs'[s] = Tail(jobs[s]) /\ hand'[s] = Head(jobs[s])
        BY <2>1, <1>0
      <3>2. sync'[s] = "wait" <=> hand'[s].fence # None
        BY <2>1, <3>1, <1>0 DEF Fenced
      <3> QED BY <3>1, <3>2, <2>1, <2>2, Taken
    <2>4. \A r \in Rings : r # s => /\ jobs'[r] = jobs[r] /\ hand'[r] = hand[r] /\ sync'[r] = sync[r]
                                    /\ Places(r)' = Places(r) /\ \A i \in Places(r) : At(r, i)' = At(r, i)
      BY <2>1, <1>0 DEF Places, At
    <2>5. \A i \in Places(s)' : i \in Nat /\ i + 1 \in Places(s) /\ At(s, i)' = At(s, i + 1)
      <3> SUFFICES ASSUME NEW i \in Places(s)' PROVE i \in Nat /\ i + 1 \in Places(s) /\ At(s, i)' = At(s, i + 1)
        OBVIOUS
      <3>1. i \in Nat /\ (i = 0 \/ i \in 1..Len(jobs'[s])) /\ i + 1 \in Places(s) /\ i + 1 # 0
        BY <2>3 DEF Places
      <3>2. At(s, i + 1) = jobs[s][i + 1].fence
        BY <3>1 DEF At
      <3>3. CASE i = 0
        BY <3>1, <3>2, <3>3, <2>3 DEF At
      <3>4. CASE i \in 1..Len(jobs'[s])
        BY <3>1, <3>2, <3>4, <2>3 DEF At
      <3> QED BY <3>1, <3>3, <3>4
    <2>6. d \in [Rings -> 0..1] /\ d[s] = 1 /\ \A r \in Rings : r # s => d[r] = 0
      OBVIOUS
    <2> HIDE DEF d
    <2>7. ASSUME NEW r \in Rings, NEW i \in Places(r)', At(r, i)' # None
          PROVE  /\ i + d[r] \in Places(r) /\ At(r, i)' = At(r, i + d[r]) /\ bound'[r] = bound[r]
                 /\ pool'[At(r, i)'] = "out"
      <3>1. i + d[r] \in Places(r) /\ At(r, i)' = At(r, i + d[r])
        <4>1. CASE r = s
          BY <4>1, <2>5, <2>6
        <4>2. CASE r # s
          <5>1. i \in Places(r) /\ At(r, i)' = At(r, i) /\ i \in Nat /\ d[r] = 0
            BY <4>2, <2>4, <2>6, <1>00
          <5>2. i + d[r] = i
            BY <5>1
          <5> QED BY <5>1, <5>2
        <4> QED BY <4>1, <4>2
      <3> QED BY <3>1, <2>1, <2>7, <1>00
    <2>8. \A r \in Rings : sync'[r] = "wait" => hand'[r].fence # None
      BY <2>3, <2>4, <1>0
    <2>9. \A r \in Rings : \A i \in Places(r)' : i \in Nat
      BY <2>4, <2>5, <1>00
    <2>10. vmm'.fence = None \/ (/\ vmm'.fence = vmm.fence /\ vmm'.at = "took"
                                 /\ bound'[vmm'.ring] = bound[vmm.ring] /\ pool'[vmm.fence] = "out")
      BY <2>1, <1>00
    <2>11. pfence' = None \/ (pfence' = pfence /\ pool'[pfence] = "out")
      BY <2>1, <1>00
    <2> QED BY <2>6, <2>7, <2>8, <2>9, <2>10, <2>11, OwnedFewer
  \* A fence let go of, wherever it was.
  <1>5. ASSUME NEW f \in VkFence, pool' = pool \/ put_fence(f),
               \A r \in Rings : /\ jobs'[r] = jobs[r] /\ bound'[r] = bound[r] /\ hand'[r].fence = hand[r].fence
                                /\ sync'[r] = "wait" => sync[r] = "wait" /\ hand[r].fence # f,
               UNCHANGED vmm, vmm.fence # f, pfence' = None \/ (pfence' = pfence /\ pfence # f),
               \A r \in Rings : \A i \in 1..Len(jobs[r]) : jobs[r][i].fence # f
        PROVE  Owned'
    <2>1. \A h \in VkFence : h # f => pool'[h] = pool[h]
      BY <1>5, <1>0, Put
    <2>2. \A r \in Rings : Places(r)' = Places(r)
      BY <1>5 DEF Places
    <2>3. ASSUME NEW r \in Rings, NEW i \in Places(r)', At(r, i)' # None
          PROVE  /\ i + Same[r] \in Places(r) /\ At(r, i)' = At(r, i + Same[r]) /\ bound'[r] = bound[r]
                 /\ pool'[At(r, i)'] = "out"
      <3>1. i \in Places(r) /\ At(r, i)' = At(r, i) /\ At(r, i) # f
        <4>1. i = 0 \/ i \in 1..Len(jobs[r])
          BY <2>2, PlaceTypes DEF Places
        <4> QED BY <4>1, <2>2, <2>3, <1>5 DEF At
      <3> QED BY <3>1, <2>1, <2>3, <1>5, <1>00
    <2>4. \A r \in Rings : sync'[r] = "wait" => hand'[r].fence # None
      BY <1>0, <1>5
    <2>5. \A r \in Rings : \A i \in Places(r)' : i \in Nat
      BY <2>2, <1>00
    <2>6. vmm'.fence = None \/ (/\ vmm'.fence = vmm.fence /\ vmm'.at = "took"
                                /\ bound'[vmm'.ring] = bound[vmm.ring] /\ pool'[vmm.fence] = "out")
      BY <2>1, <1>5, <1>00
    <2>7. pfence' = None \/ (pfence' = pfence /\ pool'[pfence] = "out")
      BY <2>1, <1>5, <1>00
    <2> QED BY <2>3, <2>4, <2>5, <2>6, <2>7, <1>0, OwnedFewer
  <1>6. ASSUME NEW s \in Rings, WaitDone(s) \/ WaitStopped(s) \/ WaitFailed(s) PROVE Owned'
    <2>1. /\ sync[s] = "wait" /\ (pool' = pool \/ put_fence(hand[s].fence))
          /\ UNCHANGED <<jobs, bound, vmm, pfence>>
      BY <1>6 DEF WaitDone, WaitStopped, WaitFailed, WaitOver, LeftOut, presentVars
    <2>2. hand[s].fence \in VkFence /\ At(s, 0) = hand[s].fence /\ 0 \in Places(s)
      BY <2>1, <1>0, PlaceTypes DEF At, Places, Job, Fence
    <2>3. PICK how : sync' = [sync EXCEPT ![s] = "retire"] /\ hand' = [hand EXCEPT ![s].how = how]
      BY <1>6 DEF WaitDone, WaitStopped, WaitFailed, WaitOver
    <2>4. ASSUME NEW r \in Rings
          PROVE  hand'[r].fence = hand[r].fence /\ (sync'[r] = "wait" => sync[r] = "wait" /\ r # s)
      BY <2>3, <1>0 DEF Job
    <2>5. ASSUME NEW r \in Rings, r # s, sync[r] = "wait" PROVE hand[r].fence # hand[s].fence
      <3>1. At(r, 0) = hand[r].fence /\ 0 \in Places(r)
        BY <2>5, PlaceTypes DEF At, Places
      <3> QED BY <3>1, <2>2, <2>5, FenceQueue DEF Owned
    <2>6. ASSUME NEW r \in Rings, NEW i \in 1..Len(jobs[r]) PROVE jobs[r][i].fence # hand[s].fence
      <3>1. At(r, i) = jobs[r][i].fence /\ i \in Places(r) /\ i # 0
        BY PlaceTypes DEF At, Places
      <3> QED BY <3>1, <2>2, FenceQueue DEF Owned
    <2>7. vmm.fence # hand[s].fence /\ pfence # hand[s].fence
      BY <2>2, FenceQueue DEF Owned
    <2> QED BY <2>1, <2>2, <2>4, <2>5, <2>6, <2>7, <1>5
  <1>7. CASE PresentTake
    <2>1. PICK q \in left : \E f \in take_fence(q) :
             IF f = None THEN UNCHANGED <<pool, pfence>> ELSE pool' = TakenOut(f) /\ pfence' = f
      BY <1>7 DEF PresentTake
    <2>2. q \in Queues
      BY DEF Types, PresentTypes
    <2>3. PICK f \in take_fence(q) :
             IF f = None THEN UNCHANGED <<pool, pfence>> ELSE pool' = TakenOut(f) /\ pfence' = f
      BY <2>1
    <2>4. f = None \/ (f \in VkFence /\ f[1] = q /\ pool[f] # "out")
      BY <2>2, <2>3, <1>0, Given
    <2>5. UNCHANGED <<jobs, hand, sync, bound, vmm>>
      BY <1>7 DEF PresentTake, ringVars
    <2>6. CASE f = None
      BY <2>3, <2>5, <2>6, <1>1
    <2>7. CASE f # None
      <3>1. f \in VkFence /\ pool[f] # "out" /\ pool' = TakenOut(f) /\ pfence' = f
        BY <2>3, <2>4, <2>7
      <3>2. f # vmm.fence /\ \A r \in Rings : \A i \in Places(r) : At(r, i) # f
        BY <3>1, Fresh
      <3>3. \A r \in Rings : Places(r)' = Places(r) /\ \A i \in Places(r) : At(r, i)' = At(r, i)
        BY <2>5 DEF Places, At
      <3>4. pool'[f] = "out" /\ \A g \in VkFence : g # f => pool'[g] = pool[g]
        BY <3>1, <1>0, Out
      <3>5. ASSUME NEW r \in Rings, NEW i \in Places(r), At(r, i) # None
            PROVE  /\ At(r, i)[1] = bound[r] /\ pool'[At(r, i)] = "out" /\ At(r, i) # f /\ At(r, i) # vmm.fence
        BY <3>2, <3>4, <3>5, <1>00 DEF Owned
      <3>6. vmm.fence # None => pool'[vmm.fence] = "out"
        BY <3>2, <3>4, <1>00
      <3> QED BY <3>1, <3>2, <3>3, <3>4, <3>5, <3>6, <2>5 DEF Owned
    <2> QED BY <2>6, <2>7
  <1>8. CASE PresentSubmit \/ PresentWait
    <2>1. /\ pfence # None /\ UNCHANGED <<jobs, hand, sync, bound, vmm>>
          /\ \/ UNCHANGED <<pool, pfence>>
             \/ pfence' = None /\ (put_fence(pfence) \/ UNCHANGED pool)
      BY <1>8 DEF PresentSubmit, PresentWait, LeftOut, ringVars, Types, PresentTypes
    <2>2. pfence \in VkFence
      BY <2>1, <1>00
    <2>3. /\ vmm.fence # pfence
          /\ \A r \in Rings : \A i \in 1..Len(jobs[r]) : jobs[r][i].fence # pfence
          /\ \A r \in Rings : sync[r] = "wait" => hand[r].fence # pfence
      <3>1. ASSUME NEW r \in Rings, NEW i \in 1..Len(jobs[r]) PROVE jobs[r][i].fence # pfence
        <4>1. At(r, i) = jobs[r][i].fence /\ i \in Places(r) /\ i # 0
          BY PlaceTypes DEF At, Places
        <4> QED BY <4>1, <2>1 DEF Owned
      <3>2. ASSUME NEW r \in Rings, sync[r] = "wait" PROVE hand[r].fence # pfence
        <4>1. At(r, 0) = hand[r].fence /\ 0 \in Places(r)
          BY <3>2, PlaceTypes DEF At, Places
        <4> QED BY <4>1, <2>1 DEF Owned
      <3>3. vmm.fence # pfence
        BY <2>1 DEF Owned
      <3> QED BY <3>1, <3>2, <3>3
    <2>4. CASE UNCHANGED <<pool, pfence>>
      BY <2>1, <2>4, <1>1
    <2>5. CASE pfence' = None /\ (put_fence(pfence) \/ UNCHANGED pool)
      BY <2>1, <2>2, <2>3, <2>5, <1>5
    <2> QED BY <2>1, <2>4, <2>5
  <1>9. ASSUME NEW s \in Rings, NEW q \in Queues, Bind(s, q) PROVE Owned'
    <2>1. /\ sync' = [sync EXCEPT ![s] = "recv"] /\ bound' = [bound EXCEPT ![s] = q] /\ bound[s] = None
          /\ UNCHANGED <<jobs, hand, pool, vmm, pfence>> /\ vmm.at # "took"
      BY <1>9 DEF Bind, BoundFree, presentVars
    <2>2. sync[s] = "off" /\ jobs[s] = <<>>
      BY <2>1, <1>0 DEF BindingIs
    <2>3. vmm'.fence = None
      BY <2>1, <1>00
    <2>4. \A r \in Rings : /\ (sync'[r] = "wait" <=> sync[r] = "wait")
                           /\ (bound'[r] = bound[r] \/ (jobs[r] = <<>> /\ sync[r] # "wait"))
      BY <2>1, <2>2, <1>0
    <2> QED BY <2>1, <2>3, <2>4, <1>1
  <1>10. CASE JoinSync
    <2>1. /\ sync' = [sync EXCEPT ![ender.ring] = "off"] /\ bound' = [bound EXCEPT ![ender.ring] = None]
          /\ UNCHANGED <<jobs, hand, pool, vmm, pfence>> /\ sync[ender.ring] = "gone" /\ ender.at = "join"
          /\ ender.ring \in Rings
      BY <1>10 DEF JoinSync, presentVars, Types, EnderTypes
    <2>2. jobs[ender.ring] = <<>>
      BY <2>1, <1>0 DEF BindingIs
    <2>3. vmm'.fence = None
      BY <2>1, <1>00 DEF Bindings
    <2>4. \A r \in Rings : /\ (sync'[r] = "wait" <=> sync[r] = "wait")
                           /\ (bound'[r] = bound[r] \/ (jobs[r] = <<>> /\ sync[r] # "wait"))
      BY <2>1, <2>2, <1>0
    <2> QED BY <2>1, <2>3, <2>4, <1>1
  <1>11. ASSUME NEW s \in Rings, SyncEnd(s) \/ SyncRetire(s) PROVE Owned'
    <2>1. CASE SyncEnd(s)
      <3>1. /\ sync' = [sync EXCEPT ![s] = "gone"] /\ sync[s] = "recv"
            /\ UNCHANGED <<jobs, hand, pool, vmm, pfence, bound>>
        BY <2>1 DEF SyncEnd, presentVars
      <3>2. \A r \in Rings : (sync'[r] = "wait" <=> sync[r] = "wait")
        BY <3>1, <1>0
      <3> QED BY <3>1, <3>2, <1>1
    <2>2. CASE SyncRetire(s)
      <3>1. /\ sync' = [sync EXCEPT ![s] = "recv"] /\ sync[s] = "retire" /\ hand' = [hand EXCEPT ![s] = NoJob]
            /\ UNCHANGED <<jobs, pool, vmm, pfence, bound>>
        BY <2>2 DEF SyncRetire, presentVars
      <3>2. \A r \in Rings : /\ (sync'[r] = "wait" => sync[r] = "wait" /\ hand'[r] = hand[r])
                             /\ (sync[r] = "wait" => sync'[r] = "wait")
        BY <3>1, <1>0
      <3>3. \A r \in Rings : Places(r)' = Places(r) /\ \A i \in Places(r) : At(r, i)' = At(r, i)
        BY <3>1, <3>2 DEF Places, At
      <3>4. \A r \in Rings : sync'[r] = "wait" => hand'[r].fence # None
        BY <3>2, <1>0
      <3> QED BY <3>1, <3>3, <3>4 DEF Owned
    <2> QED BY <1>11, <2>1, <2>2
  <1>12. ASSUME NEW s \in Rings, Forget(s) PROVE Owned'
    <2>1. UNCHANGED <<jobs, hand, sync, bound, pool, vmm, pfence>>
      BY <1>12 DEF Forget, presentVars
    <2> QED BY <2>1, <1>1
  <1>13. CASE RetireUnbound
    <2>1. UNCHANGED <<jobs, hand, sync, bound, pool, pfence>> /\ vmm'.fence = None
      BY <1>13 DEF RetireUnbound, presentVars, ringVars, Idle
    <2> QED BY <2>1, <1>1
  <1>14. CASE UNCHANGED <<pool, ringVars, made, answered>> /\ UNCHANGED vmm
    <2>1. CASE pfence' = pfence
      BY <2>1, <1>14, <1>1 DEF ringVars
    <2>2. CASE PresentTake \/ PresentSubmit \/ PresentWait
      BY <2>2, <1>7, <1>8
    <2>3. pfence' = pfence \/ PresentTake \/ PresentSubmit \/ PresentWait
      BY PresentFrame DEF PresentThread, PresentFence, PresentRecv, PresentBarrier, PresentSnapshot,
        PresentRetire, presentVars
    <2> QED BY <2>1, <2>2, <2>3
  <1> QED BY <1>2, <1>3, <1>4, <1>6, <1>7, <1>8, <1>9, <1>10, <1>11, <1>12, <1>13, <1>14, RingFrame,
    VmmFrame
        DEF Sync, Vmm

-----------------------------------------------------------------------------
(* What is signalled and what is in flight                                 *)

LEMMA CleanStart == Init => Clean
  <1> SUFFICES ASSUME Init PROVE Clean
    OBVIOUS
  <1>1. /\ \A q \in Queues : gpu[q] = <<>>
        /\ signalled = {} /\ vmm.fence = None /\ ppc = "off"
    BY DEF Init, Idle
  <1>2. \A f \in VkFence : ~InFlight(f)
    BY <1>1, FenceQueue DEF InFlight
  <1> QED BY <1>1, <1>2 DEF Clean, Untouched

\* No fence is in flight twice, nor while it is signalled.
Once ==
  /\ \A f \in signalled : ~InFlight(f)
  /\ \A q \in Queues : \A i, j \in 1..Len(gpu[q]) :
       gpu[q][i] # Work /\ gpu[q][i] = gpu[q][j] => i = j

\* A queue's first finishes: a fence goes from in flight to signalled.
LEMMA GpuTouches ==
  ASSUME Types, Once, NEW q \in Queues, Gpu(q)
  PROVE  /\ Once'
         /\ \A f \in VkFence : Untouched(f) => Untouched(f)'
         /\ \A f \in VkFence : InFlight(f)' => InFlight(f)
  <1>0. GpuTypes
    BY DEF Types
  <1>1. /\ \A p \in Queues : p # q => gpu'[p] = gpu[p]
        /\ Len(gpu[q]) \in Nat \ {0} /\ Len(gpu'[q]) = Len(gpu[q]) - 1
        /\ \A i \in 1..Len(gpu'[q]) : gpu'[q][i] = gpu[q][i + 1]
        /\ gpu[q][1] \in {Work} \cup VkFence /\ (gpu[q][1] # Work => gpu[q][1][1] = q)
        /\ Head(gpu[q]) = gpu[q][1]
    BY <1>0, Finished
  <1>2. \A i \in 1..Len(gpu'[q]) : i \in Nat /\ i + 1 \in 1..Len(gpu[q]) /\ i + 1 # 1
    BY <1>1
  <1>3. 1 \in 1..Len(gpu[q])
    BY <1>1
  <1>4. ASSUME NEW f \in VkFence, InFlight(f)' PROVE InFlight(f) /\ f # gpu[q][1]
    <2>1. PICK i \in 1..Len(gpu'[f[1]]) : gpu'[f[1]][i] = f
      BY <1>4 DEF InFlight
    <2>2. CASE f[1] = q
      <3>1. i + 1 \in 1..Len(gpu[q]) /\ gpu[q][i + 1] = f /\ i + 1 # 1
        BY <1>1, <1>2, <2>1, <2>2
      <3>2. f # gpu[q][1]
        BY <3>1, <1>3, FenceQueue DEF Once, Work
      <3> QED BY <3>1, <3>2, <2>2 DEF InFlight
    <2>3. CASE f[1] # q
      <3>1. f[1] \in Queues
        BY FenceQueue
      <3>2. f # gpu[q][1]
        BY <1>1, <2>3, FenceQueue DEF Work
      <3> QED BY <3>1, <3>2, <2>1, <2>3, <1>1 DEF InFlight
    <2> QED BY <2>2, <2>3
  <1>5. signalled' = signalled \/ (gpu[q][1] # Work /\ signalled' = signalled \cup {gpu[q][1]})
    BY <1>1 DEF Gpu
  <1>6. \A f \in signalled' : f \in signalled \/ (f = gpu[q][1] /\ gpu[q][1] # Work)
    BY <1>5
  <1>7. \A f \in signalled' : ~InFlight(f)'
    <2>1. signalled' \subseteq VkFence
      BY <1>1, <1>5, <1>0 DEF GpuTypes
    <2> QED BY <2>1, <1>4, <1>6 DEF Once
  <1>8. ASSUME NEW p \in Queues, NEW i \in 1..Len(gpu'[p]), NEW j \in 1..Len(gpu'[p]),
               gpu'[p][i] # Work, gpu'[p][i] = gpu'[p][j]
        PROVE  i = j
    <2>1. CASE p = q
      <3>1. /\ i + 1 \in 1..Len(gpu[q]) /\ j + 1 \in 1..Len(gpu[q])
            /\ gpu[q][i + 1] # Work /\ gpu[q][i + 1] = gpu[q][j + 1] /\ i \in Nat /\ j \in Nat
        BY <1>1, <1>2, <1>8, <2>1
      <3>2. i + 1 = j + 1
        BY <3>1 DEF Once
      <3> QED BY <3>1, <3>2
    <2>2. CASE p # q
      BY <2>2, <1>1, <1>8 DEF Once
    <2> QED BY <2>1, <2>2
  <1>9. ASSUME NEW f \in VkFence, Untouched(f) PROVE Untouched(f)'
    <2>1. f # gpu[q][1]
      <3>1. CASE f[1] = q
        BY <3>1, <1>3, <1>9 DEF Untouched, InFlight
      <3>2. CASE f[1] # q
        BY <3>2, <1>1, FenceQueue DEF Work
      <3> QED BY <3>1, <3>2
    <2> QED BY <2>1, <1>4, <1>6, <1>9 DEF Untouched
  <1> QED BY <1>4, <1>7, <1>8, <1>9 DEF Once

\* Work, or a fence that is neither signalled nor in flight, goes behind all a queue has.
LEMMA AddTouches ==
  ASSUME Types, Once, NEW q \in Queues, NEW e \in {Work} \cup VkFence, e # Work => e[1] = q /\ Untouched(e),
         gpu' = [gpu EXCEPT ![q] = Append(@, e)], UNCHANGED signalled
  PROVE  /\ Once'
         /\ \A f \in VkFence : f # e /\ Untouched(f) => Untouched(f)'
         /\ \A f \in VkFence : f # e => (InFlight(f)' <=> InFlight(f))
  <1>0. GpuTypes
    BY DEF Types
  <1>1. /\ \A p \in Queues : p # q => gpu'[p] = gpu[p]
        /\ Len(gpu[q]) \in Nat /\ Len(gpu'[q]) = Len(gpu[q]) + 1
        /\ \A i \in 1..Len(gpu[q]) : gpu'[q][i] = gpu[q][i]
        /\ gpu'[q][Len(gpu[q]) + 1] = e
    BY <1>0, Given2
  <1>2. PICK n \in Nat : n = Len(gpu[q])
    BY <1>1
  <1>3. /\ Len(gpu'[q]) = n + 1 /\ gpu'[q][n + 1] = e
        /\ \A i \in 1..n : gpu'[q][i] = gpu[q][i]
        /\ \A i \in 1..n + 1 : i \in 1..n \/ i = n + 1
        /\ \A i \in 1..n : i \in 1..n + 1 /\ i # n + 1
    BY <1>1, <1>2
  <1>4. \A i \in 1..n : e # Work => gpu[q][i] # e
    BY <1>2 DEF Untouched, InFlight
  <1>5. ASSUME NEW f \in VkFence, f # e PROVE InFlight(f)' <=> InFlight(f)
    <2>1. f[1] \in Queues
      BY FenceQueue
    <2>2. CASE f[1] = q
      <3>1. (\E i \in 1..n + 1 : gpu'[q][i] = f) <=> \E i \in 1..n : gpu[q][i] = f
        BY <1>3, <1>5
      <3> QED BY <3>1, <2>2, <1>2, <1>3 DEF InFlight
    <2>3. CASE f[1] # q
      BY <2>1, <2>3, <1>1 DEF InFlight
    <2> QED BY <2>2, <2>3
  <1>6. \A f \in signalled' : ~InFlight(f)'
    <2>1. signalled \subseteq VkFence
      BY <1>0 DEF GpuTypes
    <2>2. e \notin signalled
      BY <2>1, FenceQueue DEF Untouched, Work
    <2> QED BY <2>1, <2>2, <1>5 DEF Once
  <1>7. ASSUME NEW p \in Queues, NEW i \in 1..Len(gpu'[p]), NEW j \in 1..Len(gpu'[p]),
               gpu'[p][i] # Work, gpu'[p][i] = gpu'[p][j]
        PROVE  i = j
    <2>1. CASE p = q
      <3>1. i \in 1..n + 1 /\ j \in 1..n + 1
        BY <2>1, <1>3
      <3>2. CASE i \in 1..n /\ j \in 1..n
        BY <3>2, <2>1, <1>2, <1>3, <1>7 DEF Once
      <3>3. CASE i = n + 1 \/ j = n + 1
        BY <3>1, <3>3, <2>1, <1>3, <1>4, <1>7
      <3> QED BY <3>1, <3>2, <3>3, <1>3
    <2>2. CASE p # q
      BY <2>2, <1>1, <1>7 DEF Once
    <2> QED BY <2>1, <2>2
  <1> QED BY <1>5, <1>6, <1>7 DEF Once, Untouched

\* A fence its user is done with goes back, reset.
LEMMA PutTouches ==
  ASSUME Types, Once, NEW f \in VkFence, put_fence(f), ~InFlight(f), UNCHANGED gpu
  PROVE  /\ Once' /\ Untouched(f)'
         /\ \A g \in VkFence : Untouched(g) => Untouched(g)'
  <1>1. signalled' = signalled \ {f}
    BY Put DEF Types
  <1>2. \A g \in VkFence : InFlight(g)' <=> InFlight(g)
    BY DEF InFlight
  <1>3. signalled' \subseteq VkFence
    BY <1>1 DEF Types, GpuTypes
  <1>4. \A q \in Queues : gpu'[q] = gpu[q]
    OBVIOUS
  <1> QED BY <1>1, <1>2, <1>3, <1>4 DEF Once, Untouched

LEMMA CleanKept == ASSUME Types, Bindings, Owned, Clean, Next PROVE Clean'
  <1>0. /\ Once /\ RingTypes /\ GpuTypes /\ pool \in [VkFence -> {"none", "spare", "out"}]
        /\ \A f \in VkFence : pool[f] # "out" => Untouched(f)
        /\ vmm.fence # None => Untouched(vmm.fence) /\ vmm.fence \in VkFence
        /\ ppc = "took" => Untouched(pfence) /\ pfence \in VkFence
        /\ ppc = "wait" => pfence \in VkFence
    BY DEF Clean, Once, Types, RingTypes, VmmTypes, PresentTypes, Fence
  <1>00. PICK v \in Fence, p \in Fence : v = vmm.fence /\ p = pfence
    BY DEF Types, VmmTypes, PresentTypes
  \* What a step has to show.
  <1>1. ASSUME Once', \A f \in VkFence : pool'[f] # "out" => Untouched(f)',
               NEW g \in Fence, vmm'.fence = g, g # None => Untouched(g)',
               NEW h \in Fence, pfence' = h, ppc' = "took" => Untouched(h)'
        PROVE  Clean'
    BY <1>1 DEF Clean, Once, Untouched, InFlight
  \* A step that submits nothing and takes nothing.
  <1>2. ASSUME Once', \A f \in VkFence : Untouched(f) => Untouched(f)',
               \A f \in VkFence : pool'[f] # "out" => pool[f] # "out" \/ Untouched(f)',
               vmm'.fence = None \/ UNCHANGED vmm, ppc' # "took" \/ UNCHANGED <<ppc, pfence>>, pfence' \in {None, p}
        PROVE  Clean'
    <2>1. \A f \in VkFence : pool'[f] # "out" => Untouched(f)'
      BY <1>2, <1>0
    <2>2. PICK g \in {None, v} : vmm'.fence = g
      BY <1>2, <1>00
    <2>3. g # None => Untouched(g)'
      BY <1>2, <1>0, <1>00, <2>2
    <2>4. PICK h \in {None, p} : pfence' = h
      BY <1>2
    <2>5. ppc' = "took" => Untouched(h)'
      BY <1>2, <1>0, <1>00, <2>4
    <2>6. g \in Fence /\ h \in Fence
      BY DEF Fence
    <2> QED BY <1>2, <2>1, <2>2, <2>3, <2>4, <2>5, <2>6, <1>1
  \* One that touches no fence.
  <1>3. ASSUME UNCHANGED <<gpu, signalled, pool>>, vmm'.fence = None \/ UNCHANGED vmm,
               ppc' # "took" \/ UNCHANGED <<ppc, pfence>>, pfence' \in {None, p}
        PROVE  Clean'
    <2>1. \A f \in VkFence : Untouched(f)' <=> Untouched(f)
      BY <1>3 DEF Untouched, InFlight
    <2>2. Once'
      BY <1>3, <1>0 DEF Once, InFlight
    <2> QED BY <2>1, <2>2, <1>2, <1>3
  <1>4. ASSUME NEW q \in Queues, Gpu(q) PROVE Clean'
    <2>1. UNCHANGED <<pool, vmm, ppc, pfence>>
      BY <1>4 DEF Gpu, presentVars
    <2> QED BY <2>1, <1>0, <1>00, <1>2, <1>4, GpuTouches
  <1>5. CASE Decode
    <2>1. UNCHANGED <<signalled, pool, vmm, ppc, pfence>>
      BY <1>5 DEF Decode, presentVars
    <2>2. CASE UNCHANGED gpu
      BY <2>1, <2>2, <1>00, <1>3
    <2>3. ASSUME NEW q \in BoundQueues, gpu' = [gpu EXCEPT ![q] = Append(@, Work)] PROVE Clean'
      <3>1. q \in Queues /\ Work \notin VkFence
        BY FenceQueue DEF BoundQueues, Work
      <3>2. Once' /\ \A f \in VkFence : Untouched(f) => Untouched(f)'
        BY <3>1, <2>1, <2>3, <1>0, AddTouches
      <3> QED BY <3>2, <2>1, <1>0, <1>00, <1>2
    <2> QED BY <1>5, <2>2, <2>3 DEF Decode
  <1>6. ASSUME NEW s \in Rings, CreateFence(s) PROVE Clean'
    <2>1. UNCHANGED <<gpu, signalled, ppc, pfence>>
      BY <1>6 DEF CreateFence, gpuVars, presentVars
    <2>2. CASE UNCHANGED pool /\ vmm'.fence = None
      BY <2>1, <2>2, <1>00, <1>3
    <2>3. ASSUME NEW f \in VkFence, pool[f] # "out", pool' = TakenOut(f), vmm'.fence = f PROVE Clean'
      <3>1. \A h \in VkFence : Untouched(h)' <=> Untouched(h)
        BY <2>1 DEF Untouched, InFlight
      <3>2. Once'
        BY <2>1, <1>0 DEF Once, InFlight
      <3>3. \A h \in VkFence : pool'[h] # "out" => pool[h] # "out"
        BY <2>3, <1>0, Out
      <3>4. f \in Fence
        BY DEF Fence
      <3> QED BY <3>1, <3>2, <3>3, <3>4, <2>1, <2>3, <1>0, <1>00, <1>1
    <2>4. CASE bound[s] # None
      <3>1. PICK f \in take_fence(bound[s]) : /\ vmm' = [at |-> "took", ring |-> s, fence |-> f]
                                              /\ pool' = IF f = None THEN pool ELSE TakenOut(f)
        BY <1>6, <2>4 DEF CreateFence
      <3>0. bound[s] \in Queues
        BY <2>4, <1>0 DEF RingTypes
      <3>2. f = None \/ (f \in VkFence /\ pool[f] # "out")
        BY <3>0, <1>0, Given
      <3>3. f # None => f \in VkFence /\ pool[f] # "out" /\ pool' = TakenOut(f) /\ vmm'.fence = f
        BY <3>1, <3>2
      <3>4. f = None => UNCHANGED pool /\ vmm'.fence = None
        BY <3>1
      <3> QED BY <3>3, <3>4, <2>2, <2>3
    <2>5. CASE bound[s] = None
      <3>1. UNCHANGED pool /\ vmm'.fence = None
        BY <1>6, <2>5 DEF CreateFence
      <3> QED BY <3>1, <2>2
    <2> QED BY <2>4, <2>5
  <1>7. CASE SubmitFence
    <2>0. PICK s \in Rings, q \in Queues, f \in Fence, g \in Fence : SubmitsAs(s, q, f, g)
      BY <1>7, Submits
    <2>1. vmm'.fence = None /\ UNCHANGED <<ppc, pfence>> /\ f = v /\ (f # None => f \in VkFence /\ f[1] = q)
      BY <2>0, <1>00 DEF SubmitsAs, presentVars, Idle
    <2>2. CASE f # None /\ gpu' = [gpu EXCEPT ![q] = Append(@, f)] /\ UNCHANGED <<pool, signalled>>
      <3>1. Untouched(f) /\ pool[f] = "out" /\ f # p
        BY <2>1, <2>2, <1>00 DEF Clean, Owned
      <3>2. Once' /\ \A h \in VkFence : h # f /\ Untouched(h) => Untouched(h)'
        BY <3>1, <2>1, <2>2, <1>0, AddTouches
      <3>3. \A h \in VkFence : pool'[h] # "out" => Untouched(h)'
        BY <3>1, <3>2, <2>2, <1>0
      <3>4. ppc' = "took" => Untouched(p)'
        BY <3>1, <3>2, <2>1, <1>0, <1>00
      <3>5. PICK n \in Fence : n = None
        BY DEF Fence
      <3>6. vmm'.fence = n /\ pfence' = p
        BY <3>5, <2>1, <1>00
      <3> QED BY <3>2, <3>3, <3>4, <3>5, <3>6, <1>1
    <2>3. CASE f # None /\ put_fence(f) /\ UNCHANGED gpu
      <3>1. Untouched(f)
        BY <2>1, <2>3, <1>00 DEF Clean
      <3>2. Once' /\ Untouched(f)' /\ \A h \in VkFence : Untouched(h) => Untouched(h)'
        BY <3>1, <2>1, <2>3, <1>0, PutTouches DEF Untouched
      <3>3. \A h \in VkFence : pool'[h] # "out" => pool[h] # "out" \/ Untouched(h)'
        BY <3>2, <2>1, <2>3, <1>0, Put
      <3> QED BY <3>2, <3>3, <2>1, <1>00, <1>2
    <2>4. CASE UNCHANGED <<gpu, pool, signalled>>
      BY <2>1, <2>4, <1>00, <1>3
    <2> QED BY <2>0, <2>2, <2>3, <2>4 DEF SubmitsAs
  \* A signalled fence goes back.
  <1>8. ASSUME NEW f \in VkFence, f \in signalled, put_fence(f), UNCHANGED gpu,
               vmm'.fence = None \/ UNCHANGED vmm, ppc' # "took" \/ UNCHANGED <<ppc, pfence>>, pfence' \in {None, p}
        PROVE  Clean'
    <2>1. ~InFlight(f)
      BY <1>0, <1>8 DEF Once
    <2>2. Once' /\ Untouched(f)' /\ \A h \in VkFence : Untouched(h) => Untouched(h)'
      BY <2>1, <1>0, <1>8, PutTouches
    <2>3. \A h \in VkFence : pool'[h] # "out" => pool[h] # "out" \/ Untouched(h)'
      BY <2>2, <1>0, <1>8, Put
    <2> QED BY <2>2, <2>3, <1>2, <1>8
  <1>9. ASSUME NEW s \in Rings, WaitDone(s) PROVE Clean'
    <2>1. /\ hand[s].fence \in signalled /\ put_fence(hand[s].fence)
          /\ UNCHANGED <<gpu, vmm, ppc, pfence>>
      BY <1>9 DEF WaitDone, WaitOver, presentVars
    <2>2. hand[s].fence \in VkFence
      BY <2>1, <1>0 DEF GpuTypes
    <2> QED BY <2>1, <2>2, <1>00, <1>8
  <1>10. CASE PresentTake
    <2>1. PICK q \in left : \E f \in take_fence(q) :
             IF f = None THEN UNCHANGED <<pool, ppc, pfence>> ELSE pool' = TakenOut(f) /\ pfence' = f
      BY <1>10 DEF PresentTake
    <2>2. q \in Queues
      BY DEF Types, PresentTypes
    <2>3. PICK f \in take_fence(q) :
             IF f = None THEN UNCHANGED <<pool, ppc, pfence>> ELSE pool' = TakenOut(f) /\ pfence' = f
      BY <2>1
    <2>4. f = None \/ (f \in VkFence /\ f[1] = q /\ pool[f] # "out")
      BY <2>2, <2>3, <1>0, Given
    <2>5. UNCHANGED <<gpu, signalled, vmm>>
      BY <1>10 DEF PresentTake, gpuVars
    <2>6. CASE f = None
      BY <2>3, <2>5, <2>6, <1>00, <1>3
    <2>7. CASE f # None
      <3>1. f \in VkFence /\ pool[f] # "out" /\ pool' = TakenOut(f) /\ pfence' = f /\ f \in Fence
        BY <2>3, <2>4, <2>7 DEF Fence
      <3>2. \A h \in VkFence : Untouched(h)' <=> Untouched(h)
        BY <2>5 DEF Untouched, InFlight
      <3>3. Once'
        BY <2>5, <1>0 DEF Once, InFlight
      <3>4. \A h \in VkFence : pool'[h] # "out" => pool[h] # "out"
        BY <3>1, <1>0, Out
      <3>5. vmm'.fence = v
        BY <2>5, <1>00
      <3> QED BY <3>1, <3>2, <3>3, <3>4, <3>5, <1>0, <1>00, <1>1
    <2> QED BY <2>6, <2>7
  <1>11. CASE PresentSubmit
    <2>0. ppc = "took" /\ UNCHANGED vmm
      BY <1>11 DEF PresentSubmit
    <2>1. ppc = "took" /\ UNCHANGED vmm /\ p # None /\ p \in VkFence
      BY <2>0, <1>0, <1>00, FenceQueue
    <2>2. CASE gpu' = [gpu EXCEPT ![p[1]] = Append(@, p)] /\ ppc' = "wait" /\ UNCHANGED <<pool, signalled, pfence>>
      <3>1. Untouched(p) /\ pool[p] = "out" /\ p # v /\ p[1] \in Queues
        BY <2>1, <1>0, <1>00, FenceQueue DEF Owned
      <3>2. Once' /\ \A h \in VkFence : h # p /\ Untouched(h) => Untouched(h)'
        BY <3>1, <2>1, <2>2, <1>0, AddTouches
      <3>3. \A h \in VkFence : pool'[h] # "out" => Untouched(h)'
        BY <3>1, <3>2, <2>2, <1>0
      <3>4. v # None => Untouched(v)'
        BY <3>1, <3>2, <1>0, <1>00
      <3>5. vmm'.fence = v /\ pfence' = p
        BY <2>1, <2>2, <1>00
      <3> QED BY <3>2, <3>3, <3>4, <3>5, <2>2, <1>1
    <2>3. CASE put_fence(p) /\ UNCHANGED gpu /\ ppc' = "each" /\ pfence' = None
      <3>1. Untouched(p)
        BY <2>1, <1>0, <1>00
      <3>2. Once' /\ Untouched(p)' /\ \A h \in VkFence : Untouched(h) => Untouched(h)'
        BY <3>1, <2>1, <2>3, <1>0, PutTouches DEF Untouched
      <3>3. \A h \in VkFence : pool'[h] # "out" => pool[h] # "out" \/ Untouched(h)'
        BY <3>2, <2>1, <2>3, <1>0, Put
      <3> QED BY <3>2, <3>3, <2>1, <2>3, <1>2
    <2> QED BY <1>11, <1>00, <2>2, <2>3 DEF PresentSubmit, Submit
  <1>12. CASE PresentWait
    <2>1. ppc = "wait" /\ ppc' = "each" /\ pfence' = None /\ UNCHANGED <<gpu, vmm>> /\ p \in VkFence
      BY <1>12, <1>0, <1>00 DEF PresentWait
    <2>2. CASE p \in signalled /\ put_fence(p)
      BY <2>1, <2>2, <1>8
    <2>3. CASE UNCHANGED <<pool, signalled>>
      BY <2>1, <2>3, <1>3
    <2> QED BY <1>12, <1>00, <2>2, <2>3 DEF PresentWait, LeftOut
  <1>13. CASE UNCHANGED <<gpu, signalled, pool, ppc, pfence>> /\ (vmm'.fence = None \/ UNCHANGED vmm)
    BY <1>13, <1>00, <1>3
  <1>14. CASE RetireUnbound
    BY <1>14, <1>13 DEF RetireUnbound, gpuVars, presentVars, Idle
  <1>15. ASSUME NEW s \in Rings,
               SyncRecv(s) \/ SyncEnd(s) \/ WaitStopped(s) \/ WaitFailed(s) \/ SyncRetire(s) \/ Forget(s)
        PROVE  Clean'
    <2>1. UNCHANGED <<gpu, signalled, pool, vmm, ppc, pfence>>
      BY <1>15 DEF SyncRecv, SyncEnd, WaitStopped, WaitFailed, SyncRetire, Forget, WaitOver,
        LeftOut, gpuVars, presentVars
    <2> QED BY <2>1, <1>13
  <1>16. ASSUME NEW s \in Rings, NEW q \in Queues, Bind(s, q) PROVE Clean'
    BY <1>16, <1>13 DEF Bind, gpuVars, presentVars
  <1>17. CASE JoinSync
    BY <1>17, <1>13 DEF JoinSync, gpuVars, presentVars
  <1>18. CASE UNCHANGED <<gpu, signalled, pool, vmm>>
    <2>1. CASE PresentTake \/ PresentSubmit \/ PresentWait
      BY <2>1, <1>10, <1>11, <1>12
    <2>2. CASE pfence' = pfence /\ (ppc' # "took" \/ ppc' = ppc)
      BY <1>18, <2>2, <1>00, <1>3
    <2>3. \/ PresentTake \/ PresentSubmit \/ PresentWait
          \/ pfence' = pfence /\ (ppc' # "took" \/ ppc' = ppc)
      BY PresentFrame DEF PresentThread, PresentFence, PresentRecv, PresentBarrier, PresentSnapshot,
        PresentRetire, presentVars
    <2> QED BY <2>1, <2>2, <2>3
  <1>19. CASE UNCHANGED <<pool, ringVars, made, answered>> /\ UNCHANGED vmm
    <2>1. UNCHANGED gpuVars => UNCHANGED <<gpu, signalled>>
      BY DEF gpuVars
    <2> QED BY <1>4, <1>5, <1>7, <1>9, <1>11, <1>12, <1>18, <1>19, <2>1, GpuFrame
  <1> QED BY <1>6, <1>7, <1>9, <1>10, <1>11, <1>12, <1>14, <1>15, <1>16, <1>17, <1>19, RingFrame,
    VmmFrame
        DEF Sync, Vmm

-----------------------------------------------------------------------------
(* What is done when a fence is signalled                                  *)

\* The pieces of work among the first n of s.
Counted(s, n) == Cardinality({i \in 1..n : s[i] = Work})

LEMMA CountType == ASSUME NEW s, NEW n \in Nat PROVE Counted(s, n) \in Nat
  <1>1. IsFiniteSet(1..n)
    BY FS_Interval
  <1>2. IsFiniteSet({i \in 1..n : s[i] = Work})
    BY <1>1, FS_Subset
  <1> QED BY <1>2, FS_CardinalityType DEF Counted

LEMMA CountSame ==
  ASSUME NEW s, NEW t, NEW n \in Nat, \A i \in 1..n : t[i] = s[i]
  PROVE  Counted(t, n) = Counted(s, n)
  <1>1. {i \in 1..n : t[i] = Work} = {i \in 1..n : s[i] = Work}
    OBVIOUS
  <1> QED BY <1>1 DEF Counted

\* One more is counted once.
LEMMA CountMore ==
  ASSUME NEW s, NEW n \in Nat
  PROVE  Counted(s, n + 1) = Counted(s, n) + (IF s[n + 1] = Work THEN 1 ELSE 0)
  <1> DEFINE O == {i \in 1..n : s[i] = Work}
             N == {i \in 1..n + 1 : s[i] = Work}
  <1>1. IsFiniteSet(O) /\ Cardinality(O) \in Nat /\ n + 1 \notin O
    <2>1. IsFiniteSet(1..n)
      BY FS_Interval
    <2> QED BY <2>1, FS_Subset, FS_CardinalityType
  <1>2. CASE s[n + 1] = Work
    <2>1. N = O \cup {n + 1}
      BY <1>2
    <2>2. Cardinality(N) = Cardinality(O) + 1
      BY <2>1, <1>1, FS_AddElement
    <2> QED BY <2>2, <1>2 DEF Counted
  <1>3. CASE s[n + 1] # Work
    <2>1. N = O
      BY <1>3
    <2>2. Cardinality(O) = Cardinality(O) + 0
      BY <1>1
    <2> QED BY <2>1, <2>2, <1>3 DEF Counted
  <1> QED BY <1>2, <1>3

\* The one taken from the front is counted no more.
LEMMA CountRest ==
  ASSUME NEW s, NEW t, NEW n \in Nat, \A i \in 1..n : t[i] = s[i + 1]
  PROVE  Counted(s, n + 1) = Counted(t, n) + (IF s[1] = Work THEN 1 ELSE 0)
  <1> DEFINE O == {i \in 1..n + 1 : s[i] = Work}
             N == {i \in 1..n : t[i] = Work}
             f == [i \in N |-> i + 1]
  <1>1. IsFiniteSet(O) /\ IsFiniteSet(N)
    <2>1. IsFiniteSet(1..n) /\ IsFiniteSet(1..n + 1)
      BY FS_Interval
    <2> QED BY <2>1, FS_Subset
  <1>2. f \in Bijection(N, O \ {1})
    <2>1. ASSUME NEW i \in N PROVE i + 1 \in O \ {1} /\ i \in Nat
      OBVIOUS
    <2>2. ASSUME NEW k \in O \ {1} PROVE k - 1 \in N /\ (k - 1) + 1 = k
      OBVIOUS
    <2>3. f \in [N -> O \ {1}]
      BY <2>1
    <2>4. \A i, k \in N : f[i] = f[k] => i = k
      BY <2>1
    <2>5. \A k \in O \ {1} : \E i \in N : f[i] = k
      BY <2>2
    <2> QED BY <2>3, <2>4, <2>5 DEF Bijection, Injection, Surjection, IsInjective
  <1>3. Cardinality(O \ {1}) = Cardinality(N) /\ Cardinality(N) \in Nat /\ Cardinality(O) \in Nat
    <2>1. ExistsBijection(N, O \ {1})
      BY <1>2 DEF ExistsBijection
    <2> QED BY <2>1, <1>1, FS_Bijection, FS_CardinalityType
  <1>4. Cardinality(O \ {1}) = IF 1 \in O THEN Cardinality(O) - 1 ELSE Cardinality(O)
    BY <1>1, FS_RemoveElement
  <1>5. 1 \in O <=> s[1] = Work
    OBVIOUS
  <1>6. Cardinality(O) = Cardinality(N) + (IF s[1] = Work THEN 1 ELSE 0)
    <2> HIDE DEF O, N, f
    <2> QED BY <1>3, <1>4, <1>5
  <1> QED BY <1>6 DEF Counted

\* Where the numbers stand when a queue's first finishes.
LEMMA GpuCounts ==
  ASSUME Types, NEW q \in Queues, Gpu(q)
  PROVE  \E a \in Nat, b \in Nat :
           /\ finished[q] = a /\ finished'[q] = a + b /\ (b = IF gpu[q][1] = Work THEN 1 ELSE 0)
           /\ \A n \in Nat : n <= Len(gpu'[q]) => Counted(gpu[q], n + 1) = Counted(gpu'[q], n) + b
           /\ \A p \in Queues : p # q => finished'[p] = finished[p]
           /\ sent' = sent
  <1>0. GpuTypes
    BY DEF Types
  <1>1. /\ Len(gpu[q]) \in Nat \ {0} /\ Len(gpu'[q]) = Len(gpu[q]) - 1
        /\ \A i \in 1..Len(gpu'[q]) : gpu'[q][i] = gpu[q][i + 1]
        /\ Head(gpu[q]) = gpu[q][1]
    BY <1>0, Finished
  <1>2. PICK s, t : s = gpu[q] /\ t = gpu'[q]
    OBVIOUS
  <1>3. PICK a \in Nat : finished[q] = a
    BY <1>0 DEF GpuTypes
  <1>4. PICK b \in Nat : b = IF s[1] = Work THEN 1 ELSE 0
    OBVIOUS
  <1>5. finished'[q] = a + b /\ \A p \in Queues : p # q => finished'[p] = finished[p]
    <2>1. finished \in [Queues -> Nat]
      BY <1>0 DEF GpuTypes
    <2>2. CASE s[1] = Work
      <3>1. finished' = [finished EXCEPT ![q] = @ + 1]
        BY <2>2, <1>1, <1>2 DEF Gpu
      <3> QED BY <3>1, <2>1, <2>2, <1>3, <1>4
    <2>3. CASE s[1] # Work
      <3>1. finished' = finished
        BY <2>3, <1>1, <1>2 DEF Gpu
      <3> QED BY <3>1, <2>3, <1>3, <1>4
    <2> QED BY <2>2, <2>3
  <1>6. ASSUME NEW n \in Nat, n <= Len(t) PROVE Counted(s, n + 1) = Counted(t, n) + b
    <2>1. \A i \in 1..n : t[i] = s[i + 1]
      BY <1>1, <1>2, <1>6
    <2> QED BY <2>1, <1>4, CountRest
  <1>7. sent' = sent
    BY DEF Gpu
  <1> QED BY <1>2, <1>3, <1>4, <1>5, <1>6, <1>7

\* A queue's first finishes: what a fence stood for it still stands for.
LEMMA GpuStands ==
  ASSUME Types, NEW q \in Queues, Gpu(q), NEW f \in VkFence, NEW k \in Nat, StandsFor(f, k)
  PROVE  StandsFor(f, k)'
  <1>0. GpuTypes
    BY DEF Types
  <1>1. /\ \A p \in Queues : p # q => gpu'[p] = gpu[p]
        /\ Len(gpu[q]) \in Nat \ {0} /\ Len(gpu'[q]) = Len(gpu[q]) - 1
        /\ \A i \in 1..Len(gpu'[q]) : gpu'[q][i] = gpu[q][i + 1]
        /\ gpu[q][1] \in {Work} \cup VkFence /\ (gpu[q][1] # Work => gpu[q][1][1] = q)
        /\ Head(gpu[q]) = gpu[q][1]
    BY <1>0, Finished
  <1>2. PICK s, t : s = gpu[q] /\ t = gpu'[q]
    OBVIOUS
  <1>3. PICK a \in Nat, b \in Nat :
           /\ finished[q] = a /\ finished'[q] = a + b /\ (b = IF s[1] = Work THEN 1 ELSE 0)
           /\ \A n \in Nat : n <= Len(t) => Counted(s, n + 1) = Counted(t, n) + b
           /\ \A p \in Queues : p # q => finished'[p] = finished[p]
    BY <1>2, GpuCounts
  <1>4. signalled' = signalled \/ (s[1] # Work /\ signalled' = signalled \cup {s[1]})
    BY <1>1, <1>2 DEF Gpu
  <1>5. CASE f[1] # q
    <2>1. f[1] \in Queues
      BY FenceQueue
    <2>2. f \in signalled' => f \in signalled
      BY <1>1, <1>2, <1>4, <1>5
    <2> QED BY <2>1, <2>2, <1>1, <1>3, <1>5, SMTT(60) DEF StandsFor, Ahead
  <1>6. CASE f[1] = q
    <2>1. f \in signalled => k <= a
      BY <1>3, <1>6 DEF StandsFor
    <2>2. \A i \in 1..Len(s) : s[i] = f => k <= a + Counted(s, i)
      BY <1>2, <1>3, <1>6 DEF StandsFor, Ahead, Counted
    <2>3. Len(s) \in Nat \ {0} /\ Len(t) = Len(s) - 1
      BY <1>1, <1>2
    <2>4. f \in signalled' => k <= a + b
      <3>1. CASE f \in signalled
        BY <3>1, <2>1
      <3>2. CASE f = s[1] /\ s[1] # Work
        <4>1. 1 \in 1..Len(s)
          BY <2>3
        <4>2. k <= a + Counted(s, 1)
          BY <4>1, <3>2, <2>2
        <4>3. Counted(s, 1) = 0
          <5>1. {i \in 1..1 : s[i] = Work} = {}
            BY <3>2
          <5> QED BY <5>1, FS_EmptySet DEF Counted
        <4> QED BY <4>2, <4>3
      <3> QED BY <3>1, <3>2, <1>4
    <2>5. ASSUME NEW i \in 1..Len(t), t[i] = f PROVE k <= (a + b) + Counted(t, i)
      <3>1. i \in Nat /\ i <= Len(t) /\ i + 1 \in 1..Len(s)
        BY <2>3
      <3>2. s[i + 1] = f
        BY <1>1, <1>2, <2>5
      <3>3. k <= a + Counted(s, i + 1)
        BY <3>1, <3>2, <2>2
      <3>4. Counted(s, i + 1) = Counted(t, i) + b
        BY <3>1, <1>3
      <3>5. Counted(t, i) \in Nat
        BY <3>1, CountType
      <3> QED BY <3>3, <3>4, <3>5
    <2> QED BY <2>4, <2>5, <1>2, <1>3, <1>6 DEF StandsFor, Ahead, Counted
  <1> QED BY <1>5, <1>6

\* More goes behind what a queue has: the fences ahead of it stand for what they did.
LEMMA AddStands ==
  ASSUME Types, NEW q \in Queues, NEW e \in {Work} \cup VkFence, e # Work => e[1] = q,
         gpu' = [gpu EXCEPT ![q] = Append(@, e)], UNCHANGED <<signalled, finished>>,
         NEW f \in VkFence, f # e, NEW k \in Nat, StandsFor(f, k)
  PROVE  StandsFor(f, k)'
  <1>0. GpuTypes
    BY DEF Types
  <1>1. /\ \A p \in Queues : p # q => gpu'[p] = gpu[p]
        /\ Len(gpu[q]) \in Nat /\ Len(gpu'[q]) = Len(gpu[q]) + 1
        /\ \A i \in 1..Len(gpu[q]) : gpu'[q][i] = gpu[q][i]
        /\ gpu'[q][Len(gpu[q]) + 1] = e
    BY <1>0, Given2
  <1>2. CASE f[1] # q
    <2>1. f[1] \in Queues
      BY FenceQueue
    <2> QED BY <2>1, <1>1, <1>2 DEF StandsFor, Ahead
  <1>3. CASE f[1] = q
    <2>1. PICK s, t : s = gpu[q] /\ t = gpu'[q]
      OBVIOUS
    <2>2. PICK n \in Nat : n = Len(s)
      BY <1>1, <2>1
    <2>3. ASSUME NEW i \in 1..n + 1, t[i] = f PROVE i \in 1..n /\ s[i] = f /\ Counted(t, i) = Counted(s, i)
      <3>1. i \in 1..n /\ s[i] = f
        BY <1>1, <2>1, <2>2, <2>3
      <3>2. i \in Nat /\ \A j \in 1..i : t[j] = s[j]
        BY <3>1, <1>1, <2>1, <2>2
      <3> QED BY <3>1, <3>2, CountSame
    <2>4. \A i \in 1..n : s[i] = f => k <= finished[q] + Counted(s, i)
      BY <1>3, <2>1, <2>2 DEF StandsFor, Ahead, Counted
    <2>5. PICK a : a = finished[q]
      OBVIOUS
    <2>6. \A i \in 1..n + 1 : t[i] = f => k <= a + Counted(t, i)
      BY <2>3, <2>4, <2>5
    <2>7. finished'[q] = a /\ Len(t) = n + 1
      BY <1>1, <2>1, <2>2, <2>5
    <2>8. f \in signalled => k <= a
      BY <1>3, <2>5 DEF StandsFor
    <2> QED BY <1>3, <2>1, <2>6, <2>7, <2>8 DEF StandsFor, Ahead, Counted
  <1> QED BY <1>2, <1>3

\* A new fence stands for all its queue was given.
LEMMA NewStands ==
  ASSUME Types, NEW f \in VkFence, Untouched(f), gpu' = [gpu EXCEPT ![f[1]] = Append(@, f)],
         UNCHANGED <<signalled, finished>>,
         NEW k \in Nat, k <= sent[f[1]], sent[f[1]] = finished[f[1]] + Ahead(f[1], Len(gpu[f[1]]))
  PROVE  StandsFor(f, k)'
  <1>0. GpuTypes
    BY DEF Types
  <1>1. PICK q \in Queues : q = f[1]
    BY FenceQueue
  <1>2. /\ Len(gpu[q]) \in Nat /\ Len(gpu'[q]) = Len(gpu[q]) + 1
        /\ \A i \in 1..Len(gpu[q]) : gpu'[q][i] = gpu[q][i]
        /\ gpu'[q][Len(gpu[q]) + 1] = f
    <2>1. f # Work => f[1] = q
      BY <1>1
    <2>2. gpu' = [gpu EXCEPT ![q] = Append(@, f)]
      BY <1>1
    <2> QED BY <1>0, <2>1, <2>2, Given2
  <1>3. PICK s, t, a : s = gpu[q] /\ t = gpu'[q] /\ a = finished[q]
    OBVIOUS
  <1>4. PICK n \in Nat : n = Len(s)
    BY <1>2, <1>3
  <1>5. \A i \in 1..n : s[i] # f
    BY <1>1, <1>3, <1>4 DEF Untouched, InFlight
  <1>6. \A i \in 1..n + 1 : i \in 1..n \/ i = n + 1
    OBVIOUS
  <1>7. ASSUME NEW i \in 1..n + 1, t[i] = f PROVE k <= a + Counted(t, i)
    <2>1. i = n + 1
      BY <1>2, <1>3, <1>4, <1>5, <1>6, <1>7
    <2>2. Counted(t, n + 1) = Counted(t, n) + (IF t[n + 1] = Work THEN 1 ELSE 0)
      BY CountMore
    <2>3. Counted(t, n) = Counted(s, n)
      <3>1. \A j \in 1..n : t[j] = s[j]
        BY <1>2, <1>3, <1>4
      <3> QED BY <3>1, CountSame
    <2>4. t[n + 1] # Work
      BY <2>1, <1>7, FenceQueue DEF Work
    <2>5. Counted(s, n) \in Nat
      BY CountType
    <2>6. k <= a + Counted(s, n)
      <3>1. a + Counted(s, n) = sent[q]
        BY <1>1, <1>3, <1>4 DEF Ahead, Counted
      <3> QED BY <3>1, <1>1
    <2> QED BY <2>1, <2>2, <2>3, <2>4, <2>5, <2>6
  <1>8. finished'[q] = a /\ Len(t) = n + 1
    BY <1>2, <1>3, <1>4
  <1>9. f \notin signalled'
    BY DEF Untouched
  <1> QED BY <1>1, <1>3, <1>7, <1>8, <1>9 DEF StandsFor, Ahead, Counted

\* A step gives what a queue already had, or the fence it submits, nothing to undo: what a
\* fence stood for it stands for, unless it is the one submitted.
LEMMA StandsKept ==
  ASSUME Types, Bindings, Owned, Next, NEW f \in VkFence, NEW k \in Nat, StandsFor(f, k),
         SubmitFence => f # vmm.fence, PresentSubmit => f # pfence
  PROVE  StandsFor(f, k)'
  <1>0. RingTypes /\ GpuTypes /\ PresentTypes
    BY DEF Types
  <1>1. CASE UNCHANGED <<gpu, finished>> /\ signalled' \subseteq signalled
    BY <1>1 DEF StandsFor, Ahead
  <1>2. ASSUME NEW q \in Queues, Gpu(q) PROVE StandsFor(f, k)'
    BY <1>2, GpuStands
  <1>3. CASE Decode
    <2>1. UNCHANGED <<signalled, finished>>
      BY <1>3 DEF Decode
    <2>2. CASE UNCHANGED gpu
      BY <2>1, <2>2, <1>1
    <2>3. ASSUME NEW q \in BoundQueues, gpu' = [gpu EXCEPT ![q] = Append(@, Work)] PROVE StandsFor(f, k)'
      <3>1. q \in Queues /\ f # Work
        BY FenceQueue DEF BoundQueues, Work
      <3> QED BY <3>1, <2>1, <2>3, AddStands
    <2> QED BY <1>3, <2>2, <2>3 DEF Decode
  <1>4. CASE SubmitFence
    <2>1. PICK s \in Rings, q \in Queues, h \in Fence, g \in Fence : SubmitsAs(s, q, h, g)
      BY <1>4, Submits
    <2>2. f # h /\ finished' = finished
      BY <1>4, <2>1 DEF SubmitsAs
    <2>3. CASE h # None /\ gpu' = [gpu EXCEPT ![q] = Append(@, h)] /\ UNCHANGED signalled
      <3>1. h \in VkFence /\ h[1] = q
        BY <2>1, <2>3 DEF SubmitsAs
      <3> QED BY <3>1, <2>2, <2>3, AddStands
    <2>4. CASE h # None /\ put_fence(h) /\ UNCHANGED gpu
      <3>1. h \in VkFence
        BY <2>1, <2>4 DEF SubmitsAs
      <3>2. signalled' \subseteq signalled
        BY <3>1, <2>4, <1>0, Put
      <3> QED BY <3>2, <2>2, <2>4, <1>1
    <2>5. CASE UNCHANGED <<gpu, signalled>>
      BY <2>2, <2>5, <1>1
    <2> QED BY <2>1, <2>3, <2>4, <2>5 DEF SubmitsAs
  <1>5. CASE PresentSubmit
    <2>1. pfence \in VkFence /\ f # pfence /\ finished' = finished
      BY <1>5, <1>0 DEF PresentSubmit, PresentTypes, Fence
    <2>2. CASE gpu' = [gpu EXCEPT ![pfence[1]] = Append(@, pfence)] /\ UNCHANGED signalled
      BY <2>1, <2>2, FenceQueue, AddStands
    <2>3. CASE put_fence(pfence) /\ UNCHANGED gpu
      <3>1. signalled' \subseteq signalled
        BY <2>1, <2>3, <1>0, Put
      <3> QED BY <3>1, <2>1, <2>3, <1>1
    <2> QED BY <1>5, <2>2, <2>3 DEF PresentSubmit, Submit
  <1>6. CASE PresentWait
    <2>1. pfence \in VkFence /\ UNCHANGED <<gpu, finished>>
      BY <1>6, <1>0 DEF PresentWait, PresentTypes, Fence
    <2>2. signalled' \subseteq signalled
      <3>1. CASE put_fence(pfence)
        BY <3>1, <2>1, <1>0, Put
      <3> QED BY <3>1, <1>6 DEF PresentWait
    <2> QED BY <2>1, <2>2, <1>1
  <1>7. ASSUME NEW s \in Rings, WaitDone(s) PROVE StandsFor(f, k)'
    <2>1. hand[s].fence \in VkFence /\ put_fence(hand[s].fence) /\ UNCHANGED <<gpu, finished>>
      BY <1>7, <1>0 DEF WaitDone, WaitOver, GpuTypes
    <2>2. signalled' \subseteq signalled
      BY <2>1, <1>0, Put
    <2> QED BY <2>1, <2>2, <1>1
  <1>8. CASE UNCHANGED gpuVars
    BY <1>8, <1>1 DEF gpuVars
  <1> QED BY <1>2, <1>3, <1>4, <1>5, <1>6, <1>7, <1>8, GpuFrame

\* What a queue was given is what it has finished and what it has still to do.
SentIs(q) == sent[q] = finished[q] + Ahead(q, Len(gpu[q]))

\* More is given: to one queue, work or a fence.
LEMMA AddSent ==
  ASSUME Types, NEW q \in Queues, NEW e \in {Work} \cup VkFence, e # Work => e[1] = q,
         gpu' = [gpu EXCEPT ![q] = Append(@, e)], UNCHANGED finished,
         sent' = IF e = Work THEN [sent EXCEPT ![q] = @ + 1] ELSE sent,
         NEW p \in Queues, SentIs(p)
  PROVE  SentIs(p)'
  <1>0. GpuTypes
    BY DEF Types
  <1>1. /\ p # q => gpu'[p] = gpu[p]
        /\ Len(gpu[q]) \in Nat /\ Len(gpu'[q]) = Len(gpu[q]) + 1
        /\ \A i \in 1..Len(gpu[q]) : gpu'[q][i] = gpu[q][i]
        /\ gpu'[q][Len(gpu[q]) + 1] = e
    BY <1>0, Given2
  <1>2. CASE p # q
    <2>1. sent'[p] = sent[p]
      BY <1>2, <1>0 DEF GpuTypes
    <2> QED BY <2>1, <1>1, <1>2 DEF SentIs, Ahead
  <1>3. CASE p = q
    <2>0. PICK a \in Nat : a = finished[q]
      BY <1>0 DEF GpuTypes
    <2>00. PICK s, t : s = gpu[q] /\ t = gpu'[q]
      OBVIOUS
    <2>1. s = gpu[q] /\ t = gpu'[q] /\ a = finished[q]
      BY <2>0, <2>00
    <2>2. PICK n \in Nat : n = Len(s)
      BY <1>1, <2>1
    <2>3. Counted(t, n + 1) = Counted(s, n) + (IF e = Work THEN 1 ELSE 0)
      <3>1. \A i \in 1..n : t[i] = s[i]
        BY <1>1, <2>1, <2>2
      <3>2. t[n + 1] = e
        BY <1>1, <2>1, <2>2
      <3> QED BY <3>1, <3>2, CountSame, CountMore
    <2>4. PICK c \in Nat : c = Counted(s, n)
      BY CountType
    <2>5. sent[q] = a + c
      BY <1>3, <2>1, <2>2, <2>4 DEF SentIs, Ahead, Counted
    <2>6. sent'[q] = a + (c + (IF e = Work THEN 1 ELSE 0))
      <3>1. CASE e = Work
        BY <3>1, <2>5, <1>0 DEF GpuTypes
      <3>2. CASE e # Work
        BY <3>2, <2>5
      <3> QED BY <3>1, <3>2
    <2>7. finished'[q] = a /\ Len(t) = n + 1
      BY <1>1, <2>1, <2>2
    <2>8. sent'[q] = a + Counted(t, n + 1)
      BY <2>3, <2>4, <2>6
    <2> QED BY <1>3, <2>1, <2>7, <2>8 DEF SentIs, Ahead, Counted
  <1> QED BY <1>2, <1>3

LEMMA SentKept == ASSUME Types, Bindings, Owned, Next, NEW p \in Queues, SentIs(p) PROVE SentIs(p)'
  <1>0. RingTypes /\ GpuTypes /\ PresentTypes
    BY DEF Types
  <1>1. CASE UNCHANGED <<gpu, finished, sent>>
    BY <1>1 DEF SentIs, Ahead
  <1>2. ASSUME NEW q \in Queues, Gpu(q) PROVE SentIs(p)'
    <2>1. PICK a \in Nat, b \in Nat :
             /\ finished[q] = a /\ finished'[q] = a + b
             /\ \A n \in Nat : n <= Len(gpu'[q]) => Counted(gpu[q], n + 1) = Counted(gpu'[q], n) + b
             /\ \A r \in Queues : r # q => finished'[r] = finished[r]
             /\ sent' = sent
      BY <1>2, GpuCounts
    <2>2. /\ p # q => gpu'[p] = gpu[p]
          /\ Len(gpu[q]) \in Nat \ {0} /\ Len(gpu'[q]) = Len(gpu[q]) - 1
      BY <1>0, <1>2, Finished
    <2>3. CASE p # q
      BY <2>1, <2>2, <2>3 DEF SentIs, Ahead
    <2>4. CASE p = q
      <3>1. PICK s, t : s = gpu[q] /\ t = gpu'[q]
        OBVIOUS
      <3>2. PICK n \in Nat : n = Len(t) /\ Len(s) = n + 1
        BY <2>2, <3>1, SMTT(60)
      <3>3. Counted(s, n + 1) = Counted(t, n) + b /\ Counted(t, n) \in Nat
        BY <2>1, <3>1, <3>2, CountType
      <3>4. sent[q] = a + Counted(s, n + 1)
        BY <2>1, <2>4, <3>1, <3>2 DEF SentIs, Ahead, Counted
      <3>5. sent[q] = (a + b) + Counted(t, n)
        BY <3>3, <3>4
      <3> QED BY <2>1, <2>4, <3>1, <3>2, <3>5 DEF SentIs, Ahead, Counted
    <2> QED BY <2>3, <2>4
  <1>3. CASE Decode
    <2>1. UNCHANGED finished
      BY <1>3 DEF Decode
    <2>2. CASE UNCHANGED <<gpu, sent>>
      BY <2>1, <2>2, <1>1
    <2>3. ASSUME NEW q \in BoundQueues, gpu' = [gpu EXCEPT ![q] = Append(@, Work)],
                 sent' = [sent EXCEPT ![q] = @ + 1]
          PROVE  SentIs(p)'
      <3>1. q \in Queues
        BY DEF BoundQueues
      <3> QED BY <3>1, <2>1, <2>3, AddSent
    <2> QED BY <1>3, <2>2, <2>3 DEF Decode
  <1>4. CASE SubmitFence
    <2>1. PICK s \in Rings, q \in Queues, h \in Fence, g \in Fence : SubmitsAs(s, q, h, g)
      BY <1>4, Submits
    <2>2. UNCHANGED <<sent, finished>>
      BY <2>1 DEF SubmitsAs
    <2>3. CASE h # None /\ gpu' = [gpu EXCEPT ![q] = Append(@, h)]
      <3>1. h \in VkFence /\ h[1] = q /\ h # Work
        BY <2>1, <2>3 DEF SubmitsAs, Work
      <3> QED BY <3>1, <2>2, <2>3, AddSent
    <2>4. CASE UNCHANGED gpu
      BY <2>2, <2>4, <1>1
    <2> QED BY <2>1, <2>3, <2>4 DEF SubmitsAs
  <1>5. CASE PresentSubmit
    <2>1. pfence \in VkFence /\ UNCHANGED <<sent, finished>>
      BY <1>5, <1>0 DEF PresentSubmit, PresentTypes, Fence
    <2>2. CASE gpu' = [gpu EXCEPT ![pfence[1]] = Append(@, pfence)]
      <3>1. pfence # Work /\ pfence[1] \in Queues
        BY <2>1, FenceQueue DEF Work
      <3> QED BY <3>1, <2>1, <2>2, AddSent
    <2>3. CASE UNCHANGED gpu
      BY <2>1, <2>3, <1>1
    <2> QED BY <1>5, <2>2, <2>3 DEF PresentSubmit, Submit
  <1>6. CASE PresentWait \/ (\E s \in Rings : WaitDone(s)) \/ UNCHANGED gpuVars
    BY <1>6, <1>1 DEF PresentWait, WaitDone, WaitOver, gpuVars
  <1> QED BY <1>2, <1>3, <1>4, <1>5, <1>6, GpuFrame

\* Nothing a queue has finished or was given is taken back.
LEMMA Grows ==
  ASSUME Types, Next, NEW q \in Queues, NEW k \in Nat
  PROVE  (k <= finished[q] => k <= finished'[q]) /\ (k <= sent[q] => k <= sent'[q])
  <1>0. finished \in [Queues -> Nat] /\ sent \in [Queues -> Nat]
    BY DEF Types, GpuTypes
  <1>1. CASE UNCHANGED <<finished, sent>>
    BY <1>1
  <1>2. ASSUME NEW p \in Queues, Gpu(p) PROVE k <= finished[q] => k <= finished'[q]
    <2>1. finished' = finished \/ finished' = [finished EXCEPT ![p] = @ + 1]
      BY <1>2 DEF Gpu
    <2>2. finished'[q] = finished[q] \/ finished'[q] = finished[q] + 1
      BY <2>1, <1>0
    <2>3. finished[q] \in Nat
      BY <1>0
    <2> QED BY <2>2, <2>3
  <1>3. ASSUME NEW p \in Queues, Gpu(p) PROVE sent' = sent
    BY <1>3 DEF Gpu
  <1>4. CASE Decode
    <2>1. finished' = finished /\ (sent' = sent \/ \E p \in BoundQueues : sent' = [sent EXCEPT ![p] = @ + 1])
      BY <1>4 DEF Decode
    <2> QED BY <2>1, <1>0
  <1>5. SubmitFence \/ PresentSubmit \/ PresentWait \/ (\E s \in Rings : WaitDone(s)) \/ UNCHANGED gpuVars
          => UNCHANGED <<finished, sent>>
    BY DEF SubmitFence, PresentSubmit, PresentWait, WaitDone, WaitOver, gpuVars
  <1> QED BY <1>1, <1>2, <1>3, <1>4, <1>5, GpuFrame

-----------------------------------------------------------------------------
(* What a job covers                                                       *)

LEMMA CoversStart == Init => Covers
  <1> SUFFICES ASSUME Init PROVE Covers
    OBVIOUS
  <1>1. /\ \A q \in Queues : gpu[q] = <<>> /\ sent[q] = 0 /\ finished[q] = 0
        /\ \A r \in Rings : jobs[r] = <<>> /\ sync[r] = "off"
    BY DEF Init
  <1>2. \A r \in Rings : \A i \in Places(r) : At(r, i) = None
    BY <1>1 DEF Places, At
  <1>3. ASSUME NEW q \in Queues PROVE sent[q] = finished[q] + Ahead(q, Len(gpu[q]))
    <2>1. {i \in 1..Len(gpu[q]) : gpu[q][i] = Work} = {}
      BY <1>1
    <2>2. Ahead(q, Len(gpu[q])) = 0
      BY <2>1, FS_EmptySet DEF Ahead
    <2> QED BY <2>2, <1>1
  <1>4. \A r \in Rings : \A i \in 1..Len(jobs[r]) : jobs[r][i].how = "never"
    BY <1>1
  <1>5. Ordered /\ StoppedByItsEnd
    BY <1>1 DEF Ordered, StoppedByItsEnd
  <1> QED BY <1>2, <1>3, <1>4, <1>5 DEF Covers

\* The parts of Covers.
Stands == \A r \in Rings : \A i \in Places(r) : At(r, i) # None => StandsFor(At(r, i), Cover(r, i))
NeverYet == \A r \in Rings : \A i \in 1..Len(jobs[r]) : jobs[r][i].how = "never"

\* What has a fence now had it before, with what it covers, or is the job being sent.
LEMMA Places2 ==
  ASSUME Types, Bindings, Owned, Next, NEW r \in Rings, NEW i \in Places(r)', At(r, i)' # None
  PROVE  \/ \E j \in Places(r) : At(r, i)' = At(r, j) /\ Cover(r, i)' = Cover(r, j)
         \/ /\ SubmitFence /\ bound[r] \in Queues /\ At(r, i)' = vmm.fence /\ Cover(r, i)' = sent[bound[r]]
            /\ gpu' = [gpu EXCEPT ![bound[r]] = Append(@, vmm.fence)] /\ UNCHANGED <<signalled, finished>>
            /\ vmm.fence \in VkFence /\ vmm.fence[1] = bound[r]
  <1>0. /\ jobs \in [Rings -> Seq(Job)] /\ hand \in [Rings -> Job]
        /\ sync \in [Rings -> {"off", "recv", "wait", "retire", "gone"}] /\ Len(jobs[r]) \in Nat
        /\ jobs[r] \in Seq(Job)
    BY PlaceTypes DEF Types, RingTypes
  <1>1. CASE /\ jobs'[r] = jobs[r] /\ hand'[r].fence = hand[r].fence /\ hand'[r].cover = hand[r].cover
             /\ sync'[r] = "wait" => sync[r] = "wait"
    <2>1. i \in Places(r)
      BY <1>1 DEF Places
    <2>2. At(r, i)' = At(r, i) /\ Cover(r, i)' = Cover(r, i)
      BY <1>1 DEF At, Cover
    <2> QED BY <2>1, <2>2
  <1>2. CASE jobs'[r] = jobs[r] /\ sync'[r] # "wait"
    <2>1. i # 0 /\ i \in Places(r)
      BY <1>2 DEF At, Places
    <2>2. At(r, i)' = At(r, i) /\ Cover(r, i)' = Cover(r, i)
      BY <1>2, <2>1 DEF At, Cover
    <2> QED BY <2>1, <2>2
  <1>3. CASE SyncRecv(r)
    <2>1. jobs[r] # <<>> /\ hand'[r] = Head(jobs[r]) /\ jobs'[r] = Tail(jobs[r])
      BY <1>3, <1>0 DEF SyncRecv, Receives
    <2>2. /\ Len(jobs[r]) \in Nat \ {0} /\ Len(jobs'[r]) = Len(jobs[r]) - 1 /\ hand'[r] = jobs[r][1]
          /\ \A n \in 1..Len(jobs'[r]) : jobs'[r][n] = jobs[r][n + 1]
      BY <2>1, <1>0, Taken
    <2>3. i + 1 \in Places(r) /\ i + 1 # 0 /\ (i = 0 \/ i \in 1..Len(jobs'[r]))
      BY <2>2 DEF Places
    <2>4. CASE i = 0
      BY <2>2, <2>3, <2>4 DEF At, Cover
    <2>5. CASE i \in 1..Len(jobs'[r])
      <3>1. i # 0 /\ jobs'[r][i] = jobs[r][i + 1]
        BY <2>2, <2>5
      <3> QED BY <3>1, <2>3 DEF At, Cover
    <2> QED BY <2>3, <2>4, <2>5
  <1>4. CASE SubmitFence
    <2>0. PICK s \in Rings, q \in Queues, h \in Fence, g \in Fence : SubmitsAs(s, q, h, g)
      BY <1>4, Submits
    <2> DEFINE j == [seqno |-> made[s], fence |-> g, cover |-> sent[q], how |-> "never"]
    <2>1. /\ jobs' = [jobs EXCEPT ![s] = Append(@, j)] /\ UNCHANGED <<sync, hand, finished>>
          /\ q = bound[s] /\ h = vmm.fence
      BY <2>0 DEF SubmitsAs
    <2>2. CASE s # r
      <3>1. jobs'[r] = jobs[r]
        BY <2>1, <2>2, <1>0
      <3> QED BY <3>1, <2>1, <1>1
    <2>3. CASE s = r
      <3>1. j \in Job /\ j.fence = g /\ j.cover = sent[q]
        <4>1. made[s] \in Nat /\ sent[q] \in Nat
          <5>1. made \in [Rings -> 0..MaxFences] /\ sent \in [Queues -> Nat] /\ MaxFences \in Nat
            BY QueueConstants DEF Types, RingTypes, GpuTypes
          <5>2. made[s] \in 0..MaxFences
            BY <5>1
          <5> QED BY <5>1, <5>2
        <4> QED BY <4>1 DEF Job
      <3> HIDE DEF j
      <3>2. jobs'[r] = Append(jobs[r], j)
        BY <2>1, <2>3, <1>0
      <3>3. /\ Len(jobs'[r]) = Len(jobs[r]) + 1 /\ jobs'[r][Len(jobs[r]) + 1] = j
            /\ \A n \in 1..Len(jobs[r]) : jobs'[r][n] = jobs[r][n]
        BY <3>1, <3>2, <1>0, Added
      <3>4. i = 0 \/ i \in 1..Len(jobs[r]) \/ i = Len(jobs[r]) + 1
        BY <3>3, <1>0 DEF Places
      <3>5. CASE i = 0
        <4>1. i \in Places(r)
          BY <3>5, <1>0 DEF Places
        <4>2. At(r, i)' = At(r, i) /\ Cover(r, i)' = Cover(r, i)
          BY <3>5, <2>1 DEF At, Cover
        <4> QED BY <4>1, <4>2
      <3>6. CASE i \in 1..Len(jobs[r])
        <4>1. i \in Places(r) /\ i # 0 /\ jobs'[r][i] = jobs[r][i]
          BY <3>6, <3>3, <1>0 DEF Places
        <4>2. At(r, i)' = At(r, i) /\ Cover(r, i)' = Cover(r, i)
          BY <4>1 DEF At, Cover
        <4> QED BY <4>1, <4>2
      <3>7. CASE i = Len(jobs[r]) + 1
        <4>1. i # 0 /\ jobs'[r][i] = j
          BY <3>7, <3>3, <1>0
        <4>2. At(r, i)' = g /\ Cover(r, i)' = sent[q]
          BY <4>1, <3>1 DEF At, Cover
        <4>3. g # None
          BY <4>2
        <4>4. /\ g = h /\ gpu' = [gpu EXCEPT ![q] = Append(@, h)] /\ UNCHANGED signalled
              /\ h \in VkFence /\ h[1] = q
          BY <4>3, <2>0 DEF SubmitsAs
        <4> QED BY <4>2, <4>4, <2>1, <2>3, <1>4
      <3> QED BY <3>4, <3>5, <3>6, <3>7
    <2> QED BY <2>2, <2>3
  <1>5. ASSUME NEW s \in Rings, Sync(s), s # r \/ ~SyncRecv(s)
        PROVE  jobs'[r] = jobs[r] /\ (sync'[r] # "wait" \/ (hand'[r] = hand[r] /\ sync'[r] = sync[r]))
    <2>1. CASE s # r
      BY <1>5, <2>1, <1>0 DEF Sync, SyncRecv, SyncEnd, WaitDone, WaitStopped, WaitFailed, WaitOver,
        SyncRetire
    <2>2. CASE s = r
      BY <1>5, <2>2, <1>0 DEF Sync, SyncEnd, WaitDone, WaitStopped, WaitFailed, WaitOver, SyncRetire
    <2> QED BY <2>1, <2>2
  <1>6. ASSUME NEW s \in Rings, NEW q \in Queues, Bind(s, q)
        PROVE  UNCHANGED <<jobs, hand>> /\ (sync'[r] = "wait" => sync[r] = "wait")
    BY <1>6, <1>0 DEF Bind
  <1>7. JoinSync => UNCHANGED <<jobs, hand>> /\ (sync'[r] = "wait" => sync[r] = "wait")
    BY <1>0 DEF JoinSync
  <1>8. ASSUME NEW s \in Rings, CreateFence(s) \/ Forget(s) PROVE UNCHANGED <<jobs, hand, sync>>
    BY <1>8 DEF CreateFence, Forget, ringVars
  <1>9. RetireUnbound \/ PresentTake \/ PresentSubmit \/ PresentWait \/ UNCHANGED <<pool, ringVars, made, answered>>
          => UNCHANGED <<jobs, hand, sync>>
    BY DEF RetireUnbound, PresentTake, PresentSubmit, PresentWait, ringVars
  <1> QED BY <1>1, <1>2, <1>3, <1>4, <1>5, <1>6, <1>7, <1>8, <1>9, RingFrame

LEMMA StandsPlaces ==
  ASSUME Types, Bindings, Owned, Clean, Covers, Next PROVE Stands'
  <1> SUFFICES ASSUME NEW r \in Rings, NEW i \in Places(r)', At(r, i)' # None
               PROVE  StandsFor(At(r, i), Cover(r, i))'
    BY DEF Stands
  <1>1. CASE \E j \in Places(r) : At(r, i)' = At(r, j) /\ Cover(r, i)' = Cover(r, j)
    <2>1. PICK j \in Places(r) : At(r, i)' = At(r, j) /\ Cover(r, i)' = Cover(r, j)
      BY <1>1
    <2>2. PICK f, k : f = At(r, j) /\ k = Cover(r, j)
      OBVIOUS
    <2>3. f \in VkFence /\ k \in Nat
      BY <2>1, <2>2, PlaceTypes DEF Fence
    <2>4. StandsFor(f, k)
      BY <2>1, <2>2 DEF Covers
    <2>5. f # vmm.fence /\ f # pfence
      BY <2>1, <2>2 DEF Owned
    <2>6. StandsFor(f, k)'
      BY <2>3, <2>4, <2>5, StandsKept
    <2> QED BY <2>1, <2>2, <2>6 DEF StandsFor, Ahead
  <1>2. CASE /\ SubmitFence /\ bound[r] \in Queues /\ At(r, i)' = vmm.fence /\ Cover(r, i)' = sent[bound[r]]
             /\ gpu' = [gpu EXCEPT ![bound[r]] = Append(@, vmm.fence)] /\ UNCHANGED <<signalled, finished>>
             /\ vmm.fence \in VkFence /\ vmm.fence[1] = bound[r]
    <2>1. PICK f, k : f = vmm.fence /\ k = sent[bound[r]]
      OBVIOUS
    <2>2. f \in VkFence /\ k \in Nat /\ k <= sent[f[1]] /\ f[1] = bound[r]
      <3>1. sent \in [Queues -> Nat]
        BY DEF Types, GpuTypes
      <3>2. k \in Nat
        BY <3>1, <2>1, <1>2
      <3> QED BY <3>2, <2>1, <1>2
    <2>3. Untouched(f)
      BY <2>1, <1>2, FenceQueue DEF Clean
    <2>4. sent[f[1]] = finished[f[1]] + Ahead(f[1], Len(gpu[f[1]]))
      BY <2>2, <1>2 DEF Covers
    <2>5. gpu' = [gpu EXCEPT ![f[1]] = Append(@, f)]
      BY <2>1, <1>2
    <2>6. StandsFor(f, k)'
      BY <2>2, <2>3, <2>4, <2>5, <1>2, NewStands
    <2> QED BY <2>1, <2>6, <1>2 DEF StandsFor, Ahead
  <1> QED BY <1>1, <1>2, Places2

LEMMA NeverKept == ASSUME Types, Bindings, Owned, NeverYet, Next PROVE NeverYet'
  <1> SUFFICES ASSUME NEW r \in Rings, NEW i \in 1..Len(jobs'[r]) PROVE jobs'[r][i].how = "never"
    BY DEF NeverYet
  <1>0. /\ jobs \in [Rings -> Seq(Job)] /\ jobs[r] \in Seq(Job) /\ Len(jobs[r]) \in Nat
        /\ \A n \in 1..Len(jobs[r]) : jobs[r][n].how = "never"
    BY PlaceTypes DEF Types, RingTypes, NeverYet
  <1>1. CASE jobs'[r] = jobs[r]
    BY <1>0, <1>1
  <1>2. CASE SyncRecv(r)
    <2>1. jobs[r] # <<>> /\ jobs'[r] = Tail(jobs[r])
      BY <1>2, <1>0 DEF SyncRecv, Receives
    <2>2. /\ Len(jobs[r]) \in Nat \ {0} /\ Len(jobs'[r]) = Len(jobs[r]) - 1
          /\ \A n \in 1..Len(jobs'[r]) : jobs'[r][n] = jobs[r][n + 1]
      BY <2>1, <1>0, Taken
    <2>3. i + 1 \in 1..Len(jobs[r])
      BY <2>2
    <2> QED BY <2>2, <2>3, <1>0
  <1>3. CASE SubmitFence
    <2>0. PICK s \in Rings, q \in Queues, h \in Fence, g \in Fence : SubmitsAs(s, q, h, g)
      BY <1>3, Submits
    <2> DEFINE j == [seqno |-> made[s], fence |-> g, cover |-> sent[q], how |-> "never"]
    <2>1. jobs' = [jobs EXCEPT ![s] = Append(@, j)]
      BY <2>0 DEF SubmitsAs
    <2>2. CASE s # r
      <3>1. jobs'[r] = jobs[r]
        BY <2>1, <2>2, <1>0
      <3> QED BY <3>1, <1>1
    <2>3. CASE s = r
      <3>1. j \in Job /\ j.how = "never"
        <4>1. made[s] \in Nat /\ sent[q] \in Nat
          <5>1. made \in [Rings -> 0..MaxFences] /\ sent \in [Queues -> Nat] /\ MaxFences \in Nat
            BY QueueConstants DEF Types, RingTypes, GpuTypes
          <5>2. made[s] \in 0..MaxFences
            BY <5>1
          <5> QED BY <5>1, <5>2
        <4> QED BY <4>1 DEF Job
      <3> HIDE DEF j
      <3>2. jobs'[r] = Append(jobs[r], j)
        BY <2>1, <2>3, <1>0
      <3>3. /\ Len(jobs'[r]) = Len(jobs[r]) + 1 /\ jobs'[r][Len(jobs[r]) + 1] = j
            /\ \A n \in 1..Len(jobs[r]) : jobs'[r][n] = jobs[r][n]
        BY <3>1, <3>2, <1>0, Added
      <3>4. i \in 1..Len(jobs[r]) \/ i = Len(jobs[r]) + 1
        BY <3>3, <1>0
      <3> QED BY <3>1, <3>3, <3>4, <1>0
    <2> QED BY <2>2, <2>3
  <1>4. ASSUME NEW s \in Rings, Sync(s), s # r \/ ~SyncRecv(s) PROVE jobs'[r] = jobs[r]
    BY <1>4, <1>0 DEF Sync, SyncRecv, SyncEnd, WaitDone, WaitStopped, WaitFailed, WaitOver,
      SyncRetire
  <1>5. ASSUME NEW s \in Rings, CreateFence(s) \/ Forget(s) \/ \E q \in Queues : Bind(s, q)
        PROVE  UNCHANGED jobs
    BY <1>5 DEF CreateFence, Forget, Bind, ringVars
  <1>6. RetireUnbound \/ JoinSync \/ PresentTake \/ PresentSubmit \/ PresentWait
          \/ UNCHANGED <<pool, ringVars, made, answered>> => UNCHANGED jobs
    BY DEF RetireUnbound, JoinSync, PresentTake, PresentSubmit, PresentWait, ringVars
  <1> QED BY <1>1, <1>2, <1>3, <1>4, <1>5, <1>6, RingFrame

\* Ordered and StoppedByItsEnd, of one ring.
RightlyRetired(r) ==
  sync[r] = "retire" =>
    CASE hand[r].how = "waited"  -> finished[bound[r]] >= hand[r].cover
      [] hand[r].how = "stopped" -> device[DeviceOf[bound[r]]] # "live"
      [] OTHER                   -> TRUE

LEMMA OrderedKept ==
  ASSUME Types, Bindings, Owned, Covers, Next PROVE Ordered' /\ StoppedByItsEnd'
  <1> SUFFICES ASSUME NEW r \in Rings PROVE RightlyRetired(r)'
    BY DEF Ordered, StoppedByItsEnd, RightlyRetired
  <1>0. /\ jobs \in [Rings -> Seq(Job)] /\ hand \in [Rings -> Job]
        /\ sync \in [Rings -> {"off", "recv", "wait", "retire", "gone"}]
        /\ jobs[r] \in Seq(Job) /\ bound \in [Rings -> Queues \cup {None}] /\ hand[r].cover \in Nat
        /\ (sync[r] = "off" <=> bound[r] = None)
        /\ RightlyRetired(r) /\ NeverYet
    BY PlaceTypes DEF Types, RingTypes, Bindings, Covers, Ordered, StoppedByItsEnd,
      RightlyRetired, NeverYet, Job
  <1>1. CASE sync'[r] # "retire"
    BY <1>1 DEF RightlyRetired
  <1>2. CASE sync'[r] = sync[r] /\ hand'[r] = hand[r] /\ (sync[r] = "retire" => bound'[r] = bound[r])
    <2>1. CASE sync[r] = "retire"
      <3>1. bound[r] \in Queues /\ bound'[r] = bound[r] /\ hand'[r] = hand[r]
        BY <2>1, <1>0, <1>2
      <3>2. PICK q \in Queues, j \in Job, k \in Nat : q = bound[r] /\ j = hand[r] /\ k = j.cover
        BY <3>1, <1>0
      <3>3. DeviceOf[q] \in Devices
        BY QueueConstants
      <3>4. device[DeviceOf[q]] # "live" => device'[DeviceOf[q]] # "live"
        BY <3>3, DevicesEnd
      <3>5. k <= finished[q] => k <= finished'[q]
        BY Grows
      <3>6. finished[q] \in Nat /\ finished'[q] \in Nat
        <4>1. GpuTypes /\ GpuTypes'
          BY TypesKept DEF Types
        <4> QED BY <4>1 DEF GpuTypes
      <3>7. j.how = "waited" => finished'[q] >= k
        <4>1. j.how = "waited" => finished[q] >= k
          BY <2>1, <3>2, <1>0 DEF RightlyRetired
        <4> QED BY <4>1, <3>5, <3>6
      <3>8. j.how = "stopped" => device'[DeviceOf[q]] # "live"
        BY <2>1, <3>2, <3>4, <1>0 DEF RightlyRetired
      <3>9. bound'[r] = q /\ hand'[r] = j
        BY <3>1, <3>2
      <3>10. CASE j.how = "waited"
        BY <3>10, <3>7, <3>9, <3>2 DEF RightlyRetired
      <3>11. CASE j.how # "waited"
        BY <3>11, <3>8, <3>9 DEF RightlyRetired
      <3> QED BY <3>10, <3>11
    <2>2. CASE sync[r] # "retire"
      BY <2>2, <1>1, <1>2
    <2> QED BY <2>1, <2>2
  <1>3. CASE hand'[r].how \notin {"waited", "stopped"}
    BY <1>3 DEF RightlyRetired
  <1>4. CASE SyncRecv(r)
    <2>1. jobs[r] # <<>> /\ hand'[r] = Head(jobs[r])
      BY <1>4, <1>0 DEF SyncRecv, Receives
    <2>2. hand'[r] = jobs[r][1] /\ 1 \in 1..Len(jobs[r])
      BY <2>1, <1>0, Taken
    <2>3. hand'[r].how = "never"
      BY <2>2, <1>0 DEF NeverYet
    <2> QED BY <2>3, <1>3
  <1>5. ASSUME NEW how, WaitOver(r, how), sync[r] = "wait",
               how = "waited" => hand[r].cover <= finished[bound[r]],
               how = "stopped" => device[DeviceOf[bound[r]]] # "live"
        PROVE  RightlyRetired(r)'
    <2>1. PICK j \in Job : j = hand[r]
      BY <1>0
    <2>2. hand'[r] = [j EXCEPT !.how = how] /\ UNCHANGED <<finished, bound, device>>
      BY <2>1, <1>0, <1>5 DEF WaitOver
    <2>3. hand'[r].how = how /\ hand'[r].cover = j.cover
      BY <2>2 DEF Job
    <2>4. CASE how = "waited"
      <3>1. PICK k \in Nat : k = j.cover
        BY DEF Job
      <3>2. PICK m \in Nat : m = finished[bound[r]]
        <4>1. bound[r] \in Queues /\ finished \in [Queues -> Nat]
          BY <1>0, <1>5 DEF Types, GpuTypes
        <4> QED BY <4>1
      <3>3. m >= k
        BY <3>1, <3>2, <2>1, <2>4, <1>5
      <3>4. finished'[bound'[r]] = m /\ hand'[r].cover = k
        BY <2>2, <2>3, <3>1, <3>2
      <3> QED BY <3>3, <3>4, <2>3, <2>4 DEF RightlyRetired
    <2>5. CASE how # "waited"
      BY <2>2, <2>3, <2>5, <1>5 DEF RightlyRetired
    <2> QED BY <2>4, <2>5
  <1>6. CASE WaitDone(r)
    <2>1. WaitOver(r, "waited") /\ sync[r] = "wait" /\ hand[r].fence \in signalled
      BY <1>6 DEF WaitDone
    <2>2. 0 \in Places(r) /\ At(r, 0) = hand[r].fence /\ Cover(r, 0) = hand[r].cover
      BY <2>1, PlaceTypes DEF Places, At, Cover
    <2>3. hand[r].fence # None
      BY <2>1 DEF Owned
    <2>4. StandsFor(hand[r].fence, hand[r].cover) /\ hand[r].fence[1] = bound[r]
      BY <2>2, <2>3 DEF Covers, Owned
    <2>5. hand[r].cover <= finished[bound[r]]
      BY <2>1, <2>4 DEF StandsFor
    <2> QED BY <2>1, <2>5, <1>5
  <1>7. CASE WaitStopped(r)
    <2>1. WaitOver(r, "stopped") /\ sync[r] = "wait" /\ ~going[r]
      BY <1>7 DEF WaitStopped
    <2>2. device[DeviceOf[bound[r]]] # "live"
      BY <2>1, <1>0 DEF Bindings
    <2> QED BY <2>1, <2>2, <1>5
  <1>8. CASE WaitFailed(r)
    <2>1. WaitOver(r, "failed") /\ sync[r] = "wait"
      BY <1>8 DEF WaitFailed
    <2> QED BY <2>1, <1>5
  <1>9. CASE SyncEnd(r) \/ SyncRetire(r)
    BY <1>9, <1>0, <1>1 DEF SyncEnd, SyncRetire
  <1>10. ASSUME NEW s \in Rings, s # r, Sync(s) PROVE UNCHANGED bound /\ sync'[r] = sync[r] /\ hand'[r] = hand[r]
    BY <1>10, <1>0 DEF Sync, SyncRecv, SyncEnd, WaitDone, WaitStopped, WaitFailed, WaitOver,
      SyncRetire
  <1>11. ASSUME NEW s \in Rings, NEW q \in Queues, Bind(s, q) PROVE RightlyRetired(r)'
    <2>1. hand' = hand /\ sync' = [sync EXCEPT ![s] = "recv"] /\ bound' = [bound EXCEPT ![s] = q]
      BY <1>11 DEF Bind
    <2>2. CASE s = r
      BY <2>1, <2>2, <1>0, <1>1
    <2>3. CASE s # r
      BY <2>1, <2>3, <1>0, <1>2
    <2> QED BY <2>2, <2>3
  <1>12. CASE JoinSync
    <2>1. /\ hand' = hand /\ sync' = [sync EXCEPT ![ender.ring] = "off"]
          /\ bound' = [bound EXCEPT ![ender.ring] = None]
      BY <1>12 DEF JoinSync
    <2>2. CASE ender.ring = r
      BY <2>1, <2>2, <1>0, <1>1
    <2>3. CASE ender.ring # r
      BY <2>1, <2>3, <1>0, <1>2
    <2> QED BY <2>2, <2>3
  <1>13. ASSUME NEW s \in Rings, CreateFence(s) \/ Forget(s) PROVE UNCHANGED <<hand, sync, bound>>
    BY <1>13 DEF CreateFence, Forget, ringVars
  <1>14. RetireUnbound \/ SubmitFence \/ PresentTake \/ PresentSubmit \/ PresentWait
           \/ UNCHANGED <<pool, ringVars, made, answered>> => UNCHANGED <<hand, sync, bound>>
    BY DEF RetireUnbound, SubmitFence, PresentTake, PresentSubmit, PresentWait, ringVars
  <1> QED BY <1>2, <1>4, <1>6, <1>7, <1>8, <1>9, <1>10, <1>11, <1>12, <1>13, <1>14, RingFrame DEF
    Sync

LEMMA CoversKept == ASSUME Types, Bindings, Owned, Clean, Covers, Next PROVE Covers'
  <1>1. NeverYet /\ \A q \in Queues : SentIs(q)
    BY DEF Covers, NeverYet, SentIs
  <1>2. \A q \in Queues : SentIs(q)'
    BY <1>1, SentKept
  <1>3. NeverYet' /\ Stands' /\ Ordered' /\ StoppedByItsEnd'
    BY <1>1, NeverKept, StandsPlaces, OrderedKept
  <1> QED BY <1>2, <1>3 DEF Covers, NeverYet, Stands, SentIs

-----------------------------------------------------------------------------
(* What a frame drew                                                       *)

Draw == [queue : Queues \cup {None}, piece : Nat]

\* Draws are only added, by Decode and on queues that are bound.
LEMMA DrewGrows ==
  ASSUME Types, Next
  PROVE  /\ Len(drew) \in Nat /\ Len(drew') \in Nat /\ Len(drew) <= Len(drew')
         /\ \A i \in 1..Len(drew) : drew[i] \in Draw /\ drew'[i] = drew[i] /\ i \in 1..Len(drew')
         /\ \A i \in 1..Len(drew') :
              \/ i \in 1..Len(drew)
              \/ drew'[i].queue = None
              \/ /\ drew'[i].queue \in BoundQueues /\ drew'[i].piece = sent'[drew'[i].queue]
                 /\ UNCHANGED <<bound, device>>
  <1>0. drew \in Seq(Draw) /\ sent \in [Queues -> Nat] /\ Len(drew) \in Nat
        /\ \A i \in 1..Len(drew) : drew[i] \in Draw
    <2>1. drew \in Seq(Draw)
      BY DEF Types, GuestTypes, Draw
    <2>2. Len(drew) \in Nat /\ \A i \in 1..Len(drew) : drew[i] \in Draw
      BY <2>1, LenProperties, ElementOfSeq
    <2> QED BY <2>1, <2>2 DEF Types, GpuTypes
  <1>1. CASE UNCHANGED drew
    BY <1>0, <1>1
  <1>2. CASE Decode
    <2>1. ASSUME NEW e \in Draw, drew' = Append(drew, e),
                 \/ e.queue = None
                 \/ e.queue \in BoundQueues /\ e.piece = sent'[e.queue] /\ UNCHANGED <<bound, device>>
          PROVE  /\ Len(drew') = Len(drew) + 1
                 /\ \A i \in 1..Len(drew) : drew'[i] = drew[i]
                 /\ drew'[Len(drew) + 1] = e
      BY <1>0, <2>1, Added
    <2>2. ASSUME NEW q \in BoundQueues, sent' = [sent EXCEPT ![q] = @ + 1],
                 drew' = Append(drew, [queue |-> q, piece |-> sent[q] + 1])
          PROVE  \E e \in Draw : /\ drew' = Append(drew, e) /\ e.queue \in BoundQueues
                                 /\ e.piece = sent'[e.queue] /\ UNCHANGED <<bound, device>>
      <3>1. q \in Queues
        BY DEF BoundQueues
      <3>2. PICK e : e = [queue |-> q, piece |-> sent[q] + 1]
        OBVIOUS
      <3>3. e \in Draw /\ e.queue = q /\ e.piece = sent'[q]
        BY <3>1, <3>2, <2>2, <1>0 DEF Draw
      <3>4. UNCHANGED <<bound, device>>
        BY <1>2 DEF Decode, ringVars
      <3> QED BY <3>2, <3>3, <3>4, <2>2
    <2>3. [queue |-> None, piece |-> 0] \in Draw
      BY DEF Draw
    <2>4. PICK e \in Draw :
             /\ drew' = Append(drew, e)
             /\ \/ e.queue = None
                \/ e.queue \in BoundQueues /\ e.piece = sent'[e.queue] /\ UNCHANGED <<bound, device>>
      BY <1>2, <2>2, <2>3 DEF Decode
    <2>5. PICK n \in Nat : n = Len(drew)
      BY <1>0
    <2>6. /\ Len(drew') = n + 1 /\ drew'[n + 1] = e
          /\ \A i \in 1..n : drew'[i] = drew[i]
      BY <2>1, <2>4, <2>5
    <2>7. /\ \A i \in 1..n + 1 : i \in 1..n \/ i = n + 1
          /\ \A i \in 1..n : i \in 1..n + 1
          /\ n <= n + 1 /\ n + 1 \in Nat
      OBVIOUS
    <2>8. \A i \in 1..n : drew[i] \in Draw
      BY <1>0, <2>5
    <2> QED BY <2>4, <2>5, <2>6, <2>7, <2>8
  <1> QED BY <1>1, <1>2, GuestFrame DEF Write, guestVars

\* A binding goes only with its device.
LEMMA BoundStays ==
  ASSUME Types, Bindings, Next, NEW q \in BoundQueues, device[DeviceOf[q]] = "live"
  PROVE  q \in BoundQueues'
  <1>0. bound \in [Rings -> Queues \cup {None}] /\ q \in Queues /\ q # None
    BY QueueConstants DEF Types, RingTypes, BoundQueues
  <1>1. PICK r \in Rings : bound[r] = q
    BY DEF BoundQueues
  <1>2. CASE bound'[r] = q
    BY <1>0, <1>2 DEF BoundQueues
  <1>3. ASSUME NEW s \in Rings, NEW p \in Queues, Bind(s, p) PROVE bound'[r] = q
    <2>1. bound' = [bound EXCEPT ![s] = p] /\ bound[s] = None
      BY <1>3 DEF Bind
    <2> QED BY <2>1, <1>0, <1>1
  <1>4. CASE JoinSync
    <2>1. bound' = [bound EXCEPT ![ender.ring] = None] /\ ender.at = "join"
      BY <1>4 DEF JoinSync
    <2>2. DeviceOf[bound[ender.ring]] = ender.device /\ device[ender.device] # "live"
      BY <2>1 DEF Bindings
    <2>3. ender.ring # r
      BY <2>2, <1>1
    <2>4. bound'[r] = q
      BY <2>1, <2>3, <1>0, <1>1
    <2> QED BY <2>4, <1>2
  <1>5. ASSUME NEW s \in Rings, CreateFence(s) \/ Sync(s) \/ Forget(s) PROVE UNCHANGED bound
    BY <1>5 DEF CreateFence, Sync, SyncRecv, SyncEnd, WaitDone, WaitStopped, WaitFailed, WaitOver,
      SyncRetire, Forget, ringVars
  <1>6. RetireUnbound \/ SubmitFence \/ PresentTake \/ PresentSubmit \/ PresentWait
          \/ UNCHANGED <<pool, ringVars, made, answered>> => UNCHANGED bound
    BY DEF RetireUnbound, SubmitFence, PresentTake, PresentSubmit, PresentWait, ringVars
  <1> QED BY <1>1, <1>2, <1>3, <1>4, <1>5, <1>6, RingFrame

LEMMA DrawnKept == ASSUME Types, Bindings, Owned, Drawn, Next PROVE Drawn'
  <1> SUFFICES ASSUME NEW i \in 1..Len(drew'), drew'[i].queue # None
               PROVE  /\ drew'[i].piece <= sent'[drew'[i].queue]
                      /\ device'[DeviceOf[drew'[i].queue]] = "live" => drew'[i].queue \in BoundQueues'
    BY DEF Drawn
  <1>1. CASE i \in 1..Len(drew)
    <2>1. drew[i] \in Draw /\ drew'[i] = drew[i]
      BY <1>1, DrewGrows
    <2>2. PICK q \in Queues, k \in Nat : q = drew[i].queue /\ k = drew[i].piece
      BY <2>1 DEF Draw
    <2>3. k <= sent[q] /\ (device[DeviceOf[q]] = "live" => q \in BoundQueues)
      BY <1>1, <2>1, <2>2 DEF Drawn
    <2>4. k <= sent'[q]
      BY <2>3, Grows
    <2>5. DeviceOf[q] \in Devices
      BY QueueConstants
    <2>6. device'[DeviceOf[q]] = "live" => q \in BoundQueues'
      BY <2>3, <2>5, DevicesEnd, BoundStays
    <2> QED BY <2>1, <2>2, <2>4, <2>6
  <1>2. CASE /\ drew'[i].queue \in BoundQueues /\ drew'[i].piece = sent'[drew'[i].queue]
             /\ UNCHANGED <<bound, device>>
    <2>1. PICK q \in Queues : q = drew'[i].queue /\ q \in BoundQueues
      BY <1>2 DEF BoundQueues
    <2>2. q \in BoundQueues'
      BY <2>1, <1>2 DEF BoundQueues
    <2>3. sent'[q] \in Nat
      BY TypesKept DEF Types, GpuTypes
    <2> QED BY <2>1, <2>2, <2>3, <1>2
  <1> QED BY <1>1, <1>2, DrewGrows

LEMMA DrawnStart == Init => Drawn
  <1> SUFFICES ASSUME Init PROVE Drawn
    OBVIOUS
  <1>1. drew = <<>>
    BY DEF Init
  <1> QED BY <1>1 DEF Drawn

\* The parts of Presenting: the barriers, the frame read, what of the frame is done, and what
\* the present waits for.
Barriers == barrier.reads = barrier.frame /\ \A i \in 1..Len(pjobs) : pjobs[i].reads = pjobs[i].frame
FrameRead == ppc \in {"snapshot", "each", "took", "wait"} => barrier.frame <= Len(drew)
PieceDone(x) ==
  x.queue # None /\ device[DeviceOf[x.queue]] = "live" =>
    /\ x.queue \in held
    /\ x.queue \notin left /\ (pfence # None => pfence[1] # x.queue) => x.piece <= finished[x.queue]
FrameDone ==
  ppc \in {"each", "took", "wait"} /\ ~partial => \A i \in 1..barrier.frame : PieceDone(drew[i])
FrameWaited ==
  ppc = "wait" => \A i \in 1..barrier.frame : drew[i].queue = pfence[1] => StandsFor(pfence, drew[i].piece)

LEMMA BarriersKept == ASSUME Types, Barriers, Next PROVE Barriers'
  <1>0. /\ pjobs \in Seq(Present) /\ barrier \in Present /\ written \in Nat /\ Len(pjobs) \in Nat
    <2>1. pjobs \in Seq(Present)
      BY DEF Types, PresentTypes
    <2>2. written \in 0..MaxDraws /\ MaxDraws \in Nat
      BY QueueConstants DEF Types, GuestTypes
    <2>3. Len(pjobs) \in Nat
      BY <2>1, LenProperties
    <2> QED BY <2>1, <2>2, <2>3 DEF Types, PresentTypes
  <1>1. CASE UNCHANGED <<barrier, pjobs>>
    BY <1>1 DEF Barriers
  <1>2. CASE PresentFence
    <2>1. PICK e : e = [reads |-> written, frame |-> written]
      OBVIOUS
    <2>2. e \in Present /\ e.reads = e.frame /\ pjobs' = Append(pjobs, e) /\ barrier' = barrier
      BY <2>1, <1>0, <1>2 DEF PresentFence, DecodeBarrier, Present
    <2>3. /\ Len(pjobs') = Len(pjobs) + 1 /\ pjobs'[Len(pjobs) + 1] = e
          /\ \A i \in 1..Len(pjobs) : pjobs'[i] = pjobs[i]
      BY <2>2, <1>0, Added
    <2>4. \A i \in 1..Len(pjobs') : i \in 1..Len(pjobs) \/ i = Len(pjobs) + 1
      BY <2>3, <1>0
    <2>5. \A i \in 1..Len(pjobs') : pjobs'[i].reads = pjobs'[i].frame
      BY <2>2, <2>3, <2>4 DEF Barriers
    <2> QED BY <2>2, <2>5 DEF Barriers
  <1>3. CASE PresentRecv
    <2>1. pjobs # <<>> /\ barrier' = Head(pjobs) /\ pjobs' = Tail(pjobs)
      BY <1>3 DEF PresentRecv
    <2>2. /\ Len(pjobs) \in Nat \ {0} /\ Len(pjobs') = Len(pjobs) - 1 /\ barrier' = pjobs[1]
          /\ \A i \in 1..Len(pjobs') : pjobs'[i] = pjobs[i + 1]
      BY <2>1, <1>0, Taken
    <2>3. 1 \in 1..Len(pjobs) /\ \A i \in 1..Len(pjobs') : i + 1 \in 1..Len(pjobs)
      BY <2>2
    <2>4. \A i \in 1..Len(pjobs') : pjobs'[i].reads = pjobs'[i].frame
      BY <2>2, <2>3 DEF Barriers
    <2> QED BY <2>2, <2>3, <2>4 DEF Barriers
  <1>4. CASE PresentRetire
    BY <1>4 DEF PresentRetire, Barriers, NoPresent
  <1> QED BY <1>1, <1>2, <1>3, <1>4, PresentFrame DEF PresentThread, PresentBarrier,
    PresentSnapshot, PresentTake, PresentSubmit, PresentWait, presentVars

LEMMA ReadKept == ASSUME Types, Barriers, FrameRead, Next PROVE FrameRead'
  <1>0. Len(drew) \in Nat /\ Len(drew') \in Nat /\ Len(drew) <= Len(drew')
    BY DrewGrows
  <1>1. CASE UNCHANGED barrier /\ (ppc \in {"snapshot", "each", "took", "wait"} \/ ppc' = ppc)
    <2>1. barrier.frame \in Nat
      BY DEF Types, PresentTypes, Present
    <2>2. CASE ppc \in {"snapshot", "each", "took", "wait"}
      <3>1. barrier.frame <= Len(drew')
        BY <2>1, <2>2, <1>0 DEF FrameRead
      <3> QED BY <3>1, <1>1 DEF FrameRead
    <2>3. CASE ppc \notin {"snapshot", "each", "took", "wait"}
      BY <2>3, <1>1 DEF FrameRead
    <2> QED BY <2>2, <2>3
  <1>2. CASE ppc' \notin {"snapshot", "each", "took", "wait"}
    BY <1>2 DEF FrameRead
  <1>3. CASE PresentBarrier
    <2>1. Len(drew) >= barrier.reads /\ drew' = drew /\ barrier' = barrier
      BY <1>3 DEF PresentBarrier, guestVars
    <2>2. barrier.frame \in Nat /\ barrier.reads = barrier.frame
      BY DEF Types, PresentTypes, Present, Barriers
    <2>3. barrier.frame <= Len(drew)
      BY <2>1, <2>2, <1>0
    <2> QED BY <2>1, <2>3 DEF FrameRead
  <1>4. CASE PresentFence \/ PresentRecv \/ PresentRetire
    <2>1. ppc' \in {"recv", "barrier"} \/ (ppc' = ppc /\ barrier' = barrier)
      BY <1>4 DEF PresentFence, PresentRecv, PresentRetire
    <2> QED BY <2>1, <1>1, <1>2
  <1> QED BY <1>1, <1>3, <1>4, PresentFrame DEF PresentThread, PresentSnapshot, PresentTake,
    PresentSubmit, PresentWait, presentVars

\* A draw of the frame read.
LEMMA FrameDraws ==
  ASSUME Types, FrameRead, ppc \in {"snapshot", "each", "took", "wait"}, Next,
         NEW i \in 1..barrier.frame
  PROVE  i \in 1..Len(drew) /\ drew[i] \in Draw /\ drew'[i] = drew[i]
  <1>1. barrier.frame \in Nat /\ barrier.frame <= Len(drew)
    BY DEF Types, PresentTypes, Present, FrameRead
  <1>2. Len(drew) \in Nat
    BY DrewGrows
  <1>3. i \in 1..Len(drew)
    BY <1>1, <1>2
  <1> QED BY <1>3, DrewGrows

LEMMA FrameDoneKept ==
  ASSUME Types, Bindings, Owned, Drawn, FrameRead, FrameDone, FrameWaited, Next PROVE FrameDone'
  <1>0. /\ RingTypes /\ GpuTypes /\ PresentTypes /\ partial \in BOOLEAN
    BY DEF Types, PresentTypes
  <1>1. CASE ppc' \notin {"each", "took", "wait"} \/ partial'
    BY <1>1 DEF FrameDone
  \* It suffices to keep each piece done.
  <1>2. ASSUME ppc \in {"each", "took", "wait"}, barrier' = barrier, ~partial' => ~partial,
               \A x \in Draw : ~partial' /\ PieceDone(x) => PieceDone(x)'
        PROVE  FrameDone'
    <2> SUFFICES ASSUME ~partial', NEW i \in 1..barrier'.frame PROVE PieceDone(drew[i])'
      BY DEF FrameDone
    <2>1. i \in 1..barrier.frame
      BY <1>2
    <2>2. PICK x \in Draw : x = drew[i] /\ x = drew'[i]
      BY <2>1, <1>2, FrameDraws
    <2>3. PieceDone(x)
      BY <2>1, <2>2, <1>2 DEF FrameDone
    <2>4. PieceDone(x)'
      BY <2>3, <1>2
    <2> QED BY <2>2, <2>4 DEF PieceDone
  \* Whoever steps, what has finished has finished and what has ended has ended.
  <1>3. ASSUME NEW x \in Draw, x.queue # None
        PROVE  /\ x.queue \in Queues /\ x.piece \in Nat
               /\ device'[DeviceOf[x.queue]] = "live" => device[DeviceOf[x.queue]] = "live"
               /\ x.piece <= finished[x.queue] => x.piece <= finished'[x.queue]
    <2>1. PICK q \in Queues, k \in Nat : q = x.queue /\ k = x.piece
      BY <1>3 DEF Draw
    <2>2. DeviceOf[q] \in Devices
      BY QueueConstants
    <2>3. device[DeviceOf[q]] # "live" => device'[DeviceOf[q]] # "live"
      BY <2>2, DevicesEnd
    <2>4. k <= finished[q] => k <= finished'[q]
      BY Grows
    <2> QED BY <2>1, <2>3, <2>4
  <1>4. CASE /\ UNCHANGED <<barrier, partial, held, left, pfence>>
             /\ ppc' \in {"each", "took", "wait"} => ppc \in {"each", "took", "wait"}
    <2>1. ASSUME NEW x \in Draw, PieceDone(x) PROVE PieceDone(x)'
      BY <2>1, <1>3, <1>4 DEF PieceDone
    <2> QED BY <2>1, <1>1, <1>2, <1>4
  <1>5. CASE PresentSnapshot
    <2>1. held' = BoundQueues /\ left' = BoundQueues /\ barrier' = barrier /\ UNCHANGED <<device, drew>>
          /\ ppc = "snapshot"
      BY <1>5 DEF PresentSnapshot, queues, guestVars
    <2>2. ASSUME NEW i \in 1..barrier'.frame PROVE PieceDone(drew[i])'
      <3>1. i \in 1..Len(drew) /\ drew[i] \in Draw
        BY <2>1, FrameDraws
      <3>2. drew[i].queue # None /\ device[DeviceOf[drew[i].queue]] = "live" => drew[i].queue \in BoundQueues
        BY <3>1 DEF Drawn
      <3> QED BY <3>2, <2>1 DEF PieceDone
    <2> QED BY <2>2 DEF FrameDone
  <1>6. CASE PresentTake
    <2>1. PICK q \in left : \E f \in take_fence(q) :
             /\ left' = left \ {q}
             /\ IF f = None THEN partial' = TRUE ELSE pfence' = f /\ UNCHANGED partial
      BY <1>6 DEF PresentTake
    <2>2. PICK f \in take_fence(q) :
             IF f = None THEN partial' = TRUE ELSE pfence' = f /\ UNCHANGED partial
      BY <2>1
    <2>3. q \in Queues /\ left' = left \ {q}
      BY <2>1, <1>0 DEF PresentTypes
    <2>4. f = None \/ f[1] = q
      BY <2>2, <2>3, <1>0, Given
    <2>5. ppc = "each" /\ pfence = None /\ UNCHANGED <<barrier, held>>
      BY <1>6, <1>0 DEF PresentTake, PresentTypes
    <2>6. CASE f = None
      BY <2>2, <2>6, <1>1
    <2>7. CASE f # None
      <3>1. pfence' = f /\ f[1] = q /\ partial' = partial
        BY <2>2, <2>4, <2>7
      <3>2. ASSUME NEW x \in Draw, PieceDone(x) PROVE PieceDone(x)'
        <4>1. SUFFICES ASSUME x.queue # None, device'[DeviceOf[x.queue]] = "live"
                       PROVE  /\ x.queue \in held'
                              /\ x.queue \notin left' /\ (pfence' # None => pfence'[1] # x.queue) =>
                                   x.piece <= finished'[x.queue]
          BY DEF PieceDone
        <4>2. device[DeviceOf[x.queue]] = "live" /\ x.queue \in held /\ held' = held
          BY <4>1, <3>2, <2>5, <1>3 DEF PieceDone
        <4>3. ASSUME x.queue \notin left', pfence'[1] # x.queue PROVE x.piece <= finished'[x.queue]
          <5>1. x.queue \notin left
            BY <4>3, <3>1, <2>3
          <5>2. x.piece <= finished[x.queue]
            BY <5>1, <4>1, <4>2, <3>2, <2>5 DEF PieceDone
          <5> QED BY <5>2, <4>1, <1>3
        <4> QED BY <4>2, <4>3, <3>1, <2>7
      <3> QED BY <3>1, <3>2, <2>5, <1>2
    <2> QED BY <2>6, <2>7
  <1>7. CASE PresentSubmit
    <2>1. ppc = "took" /\ ppc' \in {"wait", "each"} /\ UNCHANGED <<barrier, held, left>>
          /\ ((UNCHANGED <<partial, pfence>>) \/ partial')
      BY <1>7 DEF PresentSubmit
    <2> QED BY <2>1, <1>1, <1>4
  <1>8. CASE PresentWait
    <2>1. /\ ppc = "wait" /\ pfence' = None /\ UNCHANGED <<barrier, held, left, finished, drew>>
          /\ (partial' \/ (pfence \in signalled /\ UNCHANGED partial))
      BY <1>8 DEF PresentWait, guestVars
    <2>2. CASE pfence \in signalled /\ UNCHANGED partial
      <3>1. ASSUME ~partial', NEW i \in 1..barrier'.frame PROVE PieceDone(drew[i])'
        <4>1. i \in 1..barrier.frame
          BY <2>1
        <4>2. PICK x \in Draw : x = drew[i] /\ x = drew'[i]
          BY <4>1, <2>1, FrameDraws
        <4>3. PieceDone(x)
          BY <4>1, <4>2, <3>1, <2>1, <2>2 DEF FrameDone
        <4>4. x.queue = pfence[1] => x.piece <= finished[x.queue]
          <5>1. ASSUME x.queue = pfence[1] PROVE StandsFor(pfence, x.piece)
            BY <5>1, <4>1, <4>2, <2>1 DEF FrameWaited
          <5> QED BY <5>1, <2>2 DEF StandsFor
        <4>5. PieceDone(x)'
          <5> SUFFICES ASSUME x.queue # None, device'[DeviceOf[x.queue]] = "live"
                       PROVE  x.queue \in held' /\ (x.queue \notin left' => x.piece <= finished'[x.queue])
            BY <2>1 DEF PieceDone
          <5>1. device[DeviceOf[x.queue]] = "live"
            BY <1>3
          <5>2. x.queue \in held /\ (x.queue \notin left => x.piece <= finished[x.queue])
            BY <5>1, <4>3, <4>4 DEF PieceDone
          <5> QED BY <5>2, <2>1
        <4> QED BY <4>2, <4>5 DEF PieceDone
      <3> QED BY <3>1 DEF FrameDone
    <2> QED BY <2>1, <2>2, <1>1
  <1>9. CASE PresentFence \/ PresentRecv \/ PresentBarrier \/ PresentRetire
    <2>1. \/ ppc' \in {"recv", "barrier", "snapshot"}
          \/ ppc' = ppc /\ UNCHANGED <<barrier, partial, held, left, pfence>>
      BY <1>9 DEF PresentFence, PresentRecv, PresentBarrier, PresentRetire
    <2> QED BY <2>1, <1>1, <1>4
  <1>10. CASE UNCHANGED presentVars
    BY <1>10, <1>4 DEF presentVars
  <1> QED BY <1>5, <1>6, <1>7, <1>8, <1>9, <1>10, PresentFrame DEF PresentThread

LEMMA FrameWaitedKept ==
  ASSUME Types, Bindings, Owned, Clean, Covers, Drawn, FrameRead, FrameWaited, Next PROVE FrameWaited'
  <1>1. CASE ppc' # "wait"
    BY <1>1 DEF FrameWaited
  <1>2. ASSUME ppc \in {"took", "wait"}, UNCHANGED <<barrier, pfence>>,
               \A x \in Draw : x.queue = pfence[1] /\ (ppc = "wait" => StandsFor(pfence, x.piece)) =>
                 StandsFor(pfence, x.piece)'
        PROVE  FrameWaited'
    <2> SUFFICES ASSUME NEW i \in 1..barrier'.frame, drew'[i].queue = pfence'[1]
                 PROVE  StandsFor(pfence, drew[i].piece)'
      BY DEF FrameWaited
    <2>1. i \in 1..barrier.frame
      BY <1>2
    <2>2. PICK x \in Draw : x = drew[i] /\ x = drew'[i]
      BY <2>1, <1>2, FrameDraws
    <2>3. x.queue = pfence[1]
      BY <2>2, <1>2
    <2>4. ppc = "wait" => StandsFor(pfence, x.piece)
      BY <2>1, <2>2, <2>3 DEF FrameWaited
    <2>5. StandsFor(pfence, x.piece)'
      BY <2>3, <2>4, <1>2
    <2> QED BY <2>2, <2>5
  <1>3. CASE ppc = "wait" /\ UNCHANGED <<barrier, pfence>>
    <2>1. PICK f \in VkFence : f = pfence
      BY <1>3 DEF Types, PresentTypes, Fence
    <2>2. f # vmm.fence /\ ~PresentSubmit
      BY <2>1, <1>3, FenceQueue DEF Owned, PresentSubmit
    <2>3. ASSUME NEW x \in Draw, StandsFor(f, x.piece) PROVE StandsFor(f, x.piece)'
      <3>1. PICK k \in Nat : k = x.piece
        BY DEF Draw
      <3>2. StandsFor(f, k)'
        BY <3>1, <2>2, <2>3, StandsKept
      <3> QED BY <3>1, <3>2
    <2>4. ASSUME NEW x \in Draw, StandsFor(pfence, x.piece) PROVE StandsFor(pfence, x.piece)'
      <3>1. StandsFor(f, x.piece)'
        BY <2>1, <2>3, <2>4
      <3> QED BY <3>1, <2>1, <1>3 DEF StandsFor, Ahead
    <2> QED BY <2>4, <1>2, <1>3
  <1>4. CASE PresentSubmit
    <2>1. ppc = "took" /\ UNCHANGED <<barrier, finished, drew>>
      BY <1>4 DEF PresentSubmit, guestVars
    <2>2. PICK f \in VkFence : f = pfence
      BY <2>1 DEF Types, PresentTypes, Fence
    <2>3. CASE gpu' = [gpu EXCEPT ![f[1]] = Append(@, f)] /\ UNCHANGED <<signalled, pfence>>
      <3>1. Untouched(f)
        BY <2>1, <2>2 DEF Clean
      <3>2. f[1] \in Queues
        BY FenceQueue
      <3>3. sent[f[1]] = finished[f[1]] + Ahead(f[1], Len(gpu[f[1]]))
        BY <3>2 DEF Covers
      <3>4. ASSUME NEW k \in Nat, k <= sent[f[1]] PROVE StandsFor(f, k)'
        BY <3>1, <3>3, <3>4, <2>1, <2>3, NewStands
      <3>5. ASSUME NEW i \in 1..barrier'.frame, drew'[i].queue = pfence'[1] PROVE StandsFor(pfence, drew[i].piece)'
        <4>1. i \in 1..barrier.frame
          BY <2>1
        <4>2. i \in 1..Len(drew) /\ drew[i] \in Draw /\ drew'[i] = drew[i]
          BY <4>1, <2>1, FrameDraws
        <4>3. drew[i].queue = f[1] /\ f[1] # None
          BY <3>5, <4>2, <3>2, <2>2, <2>3, QueueConstants
        <4>4. drew[i].piece \in Nat /\ drew[i].piece <= sent[f[1]]
          BY <4>2, <4>3 DEF Drawn, Draw
        <4>5. PICK k \in Nat : k = drew[i].piece
          BY <4>4
        <4>6. StandsFor(f, k)'
          BY <3>4, <4>4, <4>5
        <4> QED BY <4>2, <4>5, <4>6, <2>2, <2>3 DEF StandsFor, Ahead
      <3> QED BY <3>5 DEF FrameWaited
    <2>4. CASE ppc' = "each"
      BY <2>4, <1>1
    <2> QED BY <1>4, <2>2, <2>3, <2>4 DEF PresentSubmit, Submit
  <1>5. ppc' # "wait" \/ (ppc = "wait" /\ UNCHANGED <<barrier, pfence>>) \/ PresentSubmit
    BY PresentFrame DEF PresentFence, PresentThread, PresentRecv, PresentBarrier, PresentSnapshot,
      PresentTake, PresentWait, PresentRetire, presentVars
  <1> QED BY <1>1, <1>3, <1>4, <1>5

LEMMA PresentingStart == Init => Presenting
  <1> SUFFICES ASSUME Init PROVE Presenting
    OBVIOUS
  <1>1. barrier = NoPresent /\ pjobs = <<>> /\ ppc = "off"
    BY DEF Init
  <1> QED BY <1>1 DEF Presenting, NoPresent

LEMMA PresentingIs == Presenting <=> Barriers /\ FrameRead /\ FrameDone /\ FrameWaited
  BY DEF Presenting, Barriers, FrameRead, FrameDone, PieceDone, FrameWaited

LEMMA PresentingKept ==
  ASSUME Types, Bindings, Owned, Clean, Covers, Drawn, Presenting, Next PROVE Presenting'
  <1>1. Barriers' /\ FrameRead' /\ FrameDone' /\ FrameWaited'
    BY PresentingIs, BarriersKept, ReadKept, FrameDoneKept, FrameWaitedKept
  <1> QED BY <1>1 DEF Presenting, Barriers, FrameRead, FrameDone, PieceDone, FrameWaited

-----------------------------------------------------------------------------
(* A device that has been waited for                                       *)

LEMMA QuietStart == Init => Quiet
  BY DEF Init, Quiet, Alive

\* The one device that ends, and where its end is.
Ending ==
  /\ ender.at # "none" => ender.way = "destroy" /\ ender.at # "lock" /\ ender.device \in Devices
  /\ \A d \in Devices : device[d] = "ending" =>
       ender.at \in {"forget", "join", "wait"} /\ ender.device = d
  /\ \A d \in Devices : device[d] = "idle" => ender.at = "drop" /\ ender.device = d
  /\ ender.at = "wait" => Doomed(ender.device) = {}
  /\ ender.at = "drop" => device[ender.device] = "idle"

LEMMA EndingKept == ASSUME Calm, Types, Ending, Next PROVE Ending'
  <1>0. /\ device \in [Devices -> {"live", "ending", "idle", "dropped"}]
        /\ ender \in [at : {"none", "forget", "join", "wait", "lock", "drop"}, way : {"destroy", "teardown"},
                      device : Devices \cup {None}, ring : Rings \cup {None}]
    BY DEF Types, EnderTypes
  <1>1. ASSUME NEW d \in Devices, DestroyDevice(d) PROVE Ending'
    <2>1. /\ device' = [device EXCEPT ![d] = "ending"] /\ ender.at = "none"
          /\ ender' = [at |-> "forget", way |-> "destroy", device |-> d, ring |-> None]
      BY <1>1 DEF DestroyDevice, ContextFree
    <2>2. \A c \in Devices : c # d => device'[c] = device[c]
      BY <2>1, <1>0
    <2>3. device'[d] = "ending"
      BY <2>1, <1>0
    <2>4. \A c \in Devices : device'[c] = "ending" => c = d
      BY <2>1, <2>2 DEF Ending
    <2>5. \A c \in Devices : device'[c] # "idle"
      BY <2>1, <2>2, <2>3 DEF Ending
    <2> QED BY <2>1, <2>4, <2>5 DEF Ending
  <1>2. ~TeardownInstance
    BY DEF TeardownInstance, Calm
  <1>3. CASE WaitIdle
    <2>1. PICK d \in Devices : device[d] = "ending" /\ device' = [device EXCEPT ![d] = "idle"]
      BY <1>3 DEF WaitIdle
    <2>2. ender.at = "wait" /\ ender.device = d /\ ender.way = "destroy"
      BY <1>3, <2>1 DEF WaitIdle, Ending
    <2>3. ender' = [ender EXCEPT !.at = "drop"]
      BY <1>3, <2>2 DEF WaitIdle
    <2>4. ender'.at = "drop" /\ ender'.device = d /\ ender'.way = "destroy"
      BY <2>2, <2>3, <1>0
    <2>5. device'[d] = "idle" /\ \A c \in Devices : c # d => device'[c] = device[c]
      BY <2>1, <1>0
    <2>6. \A c \in Devices : device'[c] # "ending"
      BY <2>2, <2>5 DEF Ending
    <2>7. \A c \in Devices : device'[c] = "idle" => c = d
      BY <2>2, <2>5 DEF Ending
    <2> QED BY <2>4, <2>5, <2>6, <2>7 DEF Ending
  <1>4. ~LockBound
    BY DEF LockBound, Ending
  <1>5. ASSUME UNCHANGED device, NEW at \in {"forget", "join", "wait"}, ender.at \in {"forget", "join", "wait"},
               ender'.at = at, ender'.way = ender.way, ender'.device = ender.device,
               at = "wait" => Doomed(ender.device)' = {}
        PROVE  Ending'
    <2>1. /\ ender'.way = "destroy" /\ ender'.device \in Devices
          /\ \A d \in Devices : device'[d] = "ending" => ender'.device = d
          /\ \A d \in Devices : device'[d] # "idle"
      BY <1>5 DEF Ending
    <2>2. ender'.at = "wait" => Doomed(ender.device)' = {}
      BY <1>5
    <2> QED BY <2>1, <2>2, <1>5 DEF Ending
  <1>6. ASSUME NEW r \in Rings, Forget(r) PROVE Ending'
    <2>1. device' = device /\ ender.at = "forget" /\ ender' = [ender EXCEPT !.at = "join", !.ring = r]
      BY <1>6 DEF Forget
    <2>2. ender'.at = "join" /\ ender'.way = ender.way /\ ender'.device = ender.device
      BY <2>1, <1>0
    <2> QED BY <2>1, <2>2, <1>5
  <1>7. CASE JoinSync
    <2>1. device' = device /\ ender.at = "join" /\ ender' = [ender EXCEPT !.at = "forget", !.ring = None]
      BY <1>7 DEF JoinSync
    <2>2. ender'.at = "forget" /\ ender'.way = ender.way /\ ender'.device = ender.device
      BY <2>1, <1>0
    <2> QED BY <2>1, <2>2, <1>5
  <1>8. CASE Forgotten
    <2>1. /\ device' = device /\ ender.at = "forget" /\ Doomed(ender.device) = {} /\ bound' = bound
          /\ ender.way = "destroy"
      BY <1>8 DEF Forgotten, ringVars, Ending
    <2>2. ender' = [ender EXCEPT !.at = "wait"]
      BY <1>8, <2>1 DEF Forgotten
    <2>3. ender'.at = "wait" /\ ender'.way = ender.way /\ ender'.device = ender.device
      BY <2>2, <1>0
    <2>4. Doomed(ender.device)' = {}
      BY <2>1, <2>3 DEF Doomed
    <2> QED BY <2>1, <2>3, <2>4, <1>5
  <1>9. CASE DropDevice
    <2>1. /\ ender.at = "drop" /\ device' = [device EXCEPT ![ender.device] = "dropped"]
          /\ ender' = IF \E d \in Devices : device'[d] = "idle"
                      THEN [ender EXCEPT !.at = "lock", !.device = None] ELSE Alive
      BY <1>9 DEF DropDevice
    <2>2. ender.device \in Devices
      BY <2>1 DEF Ending
    <2>3. \A d \in Devices : d # ender.device => device'[d] = device[d] /\ device[d] # "idle"
      BY <2>1, <1>0 DEF Ending
    <2>4. device'[ender.device] = "dropped"
      BY <2>1, <2>2, <1>0
    <2>5. \A d \in Devices : device'[d] # "idle"
      BY <2>3, <2>4
    <2>6. \A d \in Devices : device'[d] # "ending"
      BY <2>1, <2>3, <2>4 DEF Ending
    <2>7. ender' = Alive
      BY <2>1, <2>5
    <2> QED BY <2>5, <2>6, <2>7 DEF Ending, Alive
  <1>10. CASE UNCHANGED <<device, ender>>
    <2>1. ender.at = "wait" => UNCHANGED bound
      <3>1. \A r \in Rings, q \in Queues : Bind(r, q) => ender.at = "none"
        BY DEF Bind, ContextFree
      <3>2. JoinSync => ender.at = "join"
        BY DEF JoinSync
      <3>3. ASSUME NEW s \in Rings, CreateFence(s) \/ Sync(s) \/ Forget(s) PROVE UNCHANGED bound
        BY <3>3 DEF CreateFence, Sync, SyncRecv, SyncEnd, WaitDone, WaitStopped, WaitFailed,
          WaitOver, SyncRetire, Forget, ringVars
      <3>4. RetireUnbound \/ SubmitFence \/ PresentTake \/ PresentSubmit \/ PresentWait
              \/ UNCHANGED <<pool, ringVars, made, answered>> => UNCHANGED bound
        BY DEF RetireUnbound, SubmitFence, PresentTake, PresentSubmit, PresentWait, ringVars
      <3> QED BY <3>1, <3>2, <3>3, <3>4, RingFrame
    <2>2. ender'.at = "wait" => Doomed(ender.device)' = {}
      BY <2>1, <1>10 DEF Doomed, Ending
    <2>3. /\ ender'.at # "none" =>
               ender'.way = "destroy" /\ ender'.at # "lock" /\ ender'.device \in Devices
          /\ \A d \in Devices : device'[d] = "ending" =>
               ender'.at \in {"forget", "join", "wait"} /\ ender'.device = d
          /\ \A d \in Devices : device'[d] = "idle" => ender'.at = "drop" /\ ender'.device = d
          /\ ender'.at = "drop" => device'[ender'.device] = "idle"
      BY <1>10 DEF Ending
    <2> QED BY <2>2, <2>3 DEF Ending
  <1> QED BY <1>1, <1>2, <1>3, <1>4, <1>6, <1>7, <1>8, <1>9, <1>10, EnderFrame DEF Ender

\* A queue of a device that has been waited for.
Emptied(q) == gpu[q] = <<>> \/ (ppc = "wait" /\ pfence[1] = q /\ gpu[q] = <<pfence>>)
Waited(d) == device[d] \in {"idle", "dropped"} => Doomed(d) = {} /\ \A q \in QueuesOf(d) : Emptied(q)

\* It stays so while the guest may submit nothing on it.
LEMMA EmptiedKept ==
  ASSUME Calm, Types, Bindings, Owned, Clean, Next, NEW q \in Queues, Emptied(q), q \notin BoundQueues
  PROVE  Emptied(q)'
  <1>0. GpuTypes /\ RingTypes
    BY DEF Types
  <1>1. CASE gpu'[q] = <<>>
    BY <1>1 DEF Emptied
  <1>2. CASE gpu'[q] = gpu[q] /\ (ppc = "wait" => ppc' = ppc /\ pfence' = pfence)
    BY <1>2 DEF Emptied
  <1>3. ppc = "wait" => (ppc' = ppc /\ pfence' = pfence) \/ PresentWait
    BY PresentFrame DEF PresentThread, PresentFence, PresentRecv, PresentBarrier, PresentSnapshot,
      PresentTake, PresentSubmit, PresentRetire, presentVars
  <1>4. CASE PresentWait
    <2>1. ppc = "wait" /\ gpu' = gpu
      BY <1>4 DEF PresentWait
    <2>2. CASE pfence \in signalled
      <3>1. pfence \in VkFence /\ ~InFlight(pfence)
        BY <2>2, <1>0 DEF Clean, GpuTypes
      <3>2. ASSUME pfence[1] = q, gpu[q] = <<pfence>> PROVE FALSE
        <4>1. 1 \in 1..Len(gpu[q]) /\ gpu[q][1] = pfence
          BY <3>2
        <4> QED BY <4>1, <3>1, <3>2 DEF InFlight
      <3> QED BY <3>2, <2>1, <1>1 DEF Emptied
    <2>3. CASE pfence \notin signalled
      BY <2>3, <1>4 DEF PresentWait, Calm
    <2> QED BY <2>2, <2>3
  <1>5. ASSUME NEW p \in Queues, Gpu(p) PROVE Emptied(q)'
    <2>1. ~PresentWait \/ UNCHANGED <<ppc, pfence>>
      BY <1>5 DEF Gpu, presentVars
    <2>2. CASE p = q
      <3>1. gpu[q] # <<>> /\ gpu'[q] = Tail(gpu[q])
        BY <2>2, <1>0, <1>5, Finished DEF Gpu
      <3>2. gpu[q] = <<pfence>>
        BY <3>1 DEF Emptied
      <3>3. gpu'[q] = <<>>
        BY <3>1, <3>2
      <3> QED BY <3>3, <1>1
    <2>3. CASE p # q
      <3>1. gpu'[q] = gpu[q]
        BY <2>3, <1>0, <1>5, Finished
      <3> QED BY <3>1, <2>1, <1>2, <1>3
    <2> QED BY <2>2, <2>3
  <1>6. CASE Decode
    <2>1. gpu'[q] = gpu[q]
      BY <1>6, <1>0 DEF Decode, GpuTypes
    <2>2. UNCHANGED <<ppc, pfence>>
      BY <1>6 DEF Decode, presentVars
    <2> QED BY <2>1, <2>2, <1>2
  <1>7. CASE SubmitFence
    <2>1. PICK s \in Rings, p \in Queues, h \in Fence, g \in Fence : SubmitsAs(s, p, h, g)
      BY <1>7, Submits
    <2>2. p # q
      BY <2>1 DEF SubmitsAs, BoundQueues
    <2>3. gpu' = gpu \/ gpu' = [gpu EXCEPT ![p] = Append(@, h)]
      BY <2>1 DEF SubmitsAs
    <2>4. gpu'[q] = gpu[q]
      BY <2>2, <2>3, <1>0 DEF GpuTypes
    <2>5. UNCHANGED <<ppc, pfence>>
      BY <2>1 DEF SubmitsAs, presentVars
    <2> QED BY <2>4, <2>5, <1>2
  <1>8. CASE PresentSubmit
    <2>1. ppc = "took" /\ gpu[q] = <<>>
      BY <1>8 DEF PresentSubmit, Emptied
    <2>2. CASE gpu' = [gpu EXCEPT ![pfence[1]] = Append(@, pfence)] /\ ppc' = "wait" /\ UNCHANGED pfence
      <3>1. CASE pfence[1] = q
        <4>1. gpu'[q] = Append(<<>>, pfence)
          BY <3>1, <2>1, <2>2, <1>0 DEF GpuTypes
        <4>2. gpu'[q] = <<pfence>>
          BY <4>1
        <4> QED BY <4>2, <3>1, <2>2 DEF Emptied
      <3>2. CASE pfence[1] # q
        <4>1. gpu'[q] = gpu[q]
          BY <3>2, <2>2, <1>0 DEF GpuTypes
        <4> QED BY <4>1, <2>1, <1>1
      <3> QED BY <3>1, <3>2
    <2>3. CASE UNCHANGED gpu
      BY <2>1, <2>3, <1>1
    <2> QED BY <1>8, <2>2, <2>3 DEF PresentSubmit, Submit
  <1>9. CASE UNCHANGED gpu
    BY <1>2, <1>3, <1>4, <1>9
  <1>10. (\E s \in Rings : WaitDone(s)) \/ UNCHANGED gpuVars => UNCHANGED gpu
    BY DEF WaitDone, WaitOver, gpuVars
  <1> QED BY <1>4, <1>5, <1>6, <1>7, <1>8, <1>9, <1>10, GpuFrame

LEMMA QuietKept == ASSUME Calm, Types, Bindings, Owned, Clean, Quiet, Next PROVE Quiet'
  <1>0. /\ Ending /\ \A d \in Devices : Waited(d)
        /\ device \in [Devices -> {"live", "ending", "idle", "dropped"}]
        /\ bound \in [Rings -> Queues \cup {None}] /\ DeviceOf \in [Queues -> Devices]
    BY QueueConstants DEF Quiet, Ending, Waited, Emptied, Types, EnderTypes, RingTypes
  <1>1. Ending'
    BY <1>0, EndingKept
  \* Which device has been waited for.
  <1>2. ASSUME NEW d \in Devices, device'[d] \in {"idle", "dropped"}
        PROVE  \/ device[d] \in {"idle", "dropped"}
               \/ /\ WaitIdle /\ Doomed(d) = {} /\ DeviceIdle(d) /\ UNCHANGED <<bound, gpu>>
    <2>1. CASE WaitIdle
      <3>1. PICK c \in Devices : /\ device[c] = "ending" /\ IdleAnswered(c)
                                 /\ device' = [device EXCEPT ![c] = "idle"]
        BY <2>1 DEF WaitIdle
      <3>2. CASE c = d
        BY <3>1, <3>2, <2>1, <1>0 DEF WaitIdle, Ending, IdleAnswered, Calm, ringVars, gpuVars
      <3>3. CASE c # d
        BY <3>1, <3>3, <1>0, <1>2
      <3> QED BY <3>2, <3>3
    <2>2. CASE DropDevice
      BY <2>2, <1>0, <1>2 DEF DropDevice, Ending
    <2>3. ASSUME NEW c \in Devices, DestroyDevice(c) PROVE device[d] \in {"idle", "dropped"}
      BY <2>3, <1>0, <1>2 DEF DestroyDevice
    <2>4. ~TeardownInstance
      BY DEF TeardownInstance, Calm
    <2>5. LockBound \/ (\E r \in Rings : Forget(r)) \/ JoinSync \/ Forgotten => UNCHANGED device
      BY DEF LockBound, Forget, JoinSync, Forgotten
    <2> QED BY <2>1, <2>2, <2>3, <2>4, <2>5, <1>2, EnderFrame DEF Ender
  <1>3. ASSUME NEW d \in Devices, device[d] \in {"idle", "dropped"} PROVE Doomed(d)' = {}
    <2>1. \A r \in Rings : bound[r] = None \/ DeviceOf[bound[r]] # d
      BY <1>0, <1>3 DEF Waited, Doomed
    <2>2. ASSUME NEW r \in Rings, NEW q \in Queues, Bind(r, q) PROVE Doomed(d)' = {}
      <3>1. bound' = [bound EXCEPT ![r] = q] /\ DeviceOf[q] # d
        BY <2>2, <1>3 DEF Bind
      <3>2. \A s \in Rings : bound'[s] = None \/ DeviceOf[bound'[s]] # d
        BY <3>1, <2>1, <1>0
      <3> QED BY <3>2 DEF Doomed
    <2>3. CASE JoinSync
      <3>1. bound' = [bound EXCEPT ![ender.ring] = None]
        BY <2>3 DEF JoinSync
      <3>2. \A s \in Rings : bound'[s] = None \/ DeviceOf[bound'[s]] # d
        BY <3>1, <2>1, <1>0
      <3> QED BY <3>2 DEF Doomed
    <2>4. CASE UNCHANGED bound
      BY <2>1, <2>4 DEF Doomed
    <2>5. ASSUME NEW s \in Rings, CreateFence(s) \/ Sync(s) \/ Forget(s) PROVE UNCHANGED bound
      BY <2>5 DEF CreateFence, Sync, SyncRecv, SyncEnd, WaitDone, WaitStopped, WaitFailed, WaitOver,
        SyncRetire, Forget, ringVars
    <2>6. RetireUnbound \/ SubmitFence \/ PresentTake \/ PresentSubmit \/ PresentWait
            \/ UNCHANGED <<pool, ringVars, made, answered>> => UNCHANGED bound
      BY DEF RetireUnbound, SubmitFence, PresentTake, PresentSubmit, PresentWait, ringVars
    <2> QED BY <2>2, <2>3, <2>4, <2>5, <2>6, RingFrame
  <1>4. ASSUME NEW d \in Devices, Doomed(d) = {}, NEW q \in QueuesOf(d) PROVE q \in Queues /\ q \notin BoundQueues
    <2>1. q \in Queues /\ DeviceOf[q] = d /\ q # None
      BY QueueConstants DEF QueuesOf
    <2> QED BY <2>1, <1>4 DEF Doomed, BoundQueues
  <1>5. ASSUME NEW d \in Devices PROVE Waited(d)'
    <2>1. SUFFICES ASSUME device'[d] \in {"idle", "dropped"}
                   PROVE  Doomed(d)' = {} /\ \A q \in QueuesOf(d) : Emptied(q)'
      BY DEF Waited, QueuesOf
    <2>2. CASE device[d] \in {"idle", "dropped"}
      <3>1. Doomed(d) = {} /\ \A q \in QueuesOf(d) : Emptied(q)
        BY <2>2, <1>0 DEF Waited
      <3> QED BY <3>1, <2>2, <1>3, <1>4, EmptiedKept
    <2>3. CASE WaitIdle /\ Doomed(d) = {} /\ DeviceIdle(d) /\ UNCHANGED <<bound, gpu>>
      BY <2>3 DEF Doomed, DeviceIdle, Emptied
    <2> QED BY <2>1, <2>2, <2>3, <1>2
  <1> QED BY <1>1, <1>5 DEF Quiet, Ending, Waited, Emptied

-----------------------------------------------------------------------------
(* The invariant, and what it means                                        *)

LEMMA Starts == Init => Inv
  BY TypesStart, BindingsStart, OrderStart, OwnedStart, CleanStart, CoversStart, DrawnStart,
    PresentingStart
    DEF Inv

LEMMA StepKeeps == Inv /\ [Next]_vars => Inv'
  <1> SUFFICES ASSUME Inv, [Next]_vars PROVE Inv'
    OBVIOUS
  <1>0. Types /\ Bindings /\ Order /\ Owned /\ Clean /\ Covers /\ Drawn /\ Presenting
    BY DEF Inv
  <1>1. CASE Next
    <2>1. Types' /\ Bindings' /\ Order' /\ Owned'
      BY <1>0, <1>1, TypesKept, BindingsKept, OrderKept, OwnedKept
    <2>2. Clean' /\ Covers' /\ Drawn' /\ Presenting'
      BY <1>0, <1>1, CleanKept, CoversKept, DrawnKept, PresentingKept
    <2> QED BY <2>1, <2>2 DEF Inv
  <1>2. CASE UNCHANGED vars
    <2>0. /\ UNCHANGED <<gpu, sent, finished, signalled, hung>> /\ UNCHANGED <<written, drew, pool>>
          /\ UNCHANGED <<bound, jobs, going, closed, sync, hand>> /\ UNCHANGED <<device, vmm, ender, made, answered>>
          /\ UNCHANGED <<presents, shown, pjobs, ppc, barrier, held, left, pfence, partial>>
      BY <1>2 DEF vars, gpuVars, guestVars, ringVars, presentVars
    <2>1. Types'
      <3>1. GpuTypes' /\ GuestTypes' /\ RingTypes'
        BY <2>0, <1>0 DEF Types, GpuTypes, GuestTypes, RingTypes
      <3>2. VmmTypes' /\ EnderTypes'
        BY <2>0, <1>0 DEF Types, VmmTypes, EnderTypes
      <3>3. PresentTypes'
        BY <2>0, <1>0 DEF Types, PresentTypes
      <3> QED BY <3>1, <3>2, <3>3 DEF Types
    <2>2. Bindings'
      BY <2>0, <1>0 DEF Bindings
    <2>3. Order'
      BY <2>0, <1>0 DEF Order, InHand, Making
    <2>4. Owned'
      BY <2>0, <1>0 DEF Owned, Places, At
    <2>5. Clean'
      BY <2>0, <1>0 DEF Clean, Untouched, InFlight
    <2>6. Covers'
      <3>1. Ordered' /\ StoppedByItsEnd' /\ NeverYet'
        BY <2>0, <1>0 DEF Covers, Ordered, StoppedByItsEnd, NeverYet
      <3>2. \A q \in Queues : SentIs(q)'
        BY <2>0, <1>0 DEF Covers, SentIs, Ahead
      <3>3. Stands'
        <4>1. \A r \in Rings : /\ Places(r)' = Places(r)
                               /\ \A i \in Places(r) : At(r, i)' = At(r, i) /\ Cover(r, i)' = Cover(r, i)
          BY <2>0 DEF Places, At, Cover
        <4>2. \A f, k : StandsFor(f, k)' <=> StandsFor(f, k)
          BY <2>0 DEF StandsFor, Ahead
        <4>3. Stands
          BY <1>0 DEF Covers, Stands
        <4> QED BY <4>1, <4>2, <4>3 DEF Stands
      <3> QED BY <3>1, <3>2, <3>3 DEF Covers, NeverYet, SentIs, Stands
    <2>7. Drawn'
      BY <2>0, <1>0 DEF Drawn, BoundQueues
    <2>8. Presenting'
      BY <2>0, <1>0 DEF Presenting, StandsFor, Ahead
    <2> QED BY <2>1, <2>2, <2>3, <2>4, <2>5, <2>6, <2>7, <2>8 DEF Inv
  <1> QED BY <1>1, <1>2

\* A venus context's fences, its bindings and its presents keep the invariant.
THEOREM Invariance == Spec => []Inv
  BY Starts, StepKeeps, PTL DEF Spec

\* A fence retired as waited for stands for all the work its queue had before it, and one
\* retired by a stopped thread has its own device's end to blame (sync_thread).
THEOREM RetiredBehindWork == Spec => [](Ordered /\ StoppedByItsEnd)
  <1>1. Inv => Ordered /\ StoppedByItsEnd
    BY DEF Inv, Covers
  <1> QED BY <1>1, Invariance, PTL

\* Each ring's place in the order bounds what it has answered.
LEMMA TypesMean == Inv => TypeOK
  <1> SUFFICES ASSUME Inv PROVE TypeOK
    OBVIOUS
  <1>0. GpuTypes /\ GuestTypes /\ RingTypes /\ VmmTypes /\ EnderTypes /\ PresentTypes
    BY DEF Inv, Types
  <1>1. ASSUME NEW q \in Queues PROVE finished[q] \in 0..sent[q] /\ sent[q] <= MaxDraws
    <2>1. PICK a \in Nat, s \in Nat, c \in Nat : a = finished[q] /\ s = sent[q] /\ s = a + c
      <3>1. gpu[q] \in Seq({Work} \cup VkFence) /\ finished[q] \in Nat /\ sent[q] \in Nat
        BY <1>0 DEF GpuTypes
      <3>2. Len(gpu[q]) \in Nat
        BY <3>1, LenProperties
      <3>3. Counted(gpu[q], Len(gpu[q])) \in Nat
        BY <3>2, CountType
      <3>4. Ahead(q, Len(gpu[q])) \in Nat
        BY <3>3 DEF Ahead, Counted
      <3>5. sent[q] = finished[q] + Ahead(q, Len(gpu[q]))
        BY DEF Inv, Covers
      <3> QED BY <3>1, <3>4, <3>5
    <2>2. PICK l \in Nat, w \in Nat : l = Len(drew) /\ w = written /\ w <= MaxDraws /\ l <= w
      <3>1. Len(drew) \in Nat
        BY <1>0, LenProperties DEF GuestTypes
      <3>2. written \in Nat /\ written <= MaxDraws
        BY <1>0, QueueConstants DEF GuestTypes
      <3> QED BY <3>1, <3>2, <1>0 DEF GuestTypes
    <2>3. s <= l
      BY <2>1, <2>2, <1>0 DEF GuestTypes
    <2> QED BY <2>1, <2>2, <2>3, QueueConstants
  <1>2. ASSUME NEW r \in Rings
        PROVE  /\ sync[r] = "off" <=> bound[r] = None
               /\ sync[r] = "wait" => hand[r].fence # None
               /\ answered[r] <= made[r] /\ made[r] <= MaxFences
    <2>1. (sync[r] = "off" <=> bound[r] = None) /\ (sync[r] = "wait" => hand[r].fence # None)
      BY DEF Inv, Bindings, Owned
    <2>2. Len(jobs[r]) \in Nat /\ InHand(r) \in Nat /\ Making(r) \in Nat /\ answered[r] \in Nat
      BY <1>0, LenProperties DEF RingTypes, InHand, Making
    <2>3. made[r] = answered[r] + InHand(r) + Len(jobs[r]) + Making(r)
      BY DEF Inv, Order
    <2>4. answered[r] <= made[r]
      <3>1. PICK a \in Nat, h \in Nat, l \in Nat, m \in Nat :
               a = answered[r] /\ h = InHand(r) /\ l = Len(jobs[r]) /\ m = Making(r)
        BY <2>2
      <3>2. made[r] = a + h + l + m
        BY <2>3, <3>1
      <3> QED BY <3>1, <3>2
    <2>5. made[r] <= MaxFences
      BY <1>0, QueueConstants DEF RingTypes
    <2> QED BY <2>1, <2>4, <2>5
  <1>3. shown <= presents /\ presents <= MaxPresents
    <2>1. Len(pjobs) \in Nat /\ shown \in Nat
      BY <1>0, LenProperties DEF PresentTypes
    <2>2. PICK n \in Nat : n = Len(pjobs)
      BY <2>1
    <2>3. presents = shown + n + (IF ppc \in {"off", "recv"} THEN 0 ELSE 1)
      BY <2>2, <1>0 DEF PresentTypes
    <2>4. presents \in Nat /\ presents <= MaxPresents
      BY <1>0, QueueConstants DEF PresentTypes
    <2> QED BY <2>1, <2>3, <2>4
  <1>4. /\ gpu \in [Queues -> Seq({Work} \cup VkFence)] /\ signalled \subseteq VkFence /\ hung \subseteq Hung
        /\ written \in 0..MaxDraws /\ Len(drew) <= written
        /\ pool \in [VkFence -> {"none", "spare", "out"}]
        /\ bound \in [Rings -> Queues \cup {None}]
        /\ going \in [Rings -> BOOLEAN] /\ closed \in [Rings -> BOOLEAN]
    BY <1>0 DEF GpuTypes, GuestTypes, RingTypes
  <1>5. /\ device \in [Devices -> {"live", "ending", "idle", "dropped"}]
        /\ vmm.at \in {"idle", "took", "unbound"}
        /\ ender.at \in {"none", "forget", "join", "wait", "lock", "drop"}
        /\ ppc \in {"off", "recv", "barrier", "snapshot", "each", "took", "wait"}
        /\ left \subseteq held
        /\ (pfence # None) <=> ppc \in {"took", "wait"}
    BY <1>0 DEF VmmTypes, EnderTypes, PresentTypes
  <1> QED BY <1>1, <1>2, <1>3, <1>4, <1>5 DEF TypeOK

\* A set with no two members has one at most.
LEMMA AtMostOne ==
  ASSUME NEW S, \A x, y \in S : x = y PROVE Cardinality(S) = IF S = {} THEN 0 ELSE 1
  <1>1. CASE S = {}
    BY <1>1, FS_EmptySet
  <1>2. CASE S # {}
    <2>1. PICK x : S = {x}
      BY <1>2
    <2> QED BY <2>1, <1>2, FS_Singleton
  <1> QED BY <1>1, <1>2

\* A fence has one user, and none unless it is out.
LEMMA UsesMean == ASSUME Inv, NEW f \in VkFence PROVE Uses(f) <= 1 /\ (pool[f] = "spare" => Uses(f) = 0)
  <1>0. Owned /\ Types /\ f # None
    BY FenceQueue DEF Inv
  <1> DEFINE A == {at \in Rings \X (1..MaxFences) :
                     at[2] <= Len(jobs[at[1]]) /\ jobs[at[1]][at[2]].fence = f}
             B == {r \in Rings : sync[r] = "wait" /\ hand[r].fence = f}
  <1>1. ASSUME NEW at \in A
        PROVE  /\ at[1] \in Rings /\ at[2] \in Places(at[1]) /\ at[2] # 0 /\ At(at[1], at[2]) = f
               /\ at = <<at[1], at[2]>>
    <2>1. at[1] \in Rings /\ at[2] \in 1..MaxFences /\ at = <<at[1], at[2]>>
      OBVIOUS
    <2>2. Len(jobs[at[1]]) \in Nat
      BY <2>1, <1>0, PlaceTypes
    <2>3. at[2] \in Nat /\ 1 <= at[2] /\ at[2] <= Len(jobs[at[1]])
      BY <2>1, QueueConstants
    <2>4. at[2] \in Places(at[1]) /\ at[2] # 0
      BY <2>2, <2>3 DEF Places
    <2> QED BY <2>1, <2>4 DEF At
  <1>2. ASSUME NEW r \in B PROVE r \in Rings /\ 0 \in Places(r) /\ At(r, 0) = f
    BY <1>0, PlaceTypes DEF Places, At
  <1> HIDE DEF A, B
  <1>3. \A x, y \in A : x = y
    <2> SUFFICES ASSUME NEW x \in A, NEW y \in A PROVE x = y
      OBVIOUS
    <2>1. x[1] = y[1] /\ x[2] = y[2]
      BY <1>0, <1>1 DEF Owned
    <2> QED BY <2>1, <1>1
  <1>4. \A x, y \in B : x = y
    BY <1>0, <1>2 DEF Owned
  <1>5. A = {} \/ B = {}
    <2> SUFFICES ASSUME NEW x \in A, NEW y \in B PROVE FALSE
      OBVIOUS
    <2> QED BY <1>0, <1>1, <1>2 DEF Owned
  <1>6. A # {} \/ B # {} => vmm.fence # f /\ pfence # f /\ pool[f] = "out"
    BY <1>0, <1>1, <1>2 DEF Owned
  <1>7. vmm.fence = f => pfence # f /\ pool[f] = "out"
    BY <1>0 DEF Owned
  <1>8. pfence = f => pool[f] = "out"
    BY <1>0 DEF Owned
  <1>9. Uses(f) = Cardinality(A) + Cardinality(B) + (IF vmm.fence = f THEN 1 ELSE 0) + (IF pfence = f THEN 1 ELSE 0)
    BY DEF Uses, A, B
  <1>10. /\ Cardinality(A) = IF A = {} THEN 0 ELSE 1
         /\ Cardinality(B) = IF B = {} THEN 0 ELSE 1
    BY <1>3, <1>4, AtMostOne
  <1>11. CASE pool[f] = "out"
    <2>1. Uses(f) <= 1
      BY <1>5, <1>6, <1>7, <1>9, <1>10
    <2> QED BY <2>1, <1>11
  <1>12. CASE pool[f] # "out"
    <2>1. Uses(f) = 0
      BY <1>6, <1>7, <1>8, <1>9, <1>10, <1>12
    <2> QED BY <2>1
  <1> QED BY <1>11, <1>12

\* The pool gives a fence to one user at a time, neither signalled nor in flight
\* (HostQueue's take_fence and put_fence).
THEOREM PoolStaysSound == Spec => []PoolSound
  <1>1. Inv => PoolSound
    <2> SUFFICES ASSUME Inv PROVE PoolSound
      OBVIOUS
    <2>1. TypeOK
      BY TypesMean
    <2>2. ASSUME NEW f \in VkFence, pool[f] = "spare"
          PROVE  f \notin signalled /\ \A i \in 1..Len(gpu[f[1]]) : gpu[f[1]][i] # f
      BY <2>2 DEF Inv, Clean, Untouched, InFlight
    <2> QED BY <2>1, <2>2, UsesMean DEF PoolSound
  <1> QED BY <1>1, Invariance, PTL

\* A present that retires whole stands for all its frame drew on queues whose device lives
\* (present_thread's two phases).
THEOREM PresentStandsForFrame == Spec => []PresentCovers
  <1>1. Inv => PresentCovers
    <2> SUFFICES ASSUME Inv, ppc = "each", left = {}, ~partial, NEW i \in 1..barrier.frame
                 PROVE  /\ i <= Len(drew)
                        /\ drew[i].queue # None /\ device[DeviceOf[drew[i].queue]] = "live"
                             => drew[i].piece <= finished[drew[i].queue]
      BY DEF PresentCovers
    <2>1. PresentTypes /\ Presenting /\ Types
      BY DEF Inv, Types
    <2>2. pfence = None /\ barrier.frame \in Nat
      BY <2>1 DEF PresentTypes, Present
    <2>3. barrier.frame <= Len(drew)
      BY <2>1 DEF Presenting
    <2>4. Len(drew) \in Nat
      BY <2>1, LenProperties DEF Types, GuestTypes
    <2>5. i <= Len(drew)
      BY <2>2, <2>3, <2>4
    <2>6. drew[i].queue # None /\ device[DeviceOf[drew[i].queue]] = "live"
            => drew[i].piece <= finished[drew[i].queue]
      BY <2>1, <2>2 DEF Presenting
    <2> QED BY <2>5, <2>6
  <1> QED BY <1>1, Invariance, PTL

\* Where devices end by vkDestroyDevice alone and no call fails, nothing is in flight on a
\* device that is destroyed: its rings are forgotten before the idle wait (destroy_device).
THEOREM DestroyedStaysIdle == ASSUME Calm PROVE Spec => []DestroyedIdle
  <1>1. Inv /\ Quiet => DestroyedIdle
    <2> SUFFICES ASSUME Inv, Quiet, NEW d \in Devices, Gone(d), NEW q \in QueuesOf(d) PROVE gpu[q] = <<>>
      BY DEF DestroyedIdle, DeviceIdle
    <2>1. gpu[q] = <<>> \/ (ppc = "wait" /\ pfence[1] = q)
      BY DEF Quiet, Gone
    <2>2. ppc = "wait" => pfence[1] \in held
      BY DEF Inv, Types, PresentTypes
    <2> QED BY <2>1, <2>2 DEF Gone
  <1>2. Inv /\ Quiet /\ [Next]_vars => Quiet'
    <2>1. CASE Next
      BY <2>1, QuietKept DEF Inv
    <2>2. CASE UNCHANGED vars
      BY <2>2 DEF vars, gpuVars, ringVars, presentVars, Quiet, Doomed, QueuesOf
    <2> QED BY <2>1, <2>2
  <1> QED BY <1>1, <1>2, QuietStart, Invariance, PTL DEF Spec

-----------------------------------------------------------------------------
(* The order of fences                                                     *)

LEMMA StepImplements == Inv /\ [Next]_vars => [FO!Next]_FO!vars
  <1> SUFFICES ASSUME Inv, [Next]_vars PROVE [FO!Next]_FO!vars
    OBVIOUS
  <1>0. /\ made \in [Rings -> 0..MaxFences] /\ answered \in [Rings -> Nat] /\ Order /\ MaxFences \in Nat
        /\ jobs \in [Rings -> Seq(Job)]
    BY QueueConstants DEF Inv, Types, RingTypes
  <1>1. ASSUME NEW r \in Rings, answered' = [answered EXCEPT ![r] = answered[r] + 1], UNCHANGED made,
               answered[r] < made[r]
        PROVE  FO!Next
    BY <1>1 DEF FO!Next, FO!Answer
  <1>2. ASSUME NEW r \in Rings, CreateFence(r) PROVE FO!Next
    BY <1>2 DEF CreateFence, FO!Next, FO!Make
  <1>3. CASE RetireUnbound
    <2>1. PICK r \in Rings : r = vmm.ring /\ vmm.at = "unbound"
      BY <1>3 DEF RetireUnbound, Inv, Types, VmmTypes
    <2>2. answered' = [answered EXCEPT ![r] = made[r]] /\ UNCHANGED made
      BY <1>3, <2>1 DEF RetireUnbound
    <2>3. Len(jobs[r]) = 0 /\ InHand(r) = 0 /\ Making(r) = 1
      BY <2>1, <1>0 DEF Order, InHand, Making
    <2>4. made[r] = answered[r] + InHand(r) + Len(jobs[r]) + Making(r)
      BY <1>0 DEF Order
    <2>5. made[r] = answered[r] + 1 /\ answered[r] < made[r]
      BY <2>3, <2>4, <1>0
    <2> QED BY <2>2, <2>5, <1>1
  <1>4. ASSUME NEW r \in Rings, SyncRetire(r) PROVE FO!Next
    <2>1. sync[r] = "retire" /\ answered' = [answered EXCEPT ![r] = hand[r].seqno] /\ UNCHANGED made
      BY <1>4 DEF SyncRetire
    <2>2. hand[r].seqno = answered[r] + 1
      BY <2>1, <1>0 DEF Order
    <2>3. Len(jobs[r]) \in Nat /\ Making(r) \in Nat /\ InHand(r) = 1
      BY <2>1, <1>0, LenProperties DEF InHand, Making
    <2>4. made[r] = answered[r] + InHand(r) + Len(jobs[r]) + Making(r)
      BY <1>0 DEF Order
    <2>5. answered[r] < made[r]
      <3>1. PICK a \in Nat, l \in Nat, m \in Nat : a = answered[r] /\ l = Len(jobs[r]) /\ m = Making(r)
        BY <2>3, <1>0
      <3>2. made[r] = a + 1 + l + m
        BY <2>3, <2>4, <3>1
      <3> QED BY <3>1, <3>2
    <2> QED BY <2>1, <2>2, <2>5, <1>1
  <1>5. CASE UNCHANGED <<made, answered>>
    BY <1>5 DEF FO!vars
  <1>6. UNCHANGED vars => UNCHANGED <<made, answered>>
    BY DEF vars
  <1>7. ASSUME NEW s \in Rings, Sync(s), ~SyncRetire(s) PROVE UNCHANGED <<made, answered>>
    BY <1>7 DEF Sync, SyncRecv, SyncEnd, WaitDone, WaitStopped, WaitFailed, WaitOver
  <1>8. ASSUME NEW s \in Rings, Forget(s) \/ \E q \in Queues : Bind(s, q) PROVE UNCHANGED <<made, answered>>
    BY <1>8 DEF Forget, Bind
  <1>9. SubmitFence \/ JoinSync \/ PresentTake \/ PresentSubmit \/ PresentWait
          \/ UNCHANGED <<pool, ringVars, made, answered>> => UNCHANGED <<made, answered>>
    BY DEF SubmitFence, JoinSync, PresentTake, PresentSubmit, PresentWait
  <1> QED BY <1>2, <1>3, <1>4, <1>5, <1>6, <1>7, <1>8, <1>9, RingFrame

\* A ring's fences are retired in the order they were made, whether its queue waited them out
\* or it had none (RingQueues::fence).
THEOREM ImplementsSafety == Spec => FO!Safety
  <1>1. Init => FO!Init
    BY DEF Init, FO!Init
  <1> QED BY <1>1, Invariance, StepImplements, PTL DEF Spec, FO!Safety
=============================================================================
