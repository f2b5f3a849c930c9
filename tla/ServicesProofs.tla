--------------------------- MODULE ServicesProofs ---------------------------
(***************************************************************************)
(* The theorems about the parts of MCServices, in the specification that   *)
(* has them side by side: each part's steps are its own or leave it alone, *)
(* so an invariant of it is one of the whole.                              *)
(*                                                                         *)
(* What is about a part with a module of proofs is cited from it.  The     *)
(* lemmas on the retirement queue, cleanup, the timelines, the monitor and *)
(* the copy for present are here, and their invariants beside the parts    *)
(* (Retirement, Shutdown, Timeline and Monitor, IInv; PresentCopy, Sound   *)
(* and Watched).  The last theorem is of all these invariants at once.     *)
(***************************************************************************)
EXTENDS MCServices, FiniteSetTheorems, SequenceTheorems, TLAPS

-----------------------------------------------------------------------------
(* The retirement queue: each stream's fences are delivered in order, none    *)
(* refused and none lost, for any number of shares, streams and fences.       *)

\* A fence is not the stop and a job is not the empty hand.
LEMMA RetKinds ==
  /\ \A f \in Ret!Fence : f # Stop /\ f # None /\ f.stream \in Streams /\ f.seqno \in Nat
  /\ Stop # None
  /\ \A s \in Streams, n \in Nat \ {0} : [stream |-> s, seqno |-> n] \in Ret!Fence
  BY ConstantsOK, JobsDistinct DEF Fence, Ret!Fence

\* The initial state satisfies the invariant.
LEMMA RetStarts == Ret!Init => Ret!IInv
  <1> SUFFICES ASSUME Ret!Init PROVE Ret!IInv
    OBVIOUS
  <1> USE ConstantsOK DEF Ret!Init
  <1>1. Ret!TypeOK
    <2>1. jobs \in Seq(Ret!Job) /\ delivered \in Seq(Ret!Fence)
      OBVIOUS
    <2>2. made \in [Streams -> 0..MaxFences]
      OBVIOUS
    <2> QED BY <2>1, <2>2 DEF Ret!TypeOK
  <1>2. Ret!InOrder /\ Ret!Numbered
    BY DEF Ret!InOrder, Ret!PerRingOrder, Ret!Numbered
  <1>3. Ret!Present /\ Ret!StopIsLast /\ Ret!NoFenceRefused
    BY DEF Ret!Present, Ret!StopIsLast, Ret!NoFenceRefused
  <1> QED BY <1>1, <1>2, <1>3 DEF Ret!IInv

\* A fence queued by a share: it is the newest of its stream.
LEMMA RetRetireKeeps ==
  ASSUME Ret!IInv, NEW h \in Holders, NEW s \in Streams, Ret!Retire(h, s)
  PROVE  Ret!IInv'
  <1> DEFINE f == [stream |-> s, seqno |-> made[s] + 1]
  <1> USE DEF Ret!IInv
  <1>1. /\ made[s] \in 0..MaxFences
        /\ made[s] < MaxFences
        /\ made' = [made EXCEPT ![s] = @ + 1]
        /\ made' \in [Streams -> 0..MaxFences]
        /\ f \in Ret!Fence
    BY ConstantsOK DEF Ret!Retire, Ret!TypeOK, Ret!Fence
  <1>2. h \in holders /\ ~stopped
    BY DEF Ret!Retire, Ret!StopIsLast
  <1>3. /\ jobs' = Append(jobs, f)
        /\ UNCHANGED <<stopped, holders, hand, dropper, delivered, refused>>
        /\ thread' = Ret!Wake(thread)
    BY <1>2 DEF Ret!Retire, Ret!push, Ret!Enqueue
  <1>4. Ret!TypeOK'
    BY <1>1, <1>3 DEF Ret!TypeOK, Ret!Wake, Ret!Job
  <1>5. /\ Len(jobs') = Len(jobs) + 1
        /\ \A i \in 1..Len(jobs) : jobs'[i] = jobs[i]
        /\ jobs'[Len(jobs) + 1] = f
    BY <1>3, <1>1 DEF Ret!TypeOK, Ret!Job
  <1>6. /\ \A i \in 1..Len(jobs) : Ret!Earlier(jobs[i], f)
        /\ \A i \in 1..Len(delivered) : Ret!Earlier(delivered[i], f)
        /\ hand # None => Ret!Earlier(hand, f)
    BY <1>1, RetKinds DEF Ret!Numbered, Ret!TypeOK, Ret!Earlier, Ret!Job
  <1>7. Ret!InOrder'
    <2>1. Ret!PerRingOrder'
      BY <1>3 DEF Ret!InOrder, Ret!PerRingOrder, Ret!Earlier
    <2>2. \A i, j \in 1..Len(jobs') : i < j => Ret!Earlier(jobs'[i], jobs'[j])
      <3> SUFFICES ASSUME NEW i \in 1..Len(jobs'), NEW j \in 1..Len(jobs'), i < j
                   PROVE  Ret!Earlier(jobs'[i], jobs'[j])
        OBVIOUS
      <3>1. Len(jobs) \in Nat
        BY DEF Ret!TypeOK
      <3>2. CASE j = Len(jobs) + 1
        BY <3>1, <3>2, <1>5, <1>6
      <3>3. CASE j # Len(jobs) + 1
        BY <3>1, <3>3, <1>5 DEF Ret!InOrder
      <3> QED BY <3>2, <3>3
    <2>3. \A i \in 1..Len(delivered), j \in 1..Len(jobs') : Ret!Earlier(delivered[i], jobs'[j])
      BY <1>5, <1>6, SMTT(60) DEF Ret!InOrder, Ret!TypeOK
    <2>4. hand # None =>
            /\ \A i \in 1..Len(delivered) : Ret!Earlier(delivered[i], hand)
            /\ \A j \in 1..Len(jobs') : Ret!Earlier(hand, jobs'[j])
      BY <1>5, <1>6, SMTT(60) DEF Ret!InOrder, Ret!TypeOK
    <2> QED BY <1>3, <2>1, <2>2, <2>3, <2>4 DEF Ret!InOrder, Ret!PerRingOrder, Ret!Earlier
  <1>8. Ret!Numbered'
    BY <1>1, <1>3, <1>5, RetKinds DEF Ret!Numbered, Ret!TypeOK, Ret!Job
  <1>9. Ret!Present'
    <2> SUFFICES ASSUME NEW t \in Streams, NEW n \in 1..made'[t]
                 PROVE  \/ Ret!Delivered(t, n)'
                        \/ hand' = [stream |-> t, seqno |-> n]
                        \/ Ret!Queued(t, n)'
      BY DEF Ret!Present
    <2>1. CASE n \in 1..made[t]
      <3>1. Ret!Delivered(t, n) => Ret!Delivered(t, n)'
        BY <1>3 DEF Ret!Delivered
      <3>2. Ret!Queued(t, n) => Ret!Queued(t, n)'
        <4>1. Len(jobs) \in Nat
          BY DEF Ret!TypeOK
        <4> QED BY <4>1, <1>5 DEF Ret!Queued
      <3> QED BY <2>1, <3>1, <3>2, <1>3 DEF Ret!Present
    <2>2. CASE n \notin 1..made[t]
      <3>1. t = s /\ n = made[s] + 1
        BY <2>2, <1>1 DEF Ret!TypeOK
      <3> QED BY <3>1, <1>5 DEF Ret!Queued, Ret!TypeOK
    <2> QED BY <2>1, <2>2
  <1>10. Ret!StopIsLast'
    BY <1>1, <1>2, <1>3, <1>5, RetKinds DEF Ret!StopIsLast, Ret!TypeOK, Ret!Wake
  <1>11. Ret!NoFenceRefused'
    BY <1>3 DEF Ret!NoFenceRefused
  <1> QED BY <1>4, <1>7, <1>8, <1>9, <1>10, <1>11

\* A share made, or dropped while others remain: the queue does not move.
LEMMA RetShareKeeps ==
  ASSUME Ret!IInv, NEW h \in Holders, Ret!Share(h)
  PROVE  Ret!IInv'
  <1> USE DEF Ret!IInv
  <1>1. /\ holders' = holders \cup {h} /\ holders # {}
        /\ UNCHANGED <<jobs, stopped, made, thread, hand, dropper, delivered, refused>>
    BY DEF Ret!Share
  <1>2. Ret!TypeOK'
    BY <1>1 DEF Ret!TypeOK
  <1>3. Ret!InOrder' /\ Ret!Numbered' /\ Ret!Present' /\ Ret!NoFenceRefused'
    BY <1>1 DEF Ret!InOrder, Ret!PerRingOrder, Ret!Earlier, Ret!Numbered, Ret!Present,
      Ret!Delivered, Ret!Queued, Ret!NoFenceRefused
  <1>4. Ret!StopIsLast'
    BY <1>1 DEF Ret!StopIsLast
  <1> QED BY <1>2, <1>3, <1>4

\* A share dropped.  The last one finds a thread that is still running, since
\* only the Stop it now pushes ends it.
LEMMA RetDropKeeps ==
  ASSUME Ret!IInv, NEW h \in Holders, Ret!DropShare(h)
  PROVE  Ret!IInv'
  <1> USE DEF Ret!IInv
  <1>1. h \in holders /\ holders' = holders \ {h} /\ ~stopped
        /\ UNCHANGED <<stopped, made, hand, delivered>>
    BY DEF Ret!DropShare, Ret!StopIsLast
  <1>2. CASE Ret!LastShare(h)
    <2>1. /\ jobs' = Append(jobs, Stop)
          /\ thread' = Ret!Wake(thread)
          /\ dropper' = "joining"
          /\ holders' = {}
          /\ UNCHANGED refused
      BY <1>1, <1>2 DEF Ret!DropShare, Ret!LastShare, Ret!push, Ret!Enqueue
    <2>2. Ret!TypeOK'
      BY <1>1, <2>1 DEF Ret!TypeOK, Ret!Wake, Ret!Job
    <2>3. /\ Len(jobs) \in Nat
          /\ Len(jobs') = Len(jobs) + 1
          /\ \A i \in 1..Len(jobs) : jobs'[i] = jobs[i]
          /\ jobs'[Len(jobs) + 1] = Stop
      BY <2>1 DEF Ret!TypeOK, Ret!Job
    <2>4. Ret!InOrder'
      <3>1. \A i, j \in 1..Len(jobs') : i < j => Ret!Earlier(jobs'[i], jobs'[j])
        <4> SUFFICES ASSUME NEW i \in 1..Len(jobs'), NEW j \in 1..Len(jobs'), i < j
                     PROVE  Ret!Earlier(jobs'[i], jobs'[j])
          OBVIOUS
        <4>1. CASE j = Len(jobs) + 1
          BY <4>1, <2>3 DEF Ret!Earlier
        <4>2. CASE j # Len(jobs) + 1
          BY <4>2, <2>3 DEF Ret!InOrder
        <4> QED BY <4>1, <4>2
      <3>2. \A i \in 1..Len(delivered), j \in 1..Len(jobs') : Ret!Earlier(delivered[i], jobs'[j])
        BY <2>3 DEF Ret!InOrder, Ret!Earlier
      <3>3. hand # None => \A j \in 1..Len(jobs') : Ret!Earlier(hand, jobs'[j])
        BY <2>3 DEF Ret!InOrder, Ret!Earlier
      <3> QED BY <1>1, <3>1, <3>2, <3>3 DEF Ret!InOrder, Ret!PerRingOrder, Ret!Earlier
    <2>5. Ret!Numbered'
      BY <1>1, <2>3 DEF Ret!Numbered
    <2>6. Ret!Present'
      BY <1>1, <2>3 DEF Ret!Present, Ret!Delivered, Ret!Queued
    <2>7. Ret!StopIsLast'
      BY <1>1, <2>1, <2>3, RetKinds DEF Ret!StopIsLast, Ret!TypeOK, Ret!Wake
    <2> QED BY <2>1, <2>2, <2>4, <2>5, <2>6, <2>7 DEF Ret!NoFenceRefused
  <1>3. CASE ~Ret!LastShare(h)
    <2>1. holders' # {} /\ UNCHANGED <<jobs, thread, refused, dropper>>
      BY <1>1, <1>3 DEF Ret!DropShare, Ret!LastShare
    <2>2. Ret!TypeOK'
      BY <1>1, <2>1 DEF Ret!TypeOK
    <2>3. Ret!InOrder' /\ Ret!Numbered' /\ Ret!Present' /\ Ret!NoFenceRefused'
      BY <1>1, <2>1 DEF Ret!InOrder, Ret!PerRingOrder, Ret!Earlier, Ret!Numbered, Ret!Present,
        Ret!Delivered, Ret!Queued, Ret!NoFenceRefused
    <2>4. Ret!StopIsLast'
      BY <1>1, <2>1 DEF Ret!StopIsLast
    <2> QED BY <2>2, <2>3, <2>4
  <1> QED BY <1>2, <1>3

\* The join, a wait and a spurious wake move only a program counter.
LEMMA RetCountersKeep ==
  ASSUME Ret!IInv, Ret!Join \/ Ret!Sleep \/ Ret!SpuriousWake
  PROVE  Ret!IInv'
  <1> USE DEF Ret!IInv
  <1>1. UNCHANGED <<jobs, stopped, holders, made, hand, delivered, refused>>
    BY DEF Ret!Join, Ret!Sleep, Ret!SpuriousWake
  <1>2. Ret!TypeOK'
    BY <1>1 DEF Ret!TypeOK, Ret!Join, Ret!Sleep, Ret!SpuriousWake
  <1>3. Ret!InOrder' /\ Ret!Numbered' /\ Ret!Present' /\ Ret!NoFenceRefused'
    BY <1>1 DEF Ret!InOrder, Ret!PerRingOrder, Ret!Earlier, Ret!Numbered, Ret!Present,
      Ret!Delivered, Ret!Queued, Ret!NoFenceRefused
  <1>4. Ret!StopIsLast'
    BY <1>1 DEF Ret!StopIsLast, Ret!Join, Ret!Sleep, Ret!SpuriousWake, Ret!ThreadOver
  <1> QED BY <1>2, <1>3, <1>4

\* The oldest job is taken in hand.
LEMMA RetPopKeeps ==
  ASSUME Ret!IInv, Ret!Pop
  PROVE  Ret!IInv'
  <1> USE DEF Ret!IInv
  <1>1. /\ jobs # <<>> /\ thread = "looking" /\ hand = None
        /\ hand' = Head(jobs) /\ jobs' = Tail(jobs) /\ thread' = "delivering"
        /\ UNCHANGED <<stopped, holders, made, dropper, delivered, refused>>
    BY DEF Ret!Pop, Ret!PopFront, Ret!TypeOK
  <1>2. /\ Len(jobs) \in Nat \ {0}
        /\ Len(jobs') = Len(jobs) - 1
        /\ \A i \in 1..Len(jobs') : jobs'[i] = jobs[i + 1]
        /\ hand' = jobs[1] /\ hand' \in Ret!Job
        /\ jobs' \in Seq(Ret!Job)
    BY <1>1 DEF Ret!TypeOK
  <1>3. hand' # None
    BY <1>2, RetKinds DEF Ret!Job
  <1>4. Ret!TypeOK'
    BY <1>1, <1>2, <1>3 DEF Ret!TypeOK
  <1>5. Ret!InOrder'
    <2>1. \A i, j \in 1..Len(jobs') : i < j => Ret!Earlier(jobs'[i], jobs'[j])
      <3>1. \A i, j \in 1..Len(jobs) : i < j => Ret!Earlier(jobs[i], jobs[j])
        BY DEF Ret!InOrder
      <3>2. \A j \in 1..Len(jobs') : j + 1 \in 1..Len(jobs) /\ jobs'[j] = jobs[j + 1]
        BY <1>2
      <3>3. \A i, j \in 1..Len(jobs') : i < j => i + 1 < j + 1
        BY <1>2
      <3> QED BY <3>1, <3>2, <3>3
    <2>2. \A i \in 1..Len(delivered), j \in 1..Len(jobs') : Ret!Earlier(delivered[i], jobs'[j])
      <3>1. \A i \in 1..Len(delivered), j \in 1..Len(jobs) : Ret!Earlier(delivered[i], jobs[j])
        BY DEF Ret!InOrder
      <3>2. \A j \in 1..Len(jobs') : j + 1 \in 1..Len(jobs) /\ jobs'[j] = jobs[j + 1]
        BY <1>2
      <3> QED BY <3>1, <3>2
    <2>3. \A i \in 1..Len(delivered) : Ret!Earlier(delivered[i], hand')
      BY <1>2 DEF Ret!InOrder
    <2>4. \A j \in 1..Len(jobs') : Ret!Earlier(hand', jobs'[j])
      BY <1>2 DEF Ret!InOrder
    <2> QED BY <1>1, <2>1, <2>2, <2>3, <2>4 DEF Ret!InOrder, Ret!PerRingOrder, Ret!Earlier
  <1>6. Ret!Numbered'
    BY <1>1, <1>2 DEF Ret!Numbered
  <1>7. Ret!Present'
    <2>0. \A s \in Streams : \A n \in 1..made[s] : hand # [stream |-> s, seqno |-> n]
      BY <1>1, RetKinds DEF Ret!TypeOK
    <2> SUFFICES ASSUME NEW s \in Streams, NEW n \in 1..made[s], Ret!Queued(s, n)
                 PROVE  hand' = [stream |-> s, seqno |-> n] \/ Ret!Queued(s, n)'
      BY <1>1, <2>0 DEF Ret!Present, Ret!Delivered
    <2>1. PICK i \in 1..Len(jobs) : jobs[i] = [stream |-> s, seqno |-> n]
      BY DEF Ret!Queued
    <2>2. CASE i = 1
      BY <2>1, <2>2, <1>2
    <2>3. CASE i # 1
      <3>1. i - 1 \in 1..Len(jobs') /\ jobs'[i - 1] = jobs[i]
        BY <2>3, <1>2
      <3> QED BY <2>1, <3>1 DEF Ret!Queued
    <2> QED BY <2>2, <2>3
  <1>8. Ret!StopIsLast'
    <2>1. \A i \in 1..Len(jobs') : jobs'[i] = Stop => i = Len(jobs') /\ holders = {}
      BY <1>2 DEF Ret!StopIsLast
    <2>2. hand' = Stop => jobs' = <<>> /\ holders = {}
      <3>1. hand' = Stop => Len(jobs) = 1 /\ holders = {}
        <4>1. 1 \in 1..Len(jobs) /\ hand' = jobs[1]
          BY <1>2
        <4>2. \A i \in 1..Len(jobs) : jobs[i] = Stop => i = Len(jobs) /\ holders = {}
          BY DEF Ret!StopIsLast
        <4> QED BY <4>1, <4>2
      <3>2. Len(jobs) = 1 => jobs' = <<>>
        BY <1>2
      <3> QED BY <3>1, <3>2
    <2> QED BY <1>1, <2>1, <2>2 DEF Ret!StopIsLast
  <1> QED BY <1>1, <1>4, <1>5, <1>6, <1>7, <1>8 DEF Ret!NoFenceRefused

\* The fence in hand reaches the sink.
LEMMA RetDeliverKeeps ==
  ASSUME Ret!IInv, Ret!Deliver
  PROVE  Ret!IInv'
  <1> USE DEF Ret!IInv
  <1>1. /\ thread = "delivering" /\ hand # Stop /\ hand # None /\ hand \in Ret!Fence
        /\ delivered' = Append(delivered, hand)
        /\ hand' = None /\ thread' = "looking"
        /\ UNCHANGED <<jobs, stopped, holders, made, dropper, refused>>
    BY DEF Ret!Deliver, Ret!HandAfter, Ret!TypeOK, Ret!Job
  <1>2. /\ Len(delivered) \in Nat
        /\ Len(delivered') = Len(delivered) + 1
        /\ \A i \in 1..Len(delivered) : delivered'[i] = delivered[i]
        /\ delivered'[Len(delivered) + 1] = hand
        /\ delivered' \in Seq(Ret!Fence)
    BY <1>1 DEF Ret!TypeOK
  <1>3. Ret!TypeOK'
    BY <1>1, <1>2 DEF Ret!TypeOK
  <1>4. Ret!InOrder'
    <2>1. \A i, j \in 1..Len(delivered') : i < j => Ret!Earlier(delivered'[i], delivered'[j])
      <3> SUFFICES ASSUME NEW i \in 1..Len(delivered'), NEW j \in 1..Len(delivered'), i < j
                   PROVE  Ret!Earlier(delivered'[i], delivered'[j])
        OBVIOUS
      <3>1. CASE j = Len(delivered) + 1
        BY <3>1, <1>1, <1>2 DEF Ret!InOrder
      <3>2. CASE j # Len(delivered) + 1
        BY <3>2, <1>2 DEF Ret!InOrder, Ret!PerRingOrder
      <3> QED BY <3>1, <3>2
    <2>2. \A i \in 1..Len(delivered'), j \in 1..Len(jobs) : Ret!Earlier(delivered'[i], jobs[j])
      BY <1>1, <1>2 DEF Ret!InOrder
    <2> QED BY <1>1, <2>1, <2>2 DEF Ret!InOrder, Ret!PerRingOrder, Ret!Earlier
  <1>5. Ret!Numbered'
    BY <1>1, <1>2 DEF Ret!Numbered
  <1>6. Ret!Present'
    BY <1>1, <1>2 DEF Ret!Present, Ret!Delivered, Ret!Queued
  <1>7. Ret!StopIsLast'
    BY <1>1, RetKinds DEF Ret!StopIsLast
  <1> QED BY <1>1, <1>3, <1>4, <1>5, <1>6, <1>7 DEF Ret!NoFenceRefused

\* The thread takes the Stop, which nothing followed.
LEMMA RetFinishKeeps ==
  ASSUME Ret!IInv, Ret!Finish
  PROVE  Ret!IInv'
  <1> USE DEF Ret!IInv
  <1>1. /\ hand = Stop /\ jobs = <<>> /\ holders = {}
        /\ stopped' = TRUE /\ hand' = None /\ thread' = "gone"
        /\ UNCHANGED <<jobs, holders, made, dropper, delivered, refused>>
    BY DEF Ret!Finish, Ret!StopIsLast
  <1>2. Ret!TypeOK'
    BY <1>1 DEF Ret!TypeOK
  <1>3. Ret!InOrder'
    BY <1>1 DEF Ret!InOrder, Ret!PerRingOrder, Ret!Earlier
  <1>4. Ret!Numbered' /\ Ret!Present'
    BY <1>1, RetKinds DEF Ret!Numbered, Ret!Present, Ret!Delivered, Ret!Queued, Ret!TypeOK
  <1>5. Ret!StopIsLast'
    BY <1>1, RetKinds DEF Ret!StopIsLast
  <1> QED BY <1>1, <1>2, <1>3, <1>4, <1>5 DEF Ret!NoFenceRefused

\* Every step keeps the invariant.
LEMMA RetStepKeeps == Ret!IInv /\ [Ret!Next]_(Ret!vars) => Ret!IInv'
  <1> SUFFICES ASSUME Ret!IInv, [Ret!Next]_(Ret!vars) PROVE Ret!IInv'
    OBVIOUS
  <1>1. ASSUME NEW h \in Holders, Ret!Share(h) PROVE Ret!IInv'
    BY <1>1, RetShareKeeps
  <1>2. ASSUME NEW h \in Holders, Ret!DropShare(h) PROVE Ret!IInv'
    BY <1>2, RetDropKeeps
  <1>3. ASSUME NEW h \in Holders, NEW s \in Streams, Ret!Retire(h, s) PROVE Ret!IInv'
    BY <1>3, RetRetireKeeps
  <1>4. ASSUME Ret!Join \/ Ret!Sleep \/ Ret!SpuriousWake PROVE Ret!IInv'
    BY <1>4, RetCountersKeep
  <1>5. ASSUME Ret!Pop PROVE Ret!IInv'
    BY <1>5, RetPopKeeps
  <1>6. ASSUME Ret!Deliver PROVE Ret!IInv'
    BY <1>6, RetDeliverKeeps
  <1>7. ASSUME Ret!Finish PROVE Ret!IInv'
    BY <1>7, RetFinishKeeps
  <1>8. ASSUME UNCHANGED Ret!vars PROVE Ret!IInv'
    <2>1. UNCHANGED <<jobs, stopped, holders, made, thread, hand, dropper, delivered, refused>>
      BY <1>8 DEF Ret!vars
    <2> QED BY <2>1 DEF Ret!IInv, Ret!TypeOK, Ret!InOrder, Ret!PerRingOrder, Ret!Earlier,
      Ret!Numbered, Ret!Present, Ret!Delivered, Ret!Queued, Ret!StopIsLast, Ret!NoFenceRefused
  <1> QED BY <1>1, <1>2, <1>3, <1>4, <1>5, <1>6, <1>7, <1>8 DEF Ret!Next, Ret!Thread

\* The invariant holds of every reachable state.
THEOREM RetirementInductive == Ret!Spec => []Ret!IInv
  BY RetStarts, RetStepKeeps, PTL DEF Ret!Spec

\* Every variable keeps its type, for any shares, streams and bound.
THEOREM RetirementTypes == Ret!Spec => []Ret!TypeOK
  <1>1. Ret!IInv => Ret!TypeOK
    BY DEF Ret!IInv
  <1> QED BY <1>1, RetirementInductive, PTL

\* What FenceSink::context_fence documents: creation order within a ring.
THEOREM RetirementDeliversInOrder == Ret!Spec => []Ret!PerRingOrder
  <1>1. Ret!IInv => Ret!PerRingOrder
    BY DEF Ret!IInv, Ret!InOrder
  <1> QED BY <1>1, RetirementInductive, PTL

\* push's assertion cannot fail, in whatever order the shares are dropped.
THEOREM RetirementRefusesNone == Ret!Spec => []Ret!NoFenceRefused
  <1>1. Ret!IInv => Ret!NoFenceRefused
    BY DEF Ret!IInv
  <1> QED BY <1>1, RetirementInductive, PTL

\* Once the last drop has returned every fence has been delivered, because the
\* thread that ended left neither a queue nor a job in hand.
LEMMA RetLosesNothing == Ret!IInv => Ret!NothingLost
  <1> SUFFICES ASSUME Ret!IInv, dropper = "joined", NEW s \in Streams, NEW n \in 1..made[s]
               PROVE  Ret!Delivered(s, n)
    BY DEF Ret!NothingLost
  <1>1. jobs = <<>> /\ hand = None
    BY DEF Ret!IInv, Ret!StopIsLast
  <1>2. [stream |-> s, seqno |-> n] # None
    BY RetKinds DEF Ret!IInv, Ret!TypeOK
  <1> QED BY <1>1, <1>2 DEF Ret!IInv, Ret!Present, Ret!Queued

\* So none is lost with the queue (fence.rs Inner::drop).
THEOREM RetirementLosesNone == Ret!Spec => []Ret!NothingLost
  BY RetLosesNothing, RetirementInductive, PTL

-----------------------------------------------------------------------------
(* The queue implements FenceOrder, fairness apart: a delivery is the answer  *)
(* to the next fence of its stream, a retirement makes one, and no other      *)
(* step shows.                                                                *)

\* The position of a stream's last delivery gives its last number.
LEMMA RetLastIs ==
  ASSUME delivered \in Seq(Ret!Fence), NEW s \in Streams, NEW i \in 1..Len(delivered), Ret!IsLast(s, i)
  PROVE  Ret!LastSeqno(s) = delivered[i].seqno
  <1> DEFINE here == {j \in 1..Len(delivered) : delivered[j].stream = s}
  <1>1. i \in here /\ here # {} /\ \A j \in here : j <= i
    BY DEF Ret!IsLast
  <1>2. \A k \in here : (\A j \in here : j <= k) => k = i
    BY <1>1
  <1>3. (CHOOSE k \in here : \A j \in here : j <= k) = i
    BY <1>1, <1>2
  <1> HIDE DEF here
  <1>4. Ret!LastSeqno(s) = delivered[CHOOSE k \in here : \A j \in here : j <= k].seqno
    BY <1>1 DEF Ret!LastSeqno, here
  <1> QED BY <1>3, <1>4

\* The same of the next state.
LEMMA RetLastIsNext ==
  ASSUME delivered' \in Seq(Ret!Fence), NEW s \in Streams, NEW i \in 1..Len(delivered'),
         Ret!IsLast(s, i)'
  PROVE  Ret!LastSeqno(s)' = delivered'[i].seqno
  <1> DEFINE here == {j \in 1..Len(delivered') : delivered'[j].stream = s}
  <1>1. i \in here /\ here # {} /\ \A j \in here : j <= i
    BY DEF Ret!IsLast
  <1>2. \A k \in here : (\A j \in here : j <= k) => k = i
    BY <1>1
  <1>3. (CHOOSE k \in here : \A j \in here : j <= k) = i
    BY <1>1, <1>2
  <1> HIDE DEF here
  <1>4. Ret!LastSeqno(s)' = delivered'[CHOOSE k \in here : \A j \in here : j <= k].seqno
    BY <1>1 DEF Ret!LastSeqno, here
  <1> QED BY <1>3, <1>4

\* What is in hand is the fence its stream answers next: those before it were
\* delivered, and none after it was.
LEMMA RetHandIsNext ==
  ASSUME Ret!IInv, hand \in Ret!Fence
  PROVE  Ret!LastSeqno(hand.stream) = hand.seqno - 1
  <1> DEFINE s == hand.stream
             n == hand.seqno
  <1>0. /\ s \in Streams /\ n \in 1..MaxFences /\ n <= made[s] /\ made[s] \in Nat
        /\ hand = [stream |-> s, seqno |-> n]
    BY RetKinds, ConstantsOK DEF Ret!IInv, Ret!Numbered, Ret!TypeOK, Ret!Fence
  <1>1. \A j \in 1..Len(delivered) : delivered[j].stream = s => delivered[j].seqno < n
    BY RetKinds DEF Ret!IInv, Ret!InOrder, Ret!Earlier, Ret!TypeOK
  <1>2. delivered \in Seq(Ret!Fence) /\ \A j \in 1..Len(delivered) : delivered[j].seqno \in Nat \ {0}
    <2>1. \A f \in Ret!Fence : f.seqno \in Nat \ {0}
      BY ConstantsOK DEF Ret!Fence
    <2>2. delivered \in Seq(Ret!Fence)
      BY DEF Ret!IInv, Ret!TypeOK
    <2>3. \A j \in 1..Len(delivered) : delivered[j] \in Ret!Fence
      BY <2>2
    <2> QED BY <2>1, <2>2, <2>3
  <1>3. CASE n = 1
    <2>1. {j \in 1..Len(delivered) : delivered[j].stream = s} = {}
      BY <1>1, <1>2, <1>3
    <2> QED BY <2>1, <1>3 DEF Ret!LastSeqno
  <1>4. CASE n # 1
    <2>1. n - 1 \in 1..made[s]
      BY <1>0, <1>4
    <2>2. ~Ret!Queued(s, n - 1)
      <3> SUFFICES ASSUME NEW j \in 1..Len(jobs), jobs[j] = [stream |-> s, seqno |-> n - 1]
                   PROVE  FALSE
        BY DEF Ret!Queued
      <3>1. jobs[j] \in Ret!Fence /\ hand # None
        BY <1>0, <2>1, RetKinds
      <3>2. Ret!Earlier(hand, jobs[j])
        BY <3>1 DEF Ret!IInv, Ret!InOrder
      <3> QED BY <3>1, <3>2, <1>0, RetKinds DEF Ret!Earlier
    <2>3. hand # [stream |-> s, seqno |-> n - 1]
      BY <1>0
    <2>4. PICK i \in 1..Len(delivered) : delivered[i] = [stream |-> s, seqno |-> n - 1]
      BY <1>0, <2>1, <2>2, <2>3 DEF Ret!IInv, Ret!Present, Ret!Delivered
    <2>5. ASSUME NEW j \in 1..Len(delivered), delivered[j].stream = s PROVE j <= i
      <3> SUFFICES ASSUME i < j PROVE FALSE
        OBVIOUS
      <3>1. Ret!Earlier(delivered[i], delivered[j])
        BY DEF Ret!IInv, Ret!InOrder, Ret!PerRingOrder
      <3>2. delivered[i] \in Ret!Fence /\ delivered[j] \in Ret!Fence
        BY <1>2
      <3>3. n - 1 < delivered[j].seqno
        BY <3>1, <3>2, <2>4, <2>5, RetKinds DEF Ret!Earlier
      <3> QED BY <3>3, <1>1, <1>2, <1>0, <2>5
    <2>6. Ret!LastSeqno(s) = delivered[i].seqno
      BY <1>0, <1>2, <2>4, <2>5, RetLastIs, SMTT(60) DEF Ret!IsLast
    <2> QED BY <2>4, <2>6
  <1> QED BY <1>3, <1>4

\* What a delivery does to the sequence of deliveries.
LEMMA RetDeliverAppends ==
  ASSUME Ret!IInv, Ret!Deliver
  PROVE  /\ hand \in Ret!Fence /\ made' = made
         /\ Len(delivered) \in Nat /\ Len(delivered') = Len(delivered) + 1
         /\ \A i \in 1..Len(delivered) : delivered'[i] = delivered[i]
         /\ delivered'[Len(delivered) + 1] = hand
         /\ delivered \in Seq(Ret!Fence) /\ delivered' \in Seq(Ret!Fence)
  <1>1. hand \in Ret!Fence /\ delivered' = Append(delivered, hand) /\ made' = made
    BY DEF Ret!IInv, Ret!TypeOK, Ret!Deliver, Ret!Job
  <1>2. delivered \in Seq(Ret!Fence)
    BY DEF Ret!IInv, Ret!TypeOK
  <1> QED BY <1>1, <1>2

\* The stream of a delivery has it as its last, the others keep theirs.
LEMMA RetDeliverLasts ==
  ASSUME Ret!IInv, Ret!Deliver, NEW s \in Streams
  PROVE  /\ \A i : hand.stream = s /\ i = Len(delivered) + 1 => Ret!IsLast(s, i)'
         /\ \A i : hand.stream # s /\ Ret!IsLast(s, i) => Ret!IsLast(s, i)'
  <1>1. ASSUME NEW i, hand.stream = s, i = Len(delivered) + 1 PROVE Ret!IsLast(s, i)'
    BY <1>1, RetDeliverAppends DEF Ret!IsLast
  <1>2. ASSUME NEW i, hand.stream # s, Ret!IsLast(s, i) PROVE Ret!IsLast(s, i)'
    BY <1>2, RetDeliverAppends DEF Ret!IsLast
  <1> QED BY <1>1, <1>2

\* Only a delivery adds to the sequence, and it becomes the last of its stream:
\* a stream that has deliveries keeps having a last one.
LEMMA RetHasLastKept == Ret!IInv /\ Ret!HasLast /\ [Ret!Next]_(Ret!vars) => Ret!HasLast'
  <1> SUFFICES ASSUME Ret!IInv, Ret!HasLast, [Ret!Next]_(Ret!vars), NEW s \in Streams,
                      NEW j \in 1..Len(delivered'), delivered'[j].stream = s
               PROVE  \E i \in 1..Len(delivered') : Ret!IsLast(s, i)'
    BY DEF Ret!HasLast
  <1>1. CASE Ret!Deliver
    <2>1. CASE hand.stream = s
      <3>1. PICK i : i = Len(delivered) + 1
        OBVIOUS
      <3>2. Ret!IsLast(s, i)' /\ i \in 1..Len(delivered')
        BY <1>1, <2>1, <3>1, RetDeliverLasts, RetDeliverAppends
      <3> QED BY <3>2
    <2>2. CASE hand.stream # s
      <3>1. j \in 1..Len(delivered) /\ delivered[j].stream = s
        BY <1>1, <2>2, RetDeliverAppends
      <3>2. PICK i \in 1..Len(delivered) : Ret!IsLast(s, i)
        BY <3>1 DEF Ret!HasLast
      <3> QED BY <1>1, <2>2, <3>2, RetDeliverLasts, RetDeliverAppends
    <2> QED BY <2>1, <2>2
  <1>2. CASE UNCHANGED delivered
    BY <1>2 DEF Ret!HasLast, Ret!IsLast
  <1>3. Ret!Deliver \/ UNCHANGED delivered
    BY DEF Ret!Next, Ret!Thread, Ret!Share, Ret!DropShare, Ret!Retire, Ret!Join, Ret!Pop, Ret!Sleep,
      Ret!Finish, Ret!SpuriousWake, Ret!vars
  <1> QED BY <1>1, <1>2, <1>3

\* A stream whose last delivery stays where it is keeps its number.
LEMMA RetLastStays ==
  ASSUME Ret!IInv, Ret!HasLast, NEW t \in Streams, Ret!IInv',
         \/ UNCHANGED delivered
         \/ Ret!Deliver /\ hand.stream # t
  PROVE  Ret!LastSeqno(t)' = Ret!LastSeqno(t)
  <1>1. CASE UNCHANGED delivered
    BY <1>1 DEF Ret!LastSeqno
  <1>2. CASE Ret!Deliver /\ hand.stream # t
    <2>1. CASE \E i \in 1..Len(delivered) : Ret!IsLast(t, i)
      <3>1. PICK i \in 1..Len(delivered) : Ret!IsLast(t, i)
        BY <2>1
      <3>2. Ret!IsLast(t, i)' /\ i \in 1..Len(delivered') /\ delivered'[i] = delivered[i]
        BY <1>2, <3>1, RetDeliverLasts, RetDeliverAppends
      <3>3. Ret!LastSeqno(t) = delivered[i].seqno
        BY <1>2, <3>1, RetLastIs, RetDeliverAppends
      <3>4. Ret!LastSeqno(t)' = delivered'[i].seqno
        BY <1>2, <3>2, RetLastIsNext, RetDeliverAppends
      <3> QED BY <3>2, <3>3, <3>4
    <2>2. CASE ~\E i \in 1..Len(delivered) : Ret!IsLast(t, i)
      <3>1. {j \in 1..Len(delivered) : delivered[j].stream = t} = {}
        BY <2>2 DEF Ret!HasLast
      <3>2. {j \in 1..Len(delivered') : delivered'[j].stream = t} = {}
        BY <1>2, <3>1, RetDeliverAppends
      <3> QED BY <3>1, <3>2 DEF Ret!LastSeqno
    <2> QED BY <2>1, <2>2
  <1> QED BY <1>1, <1>2

\* A delivery answers its stream's next fence.
LEMMA RetDeliverAnswers ==
  ASSUME Ret!IInv, Ret!IInv', Ret!HasLast, Ret!Deliver, NEW s \in Streams, hand.stream = s
  PROVE  Ret!FO!Answer(s)
  <1>1. hand \in Ret!Fence /\ made' = made /\ Len(delivered) \in Nat
    BY RetDeliverAppends
  <1>2. hand.seqno \in Nat \ {0} /\ hand.seqno <= made[s] /\ made[s] \in Nat
    BY <1>1, RetKinds, ConstantsOK DEF Ret!IInv, Ret!Numbered, Ret!TypeOK, Ret!Fence
  <1>3. Ret!LastSeqno(s) = hand.seqno - 1
    BY <1>1, RetHandIsNext
  <1>4. Ret!LastSeqno(s)' = hand.seqno
    <2>1. PICK i : i = Len(delivered) + 1
      OBVIOUS
    <2>2. Ret!IsLast(s, i)' /\ i \in 1..Len(delivered') /\ delivered'[i] = hand
      BY <2>1, RetDeliverLasts, RetDeliverAppends
    <2>3. Ret!LastSeqno(s)' = delivered'[i].seqno
      BY <2>2, RetLastIsNext, RetDeliverAppends
    <2> QED BY <2>2, <2>3
  <1>5. ASSUME NEW t \in Streams, t # s PROVE Ret!LastSeqno(t)' = Ret!LastSeqno(t)
    BY <1>5, RetLastStays
  <1>6. [t \in Streams |-> Ret!LastSeqno(t)]'
          = [[t \in Streams |-> Ret!LastSeqno(t)] EXCEPT ![s] = @ + 1]
    <2>1. \A t \in Streams :
            Ret!LastSeqno(t)' = IF t = s THEN Ret!LastSeqno(t) + 1 ELSE Ret!LastSeqno(t)
      BY <1>2, <1>3, <1>4, <1>5
    <2>2. [t \in Streams |-> Ret!LastSeqno(t)]'
            = [t \in Streams |-> IF t = s THEN Ret!LastSeqno(t) + 1 ELSE Ret!LastSeqno(t)]
      BY <2>1
    <2> QED BY <2>2
  <1>7. [t \in Streams |-> Ret!LastSeqno(t)][s] < made[s]
    BY <1>2, <1>3
  <1> QED BY <1>1, <1>6, <1>7 DEF Ret!FO!Answer

\* A step of the queue that delivers nothing leaves every stream's number.
LEMMA RetOthersHide ==
  ASSUME UNCHANGED delivered
  PROVE  UNCHANGED [t \in Streams |-> Ret!LastSeqno(t)]
  BY DEF Ret!LastSeqno

\* ContextRetirer::retire is the making of a fence.
LEMMA RetRetireMakes ==
  ASSUME Ret!IInv, NEW h \in Holders, NEW s \in Streams, Ret!Retire(h, s)
  PROVE  Ret!FO!Make(s)
  <1>1. UNCHANGED delivered /\ made[s] < MaxFences /\ made' = [made EXCEPT ![s] = @ + 1]
    BY DEF Ret!Retire
  <1> QED BY <1>1, RetOthersHide DEF Ret!FO!Make

\* Every step of the queue and of its thread is a step of FenceOrder or a stutter.
LEMMA RetStepsImplement ==
  Ret!IInv /\ Ret!IInv' /\ Ret!HasLast /\ [Ret!Next]_(Ret!vars) => [Ret!FO!Next]_(Ret!FO!vars)
  <1> SUFFICES ASSUME Ret!IInv, Ret!IInv', Ret!HasLast, [Ret!Next]_(Ret!vars)
               PROVE  [Ret!FO!Next]_(Ret!FO!vars)
    OBVIOUS
  <1>1. CASE Ret!Deliver
    <2>1. PICK s \in Streams : hand.stream = s
      BY <1>1, RetDeliverAppends, RetKinds
    <2> QED BY <1>1, <2>1, RetDeliverAnswers DEF Ret!FO!Next
  <1>2. ASSUME NEW h \in Holders, NEW s \in Streams, Ret!Retire(h, s) PROVE Ret!FO!Next
    BY <1>2, RetRetireMakes DEF Ret!FO!Next
  <1>3. CASE UNCHANGED <<made, delivered>>
    BY <1>3, RetOthersHide DEF Ret!FO!vars
  <1>4. \/ Ret!Deliver
        \/ \E h \in Holders, s \in Streams : Ret!Retire(h, s)
        \/ UNCHANGED <<made, delivered>>
    BY DEF Ret!Next, Ret!Thread, Ret!Share, Ret!DropShare, Ret!Join, Ret!Pop, Ret!Sleep, Ret!Finish,
      Ret!SpuriousWake, Ret!vars
  <1> QED BY <1>1, <1>2, <1>3, <1>4

\* A queue that starts is a FenceOrder that starts: nothing made, nothing answered.
LEMMA RetStartsImplement == Ret!Init => Ret!FO!Init /\ Ret!HasLast
  <1> SUFFICES ASSUME Ret!Init PROVE Ret!FO!Init /\ Ret!HasLast
    OBVIOUS
  <1>1. delivered = <<>> /\ made = [s \in Streams |-> 0]
    BY DEF Ret!Init
  <1>2. Ret!HasLast
    BY <1>1 DEF Ret!HasLast
  <1>3. \A s \in Streams : Ret!LastSeqno(s) = 0
    BY <1>1 DEF Ret!LastSeqno
  <1> QED BY <1>1, <1>2, <1>3 DEF Ret!FO!Init

\* Each stream's fences are answered one at a time, in order, none skipped: the
\* queue implements FenceOrder, but for the fairness.
THEOREM RetirementAnswersInOrder == Ret!Spec => Ret!FO!Safety
  <1>1. Ret!Spec => []Ret!HasLast
    <2>1. Ret!Init => Ret!HasLast
      BY RetStartsImplement
    <2> QED BY <2>1, RetirementInductive, RetHasLastKept, PTL DEF Ret!Spec
  <1>2. Ret!Init => Ret!FO!Init
    BY RetStartsImplement
  <1> QED BY <1>1, <1>2, RetirementInductive, RetStepsImplement, PTL DEF Ret!Spec, Ret!FO!Safety

-----------------------------------------------------------------------------
(* Cleanup: no fence is lost with its context or with the queue, for any   *)
(* number of fences.                                                       *)

\* The shares and streams of the queue are those that Shutdown gives it.
Same == Holders = Shut!Shares /\ Owner = Shut!Root /\ Streams = Shut!Paths

\* What the renderer's threads do to the queue is what the queue's module says.
LEMMA ShutQueue ==
  /\ \A h, s : Shut!R!Retire(h, s) <=> Ret!Retire(h, s)
  /\ \A h : (Shut!R!Share(h) <=> Ret!Share(h)) /\ (Shut!R!DropShare(h) <=> Ret!DropShare(h))
  /\ (Shut!R!Pop <=> Ret!Pop) /\ (Shut!R!Sleep <=> Ret!Sleep)
  /\ (Shut!R!Deliver <=> Ret!Deliver) /\ (Shut!R!Finish <=> Ret!Finish)
  /\ (Shut!R!Join <=> Ret!Join)
  <1>1. \A h, s : Shut!R!Retire(h, s) <=> Ret!Retire(h, s)
    BY DEF Shut!R!Retire, Ret!Retire, Shut!R!push, Ret!push, Shut!R!Enqueue, Ret!Enqueue,
      Shut!R!Wake, Ret!Wake
  <1>2. \A h : Shut!R!Share(h) <=> Ret!Share(h)
    BY DEF Shut!R!Share, Ret!Share
  <1>3. \A h : Shut!R!DropShare(h) <=> Ret!DropShare(h)
    BY DEF Shut!R!DropShare, Ret!DropShare, Shut!R!LastShare, Ret!LastShare, Shut!R!push, Ret!push,
      Shut!R!Enqueue, Ret!Enqueue, Shut!R!Wake, Ret!Wake
  <1>4. (Shut!R!Pop <=> Ret!Pop) /\ (Shut!R!Sleep <=> Ret!Sleep)
    BY DEF Shut!R!Pop, Ret!Pop, Shut!R!PopFront, Ret!PopFront, Shut!R!Sleep, Ret!Sleep
  <1>5. (Shut!R!Deliver <=> Ret!Deliver) /\ (Shut!R!Finish <=> Ret!Finish)
    BY DEF Shut!R!Deliver, Ret!Deliver, Shut!R!HandAfter, Ret!HandAfter, Shut!R!Finish, Ret!Finish
  <1>6. Shut!R!Join <=> Ret!Join
    BY DEF Shut!R!Join, Ret!Join, Shut!R!ThreadOver, Ret!ThreadOver
  <1> QED BY <1>1, <1>2, <1>3, <1>4, <1>5, <1>6

\* So each step of Shutdown is one of the queue's, or leaves it alone.
LEMMA ShutSteps ==
  ASSUME Same, [Shut!Next]_(Shut!vars)
  PROVE  [Ret!Next]_(Ret!vars)
  <1>1. /\ {"renderer", "inner", "sync", "present"} \subseteq Holders
        /\ {"ring", "shown"} \subseteq Streams
    BY DEF Same, Shut!Shares, Shut!Paths
  <1>2. ASSUME UNCHANGED retVars PROVE UNCHANGED Ret!vars
    BY <1>2 DEF retVars, Ret!vars
  <1>3. CASE Shut!RetirementThread \/ Shut!Join
    BY <1>3, ShutQueue DEF Shut!RetirementThread, Shut!Deliver, Shut!Join, Ret!Next, Ret!Thread
  <1>4. CASE Shut!CreateContext \/ Shut!Bind
    BY <1>1, <1>4, ShutQueue DEF Shut!CreateContext, Shut!Bind, Ret!Next
  <1>5. CASE Shut!Present
    BY <1>1, <1>2, <1>5, ShutQueue DEF Shut!Present, Ret!Next, Shut!queueVars, retVars
  <1>6. CASE Shut!CreateFence
    BY <1>1, <1>2, <1>6, ShutQueue DEF Shut!CreateFence, Ret!Next, Shut!queueVars, retVars
  <1>7. CASE Shut!SyncRetire \/ Shut!PresentRetire
    BY <1>1, <1>7, ShutQueue DEF Shut!SyncRetire, Shut!PresentRetire, Ret!Next
  <1>8. CASE Shut!SyncEnd \/ Shut!DropOwner
    BY <1>1, <1>8, ShutQueue DEF Shut!SyncEnd, Shut!DropOwner, Ret!Next
  <1>9. CASE Shut!TearDrop
    BY <1>1, <1>2, <1>9, ShutQueue DEF Shut!TearDrop, Ret!Next, Shut!queueVars, retVars
  <1>10. CASE \/ Shut!Poll \/ Shut!BeginDispatch \/ Shut!EndDispatch \/ Shut!TearStop
              \/ Shut!TearJoin \/ Shut!DestroyContext \/ Shut!DropContext \/ Shut!Destroyed
              \/ Shut!Cleanup \/ Shut!Drain \/ UNCHANGED Shut!vars
    BY <1>2, <1>10 DEF Shut!Poll, Shut!BeginDispatch, Shut!EndDispatch, Shut!TearStop,
      Shut!TearJoin, Shut!DestroyContext, Shut!DropContext, Shut!Destroyed, Shut!Cleanup,
      Shut!Drain, Shut!vars, Shut!queueVars, retVars
  <1> QED BY <1>3, <1>4, <1>5, <1>6, <1>7, <1>8, <1>9, <1>10 DEF Shut!Next, Shut!Tear, Shut!Vmm

\* What the queue counts are numbers.
LEMMA ShutCounts ==
  ASSUME Same, Ret!IInv
  PROVE  /\ Len(jobs) \in Nat /\ Len(delivered) \in Nat
         /\ made \in [{"ring", "shown"} -> Nat]
         /\ made["ring"] \in Nat /\ made["shown"] \in Nat
         /\ holders = {} <=> dropper # "none"
         /\ stopped <=> thread = "gone"
         /\ thread = "gone" => holders = {} /\ jobs = <<>> /\ hand = None
  <1>1. jobs \in Seq(Ret!Job) /\ delivered \in Seq(Ret!Fence)
    BY DEF Ret!IInv, Ret!TypeOK
  <1>2. made \in [{"ring", "shown"} -> Nat]
    BY ConstantsOK DEF Ret!IInv, Ret!TypeOK, Same, Shut!Paths
  <1>3. /\ holders = {} <=> dropper # "none"
        /\ stopped <=> thread = "gone"
        /\ thread = "gone" => holders = {} /\ jobs = <<>> /\ hand = None
    BY DEF Ret!IInv, Ret!StopIsLast
  <1> QED BY <1>1, <1>2, <1>3

\* Every step of the queue keeps count.
LEMMA TallyKept ==
  ASSUME Same, Ret!IInv, Shut!Tallied, [Ret!Next]_(Ret!vars)
  PROVE  Shut!Tallied'
  <1> DEFINE inHand == IF hand = None THEN 0 ELSE 1
             stops  == IF dropper # "none" /\ thread # "gone" THEN 1 ELSE 0
  <1>0. Len(delivered) + Len(jobs) + inHand = made["ring"] + made["shown"] + stops
    BY DEF Shut!Tallied
  <1>1. ASSUME NEW h \in Holders, NEW s \in Streams, Ret!Retire(h, s) PROVE Shut!Tallied'
    <2>1. /\ h \in holders /\ ~stopped /\ made' = [made EXCEPT ![s] = @ + 1]
          /\ UNCHANGED <<hand, dropper, delivered>> /\ s \in {"ring", "shown"}
      BY <1>1, ShutCounts DEF Ret!Retire, Same, Shut!Paths
    <2>2. jobs' = Append(jobs, [stream |-> s, seqno |-> made[s] + 1]) /\ thread' = Ret!Wake(thread)
      BY <1>1, <2>1 DEF Ret!Retire, Ret!push, Ret!Enqueue
    <2>3. Len(jobs') = Len(jobs) + 1
      BY <2>2 DEF Ret!IInv, Ret!TypeOK
    <2>4. dropper = "none"
      BY <2>1, ShutCounts
    <2>5. made'["ring"] + made'["shown"] = made["ring"] + made["shown"] + 1
      BY <2>1, ShutCounts
    <2> QED BY <1>0, <2>1, <2>3, <2>4, <2>5, ShutCounts DEF Shut!Tallied
  <1>2. ASSUME NEW h \in Holders, Ret!DropShare(h) PROVE Shut!Tallied'
    <2>1. h \in holders /\ UNCHANGED <<made, hand, delivered>>
      BY <1>2 DEF Ret!DropShare
    <2>2. dropper = "none" /\ thread # "gone" /\ ~stopped
      BY <2>1, ShutCounts
    <2>3. CASE holders = {h}
      <3>1. jobs' = Append(jobs, Stop) /\ thread' = Ret!Wake(thread) /\ dropper' = "joining"
        BY <1>2, <2>2, <2>3 DEF Ret!DropShare, Ret!LastShare, Ret!push, Ret!Enqueue
      <3>2. Len(jobs') = Len(jobs) + 1
        BY <3>1 DEF Ret!IInv, Ret!TypeOK
      <3>3. thread' # "gone"
        BY <2>2, <3>1 DEF Ret!Wake
      <3> QED BY <1>0, <2>1, <2>2, <3>1, <3>2, <3>3, ShutCounts DEF Shut!Tallied
    <2>4. CASE holders # {h}
      BY <1>2, <2>1, <2>4 DEF Ret!DropShare, Ret!LastShare, Shut!Tallied
    <2> QED BY <2>3, <2>4
  <1>3. ASSUME Ret!Pop PROVE Shut!Tallied'
    <2>1. /\ jobs # <<>> /\ hand' = Head(jobs) /\ jobs' = Tail(jobs) /\ thread = "looking"
          /\ thread' = "delivering" /\ UNCHANGED <<made, dropper, delivered>>
      BY <1>3 DEF Ret!Pop, Ret!PopFront
    <2>2. Len(jobs') = Len(jobs) - 1 /\ hand' \in Ret!Job
      BY <2>1 DEF Ret!IInv, Ret!TypeOK
    <2>3. hand = None /\ hand' # None
      BY <2>1, <2>2, RetKinds DEF Ret!IInv, Ret!TypeOK, Ret!Job
    <2> QED BY <1>0, <2>1, <2>2, <2>3, ShutCounts DEF Shut!Tallied
  <1>4. ASSUME Ret!Deliver PROVE Shut!Tallied'
    <2>1. /\ thread = "delivering" /\ delivered' = Append(delivered, hand) /\ hand' = None
          /\ thread' = "looking" /\ UNCHANGED <<jobs, made, dropper>>
      BY <1>4 DEF Ret!Deliver, Ret!HandAfter
    <2>2. hand # None /\ Len(delivered') = Len(delivered) + 1
      BY <2>1 DEF Ret!IInv, Ret!TypeOK
    <2> QED BY <1>0, <2>1, <2>2, ShutCounts DEF Shut!Tallied
  <1>5. ASSUME Ret!Finish PROVE Shut!Tallied'
    <2>1. /\ thread = "delivering" /\ hand = Stop /\ hand' = None /\ thread' = "gone"
          /\ UNCHANGED <<jobs, made, dropper, delivered>>
      BY <1>5 DEF Ret!Finish
    <2>2. hand # None /\ dropper # "none"
      BY <2>1, RetKinds, ShutCounts DEF Ret!IInv, Ret!StopIsLast
    <2> QED BY <1>0, <2>1, <2>2, ShutCounts DEF Shut!Tallied
  <1>6. ASSUME Ret!Join \/ Ret!Sleep \/ Ret!SpuriousWake PROVE Shut!Tallied'
    <2>1. /\ UNCHANGED <<jobs, made, hand, delivered>>
          /\ dropper' # "none" <=> dropper # "none"
          /\ thread' # "gone" <=> thread # "gone"
      BY <1>6 DEF Ret!Join, Ret!Sleep, Ret!SpuriousWake
    <2> QED BY <2>1 DEF Shut!Tallied
  <1>7. ASSUME NEW h \in Holders, Ret!Share(h) PROVE Shut!Tallied'
    BY <1>7 DEF Ret!Share, Shut!Tallied
  <1>8. ASSUME UNCHANGED Ret!vars PROVE Shut!Tallied'
    BY <1>8 DEF Ret!vars, Shut!Tallied
  <1> QED BY <1>1, <1>2, <1>3, <1>4, <1>5, <1>6, <1>7, <1>8 DEF Ret!Next, Ret!Thread

\* What has been delivered moves with a delivery only, what is made with a retire.
LEMMA ShutStill ==
  ASSUME Shut!Next
  PROVE  /\ Shut!Deliver \/ delivered' = delivered
         /\ \/ Shut!CreateFence \/ Shut!SyncRetire \/ Shut!PresentRetire
            \/ made' = made
  <1>1. CASE Shut!RetirementThread \/ Shut!Join
    BY <1>1, ShutQueue DEF Shut!RetirementThread, Shut!Join, Shut!Deliver, Ret!Deliver, Ret!Pop,
      Ret!Sleep, Ret!Finish, Ret!Join
  <1>2. CASE Shut!CreateContext \/ Shut!Bind \/ Shut!Present
    BY <1>2, ShutQueue DEF Shut!CreateContext, Shut!Bind, Shut!Present, Ret!Share, Shut!queueVars
  <1>3. CASE Shut!CreateFence \/ Shut!SyncRetire \/ Shut!PresentRetire
    BY <1>3, ShutQueue DEF Shut!CreateFence, Shut!SyncRetire, Shut!PresentRetire, Ret!Retire,
      Shut!queueVars
  <1>4. CASE Shut!TearDrop \/ Shut!SyncEnd \/ Shut!DropOwner
    BY <1>4, ShutQueue DEF Shut!TearDrop, Shut!SyncEnd, Shut!DropOwner, Ret!DropShare,
      Shut!queueVars
  <1>5. CASE \/ Shut!Poll \/ Shut!BeginDispatch \/ Shut!EndDispatch \/ Shut!TearStop
             \/ Shut!TearJoin \/ Shut!DestroyContext \/ Shut!DropContext \/ Shut!Destroyed
             \/ Shut!Cleanup \/ Shut!Drain
    BY <1>5 DEF Shut!Poll, Shut!BeginDispatch, Shut!EndDispatch, Shut!TearStop, Shut!TearJoin,
      Shut!DestroyContext, Shut!DropContext, Shut!Destroyed, Shut!Cleanup, Shut!Drain,
      Shut!queueVars
  <1> QED BY <1>1, <1>2, <1>3, <1>4, <1>5 DEF Shut!Next, Shut!Tear, Shut!Vmm

\* Shares are made or dropped in a few places.
LEMMA ShutShares ==
  ASSUME \/ Shut!RetirementThread \/ Shut!Join \/ Shut!Poll \/ Shut!BeginDispatch
         \/ Shut!EndDispatch \/ Shut!TearStop \/ Shut!TearJoin \/ Shut!CreateFence
         \/ Shut!SyncRetire \/ Shut!PresentRetire \/ Shut!DestroyContext \/ Shut!DropContext
         \/ Shut!Destroyed \/ Shut!Cleanup \/ Shut!Drain
  PROVE  holders' = holders
  <1>1. CASE Shut!RetirementThread \/ Shut!Join
    BY <1>1, ShutQueue DEF Shut!RetirementThread, Shut!Join, Shut!Deliver, Ret!Deliver, Ret!Pop,
      Ret!Sleep, Ret!Finish, Ret!Join
  <1>2. CASE Shut!CreateFence \/ Shut!SyncRetire \/ Shut!PresentRetire
    BY <1>2, ShutQueue DEF Shut!CreateFence, Shut!SyncRetire, Shut!PresentRetire, Ret!Retire,
      Shut!queueVars
  <1>3. CASE ~(\/ Shut!RetirementThread \/ Shut!Join \/ Shut!CreateFence \/ Shut!SyncRetire
               \/ Shut!PresentRetire)
    BY <1>3 DEF Shut!Poll, Shut!BeginDispatch, Shut!EndDispatch, Shut!TearStop, Shut!TearJoin,
      Shut!DestroyContext, Shut!DropContext, Shut!Destroyed, Shut!Cleanup, Shut!Drain,
      Shut!queueVars
  <1> QED BY <1>1, <1>2, <1>3

\* Every action keeps the types, and the counts of fences along the way to the VMM.
LEMMA ShutTypesKept ==
  ASSUME Same, Ret!IInv, Shut!IInv, Shut!Next
  PROVE  Shut!TypeOK'
  <1> DEFINE Told == told \in 0..Len(delivered) /\ (~deferred => told = Len(delivered))
             Sent == asked["ring"] = made["ring"] + owed /\ asked["shown"] = made["shown"] + shows
             Rest == /\ slot \subseteq {"renderer", "ring"} /\ inner \subseteq {"context", "present"}
                     /\ sync \in {"off", "on", "gone"} /\ closed \in BOOLEAN
                     /\ ring \in {"off", "idle", "dispatch", "gone"}
                     /\ tear \in [at : {"none", "stop", "join", "drop"},
                                 by : {"nobody", "renderer", "ring"}]
                     /\ tear.at # "none" => slot = {}
                     /\ vmm \in {"serve", "stopping", "destroying", "cleaning", "dropped", "over"}
  <1>0. Told /\ Sent /\ Rest /\ Shut!Owing /\ Shut!Living
    BY DEF Shut!IInv, Shut!TypeOK
  <1>1. Told'
    <2>1. CASE Shut!Deliver
      <3>1. Len(delivered') = Len(delivered) + 1
        BY <2>1, ShutQueue DEF Shut!Deliver, Ret!Deliver, Ret!IInv, Ret!TypeOK
      <3>2. deferred' = deferred /\ told' = IF deferred THEN told ELSE told + 1
        BY <2>1 DEF Shut!Deliver
      <3> QED BY <1>0, <3>1, <3>2, ShutCounts
    <2>2. CASE Shut!Poll
      BY <1>0, <2>2, ShutCounts DEF Shut!Poll, Shut!queueVars
    <2>3. CASE Shut!Drain
      BY <1>0, <2>3, ShutCounts DEF Shut!Drain, Shut!Drained, Shut!queueVars
    <2>4. CASE ~(Shut!Deliver \/ Shut!Poll \/ Shut!Drain)
      <3>1. UNCHANGED <<told, deferred>>
        BY <2>4 DEF Shut!Next, Shut!RetirementThread, Shut!Join, Shut!CreateContext,
          Shut!BeginDispatch, Shut!Bind, Shut!EndDispatch, Shut!Tear, Shut!TearStop, Shut!TearJoin,
          Shut!TearDrop, Shut!CreateFence, Shut!SyncRetire, Shut!SyncEnd, Shut!Present,
          Shut!PresentRetire, Shut!DestroyContext, Shut!Cleanup, Shut!Vmm, Shut!DropContext,
          Shut!Destroyed, Shut!DropOwner, Shut!sinkVars
      <3>2. UNCHANGED delivered
        BY <2>4, ShutStill
      <3> QED BY <1>0, <3>1, <3>2
    <2> QED BY <2>1, <2>2, <2>3, <2>4
  <1>2. Sent'
    <2>1. CASE Shut!CreateFence
      <3>1. CASE sync = "on"
        <4>1. asked' = [asked EXCEPT !["ring"] = @ + 1] /\ owed' = owed + 1 /\ UNCHANGED <<made, shows>>
          BY <2>1, <3>1 DEF Shut!CreateFence, Shut!queueVars
        <4> QED BY <1>0, <4>1, ShutCounts DEF Shut!Owing, Shut!Paths
      <3>2. CASE sync # "on"
        <4>1. /\ asked' = [asked EXCEPT !["ring"] = @ + 1] /\ made' = [made EXCEPT !["ring"] = @ + 1]
              /\ UNCHANGED <<owed, shows>>
          BY <2>1, <3>2, ShutQueue DEF Shut!CreateFence, Ret!Retire
        <4> QED BY <1>0, <4>1, ShutCounts DEF Shut!Owing, Shut!Paths
      <3> QED BY <3>1, <3>2
    <2>2. CASE Shut!SyncRetire
      <3>1. made' = [made EXCEPT !["ring"] = @ + 1] /\ owed' = owed - 1 /\ UNCHANGED <<asked, shows>>
        BY <2>2, ShutQueue DEF Shut!SyncRetire, Shut!OwedAfter, Ret!Retire
      <3> QED BY <1>0, <3>1, ShutCounts DEF Shut!Owing, Shut!Paths
    <2>3. CASE Shut!PresentRetire
      <3>1. made' = [made EXCEPT !["shown"] = @ + 1] /\ shows' = shows - 1 /\ UNCHANGED <<asked, owed>>
        BY <2>3, ShutQueue DEF Shut!PresentRetire, Ret!Retire
      <3> QED BY <1>0, <3>1, ShutCounts DEF Shut!Owing, Shut!Paths
    <2>4. CASE Shut!Present
      <3>1. asked' = [asked EXCEPT !["shown"] = @ + 1] /\ shows' = shows + 1 /\ UNCHANGED <<owed, made>>
        BY <2>4, ShutQueue DEF Shut!Present, Ret!Share, Shut!queueVars
      <3> QED BY <1>0, <3>1, ShutCounts DEF Shut!Owing, Shut!Paths
    <2>5. CASE ~(Shut!CreateFence \/ Shut!SyncRetire \/ Shut!PresentRetire \/ Shut!Present)
      <3>1. UNCHANGED <<asked, owed, shows>>
        BY <2>5 DEF Shut!Next, Shut!RetirementThread, Shut!Deliver, Shut!Join, Shut!Poll,
          Shut!CreateContext, Shut!BeginDispatch, Shut!Bind, Shut!EndDispatch, Shut!Tear,
          Shut!TearStop, Shut!TearJoin, Shut!TearDrop, Shut!SyncEnd, Shut!DestroyContext,
          Shut!Cleanup, Shut!Vmm, Shut!DropContext, Shut!Destroyed, Shut!DropOwner, Shut!Drain,
          Shut!ctxVars
      <3>2. UNCHANGED made
        BY <2>5, ShutStill
      <3> QED BY <1>0, <3>1, <3>2
    <2> QED BY <2>1, <2>2, <2>3, <2>4, <2>5
  <1>3. Rest'
    <2>1. CASE \/ Shut!RetirementThread \/ Shut!Join \/ Shut!Poll \/ Shut!SyncRetire
               \/ Shut!PresentRetire \/ Shut!CreateFence \/ Shut!DestroyContext \/ Shut!Destroyed
               \/ Shut!DropOwner \/ Shut!Drain
      <3>1. UNCHANGED <<slot, inner, sync, closed, ring, tear>>
        BY <2>1 DEF Shut!RetirementThread, Shut!Deliver, Shut!Join, Shut!Poll, Shut!SyncRetire,
          Shut!PresentRetire, Shut!CreateFence, Shut!DestroyContext, Shut!Destroyed,
          Shut!DropOwner, Shut!Drain, Shut!ctxVars
      <3>2. \/ vmm' = vmm
            \/ vmm' \in {"serve", "stopping", "destroying", "cleaning", "dropped", "over"}
        BY <2>1 DEF Shut!RetirementThread, Shut!Deliver, Shut!Join, Shut!Poll, Shut!SyncRetire,
          Shut!PresentRetire, Shut!CreateFence, Shut!DestroyContext, Shut!Destroyed,
          Shut!DropOwner, Shut!Drain
      <3> QED BY <1>0, <3>1, <3>2
    <2>2. CASE Shut!CreateContext
      BY <1>0, <2>2 DEF Shut!CreateContext, Shut!Living
    <2>3. CASE Shut!BeginDispatch
      <3>1. slot # {} /\ slot' = slot \cup {"ring"} /\ ring' = "dispatch"
            /\ UNCHANGED <<inner, sync, closed, tear, vmm>>
        BY <2>3 DEF Shut!BeginDispatch
      <3> QED BY <1>0, <3>1
    <2>4. CASE Shut!Bind
      <3>1. sync' = "on" /\ closed' = FALSE /\ UNCHANGED <<slot, inner, ring, tear, vmm>>
        BY <2>4 DEF Shut!Bind
      <3> QED BY <1>0, <3>1
    <2>5. CASE Shut!EndDispatch
      BY <1>0, <2>5 DEF Shut!EndDispatch, Shut!LetGo
    <2>6. CASE Shut!TearStop
      BY <1>0, <2>6 DEF Shut!TearStop, Shut!Closed
    <2>7. CASE Shut!TearJoin
      BY <1>0, <2>7 DEF Shut!TearJoin
    <2>8. CASE Shut!TearDrop
      BY <1>0, <2>8 DEF Shut!TearDrop, Shut!NoTear
    <2>9. CASE Shut!SyncEnd
      BY <1>0, <2>9 DEF Shut!SyncEnd
    <2>10. CASE Shut!Present
      BY <1>0, <2>10 DEF Shut!Present
    <2>11. CASE Shut!DropContext
      BY <1>0, <2>11 DEF Shut!DropContext, Shut!LetGo
    <2>12. CASE Shut!Cleanup
      <3>1. /\ vmm' = "cleaning" /\ UNCHANGED <<inner, sync, closed>>
            /\ ring' = IF ring = "idle" THEN "gone" ELSE ring
            /\ \/ UNCHANGED <<slot, tear>>
               \/ /\ slot' = slot \ {"renderer"}
                  /\ tear' = IF slot = {"renderer"} THEN [at |-> "stop", by |-> "renderer"] ELSE tear
        BY <2>12 DEF Shut!Cleanup, Shut!LetGo
      <3>2. CASE UNCHANGED <<slot, tear>>
        BY <1>0, <3>1, <3>2
      <3>3. CASE /\ slot' = slot \ {"renderer"}
                 /\ tear' = IF slot = {"renderer"} THEN [at |-> "stop", by |-> "renderer"] ELSE tear
        BY <1>0, <3>1, <3>3
      <3> QED BY <3>1, <3>2, <3>3
    <2> QED BY <2>1, <2>2, <2>3, <2>4, <2>5, <2>6, <2>7, <2>8, <2>9, <2>10, <2>11, <2>12
            DEF Shut!Next, Shut!Tear, Shut!Vmm
  <1> QED BY <1>1, <1>2, <1>3 DEF Shut!TypeOK

\* So do they the shares that are held.
LEMMA ShutHeldKept ==
  ASSUME Same, Ret!IInv, Shut!IInv, Shut!Next
  PROVE  Shut!Held'
  <1>0. Shut!Held /\ Shut!TypeOK
    BY DEF Shut!IInv
  <1>1. CASE \/ Shut!RetirementThread \/ Shut!Join \/ Shut!Poll \/ Shut!BeginDispatch
             \/ Shut!EndDispatch \/ Shut!TearStop \/ Shut!TearJoin \/ Shut!CreateFence
             \/ Shut!SyncRetire \/ Shut!PresentRetire \/ Shut!DestroyContext \/ Shut!DropContext
             \/ Shut!Destroyed \/ Shut!Cleanup \/ Shut!Drain
    <2>1. UNCHANGED <<inner, sync>>
      BY <1>1 DEF Shut!RetirementThread, Shut!Deliver, Shut!Join, Shut!Poll, Shut!BeginDispatch,
        Shut!EndDispatch, Shut!TearStop, Shut!TearJoin, Shut!CreateFence, Shut!SyncRetire,
        Shut!PresentRetire, Shut!DestroyContext, Shut!DropContext, Shut!Destroyed, Shut!Cleanup,
        Shut!Drain, Shut!ctxVars
    <2>2. vmm' \in {"dropped", "over"} <=> vmm \in {"dropped", "over"}
      BY <1>1 DEF Shut!RetirementThread, Shut!Deliver, Shut!Join, Shut!Poll, Shut!BeginDispatch,
        Shut!EndDispatch, Shut!TearStop, Shut!TearJoin, Shut!CreateFence, Shut!SyncRetire,
        Shut!PresentRetire, Shut!DestroyContext, Shut!DropContext, Shut!Destroyed, Shut!Cleanup,
        Shut!Drain
    <2>3. holders' = holders
      BY <1>1, ShutShares
    <2> QED BY <1>0, <2>1, <2>2, <2>3 DEF Shut!Held
  <1>2. CASE Shut!CreateContext
    <2>1. inner = {} /\ inner' = {"context"} /\ holders' = holders \cup {"inner"}
          /\ UNCHANGED <<sync, vmm>>
      BY <1>2, ShutQueue DEF Shut!CreateContext, Ret!Share
    <2> QED BY <1>0, <2>1 DEF Shut!Held
  <1>3. CASE Shut!Bind
    <2>1. sync' = "on" /\ holders' = holders \cup {"sync"} /\ UNCHANGED <<inner, vmm>>
      BY <1>3, ShutQueue DEF Shut!Bind, Ret!Share
    <2> QED BY <1>0, <2>1 DEF Shut!Held
  <1>4. CASE Shut!TearDrop
    <2>1. /\ inner' = inner \ {"context"} /\ UNCHANGED <<sync, vmm>>
          /\ holders' = IF inner = {"context"} THEN holders \ {"inner"} ELSE holders
      BY <1>4, ShutQueue DEF Shut!TearDrop, Ret!DropShare, Shut!queueVars
    <2> QED BY <1>0, <2>1 DEF Shut!Held, Shut!TypeOK
  <1>5. CASE Shut!SyncEnd
    <2>1. sync' = "gone" /\ holders' = holders \ {"sync"} /\ UNCHANGED <<inner, vmm>>
      BY <1>5, ShutQueue DEF Shut!SyncEnd, Ret!DropShare
    <2> QED BY <1>0, <2>1 DEF Shut!Held
  <1>6. CASE Shut!Present
    <2>1. /\ inner' = inner \cup {"present"} /\ UNCHANGED <<sync, vmm>>
          /\ holders' = IF "present" \in inner THEN holders ELSE holders \cup {"present"}
          /\ slot # {}
      BY <1>6, ShutQueue DEF Shut!Present, Ret!Share, Shut!queueVars
    <2>2. inner # {}
      BY <2>1 DEF Shut!IInv, Shut!Living
    <2> QED BY <1>0, <2>1, <2>2 DEF Shut!Held
  <1>7. CASE Shut!DropOwner
    <2>1. vmm' = "dropped" /\ holders' = holders \ {"renderer"} /\ UNCHANGED <<inner, sync>>
      BY <1>7, ShutQueue DEF Shut!DropOwner, Ret!DropShare, Shut!ctxVars
    <2> QED BY <1>0, <2>1 DEF Shut!Held
  <1> QED BY <1>1, <1>2, <1>3, <1>4, <1>5, <1>6, <1>7 DEF Shut!Next, Shut!Tear, Shut!Vmm

\* And what a context has until it is torn down.
LEMMA ShutLivingKept ==
  ASSUME Same, Ret!IInv, Shut!IInv, Shut!Next
  PROVE  Shut!Living'
  <1>0. Shut!Living /\ Shut!TypeOK
    BY DEF Shut!IInv
  <1>1. CASE \/ Shut!RetirementThread \/ Shut!Join \/ Shut!Poll \/ Shut!CreateFence
             \/ Shut!SyncRetire \/ Shut!PresentRetire \/ Shut!DestroyContext \/ Shut!Destroyed
             \/ Shut!DropOwner \/ Shut!Drain
    <2>1. UNCHANGED <<ring, slot, tear, inner, sync>>
      BY <1>1 DEF Shut!RetirementThread, Shut!Deliver, Shut!Join, Shut!Poll, Shut!CreateFence,
        Shut!SyncRetire, Shut!PresentRetire, Shut!DestroyContext, Shut!Destroyed, Shut!DropOwner,
        Shut!Drain, Shut!ctxVars
    <2> QED BY <1>0, <2>1 DEF Shut!Living
  <1>2. CASE Shut!CreateContext \/ Shut!BeginDispatch
    BY <1>0, <1>2 DEF Shut!CreateContext, Shut!BeginDispatch, Shut!Living
  <1>3. CASE Shut!Bind \/ Shut!SyncEnd \/ Shut!Present
    BY <1>0, <1>3 DEF Shut!Bind, Shut!SyncEnd, Shut!Present, Shut!Living
  <1>4. CASE Shut!TearStop \/ Shut!TearJoin
    <2>1. /\ UNCHANGED <<ring, slot, inner, sync>> /\ tear.at # "none"
          /\ tear'.at = "join" \/ (tear'.at = "drop" /\ sync # "on")
      BY <1>0, <1>4 DEF Shut!TearStop, Shut!TearJoin, Shut!SyncOver, Shut!TypeOK
    <2> QED BY <1>0, <2>1 DEF Shut!Living
  <1>5. CASE Shut!TearDrop
    <2>1. /\ tear.at = "drop" /\ tear' = [at |-> "none", by |-> "nobody"]
          /\ inner' = inner \ {"context"} /\ UNCHANGED <<slot, sync, ring>>
      BY <1>5 DEF Shut!TearDrop, Shut!NoTear
    <2> QED BY <1>0, <2>1 DEF Shut!Living, Shut!TypeOK
  <1>6. ASSUME NEW who \in {"renderer", "ring"}, slot' = slot \ {who}, UNCHANGED <<inner, sync>>,
               tear' = IF slot = {who} THEN [at |-> "stop", by |-> who] ELSE tear,
               ring' = "dispatch" <=> "ring" \in slot'
        PROVE  Shut!Living'
    <2>1. CASE slot = {who}
      BY <1>0, <1>6, <2>1 DEF Shut!Living
    <2>2. CASE slot # {who}
      BY <1>0, <1>6, <2>2 DEF Shut!Living, Shut!TypeOK
    <2> QED BY <2>1, <2>2
  <1>7. CASE Shut!EndDispatch
    BY <1>6, <1>7 DEF Shut!EndDispatch, Shut!LetGo
  <1>8. CASE Shut!DropContext
    BY <1>0, <1>6, <1>8 DEF Shut!DropContext, Shut!LetGo, Shut!Living
  <1>9. CASE Shut!Cleanup
    <2>1. /\ ring' = IF ring = "idle" THEN "gone" ELSE ring
          /\ UNCHANGED <<inner, sync>>
          /\ IF slot = {} THEN UNCHANGED <<slot, tear>> ELSE Shut!LetGo("renderer")
      BY <1>9 DEF Shut!Cleanup
    <2>2. CASE slot = {}
      BY <1>0, <2>1, <2>2 DEF Shut!Living
    <2>3. CASE slot # {}
      BY <1>0, <1>6, <2>1, <2>3 DEF Shut!LetGo, Shut!Living
    <2> QED BY <2>2, <2>3
  <1> QED BY <1>1, <1>2, <1>3, <1>4, <1>5, <1>7, <1>8, <1>9 DEF Shut!Next, Shut!Tear, Shut!Vmm

\* And what the threads' channels hold.
LEMMA ShutOwingKept ==
  ASSUME Same, Ret!IInv, Shut!IInv, Shut!Next
  PROVE  Shut!Owing'
  <1>0. Shut!Owing /\ Shut!TypeOK
    BY DEF Shut!IInv
  <1>1. CASE \/ Shut!RetirementThread \/ Shut!Join \/ Shut!Poll \/ Shut!BeginDispatch
             \/ Shut!EndDispatch \/ Shut!TearStop \/ Shut!TearJoin \/ Shut!DestroyContext
             \/ Shut!DropContext \/ Shut!Destroyed \/ Shut!Cleanup \/ Shut!DropOwner \/ Shut!Drain
    <2>1. UNCHANGED <<asked, owed, shows, sync, inner>>
      BY <1>1 DEF Shut!RetirementThread, Shut!Deliver, Shut!Join, Shut!Poll, Shut!BeginDispatch,
        Shut!EndDispatch, Shut!TearStop, Shut!TearJoin, Shut!DestroyContext, Shut!DropContext,
        Shut!Destroyed, Shut!Cleanup, Shut!DropOwner, Shut!Drain, Shut!ctxVars
    <2> QED BY <1>0, <2>1 DEF Shut!Owing
  <1>2. CASE Shut!CreateContext \/ Shut!Bind \/ Shut!TearDrop
    BY <1>0, <1>2 DEF Shut!CreateContext, Shut!Bind, Shut!TearDrop, Shut!Owing
  <1>3. CASE Shut!CreateFence
    BY <1>0, <1>3 DEF Shut!CreateFence, Shut!Owing, Shut!Paths
  <1>4. CASE Shut!SyncRetire \/ Shut!SyncEnd
    BY <1>0, <1>4 DEF Shut!SyncRetire, Shut!SyncEnd, Shut!OwedAfter, Shut!Owing
  <1>5. CASE Shut!Present
    BY <1>0, <1>5 DEF Shut!Present, Shut!Owing, Shut!Paths
  <1>6. CASE Shut!PresentRetire
    BY <1>0, <1>6 DEF Shut!PresentRetire, Shut!Owing
  <1> QED BY <1>1, <1>2, <1>3, <1>4, <1>5, <1>6 DEF Shut!Next, Shut!Tear, Shut!Vmm

\* And once cleanup has left nobody with a share, there is nobody to retire a fence.
LEMMA ShutAloneKept ==
  ASSUME Same, Ret!IInv, Shut!IInv, Shut!Next
  PROVE  Shut!Alone'
  <1>0. Shut!Alone
    BY DEF Shut!IInv
  <1>1. CASE \/ Shut!Poll \/ Shut!CreateContext \/ Shut!CreateFence \/ Shut!Present
             \/ Shut!DestroyContext \/ Shut!DropContext \/ Shut!Destroyed \/ Shut!Cleanup
    <2>1. vmm' \notin {"dropped", "over"}
      BY <1>1 DEF Shut!Poll, Shut!CreateContext, Shut!CreateFence, Shut!Present,
        Shut!DestroyContext, Shut!DropContext, Shut!Destroyed, Shut!Cleanup
    <2> QED BY <2>1 DEF Shut!Alone
  <1>2. CASE \/ Shut!RetirementThread \/ Shut!Join \/ Shut!BeginDispatch \/ Shut!Bind
             \/ Shut!EndDispatch \/ Shut!Tear \/ Shut!SyncRetire \/ Shut!SyncEnd
             \/ Shut!PresentRetire
    <2>1. UNCHANGED <<vmm, kept>>
      BY <1>2 DEF Shut!RetirementThread, Shut!Deliver, Shut!Join, Shut!BeginDispatch, Shut!Bind,
        Shut!EndDispatch, Shut!Tear, Shut!TearStop, Shut!TearJoin, Shut!TearDrop, Shut!SyncRetire,
        Shut!SyncEnd, Shut!PresentRetire
    <2> SUFFICES ASSUME holders = {}
                 PROVE  /\ holders' = {}
                        /\ dropper = "joined" /\ told = Len(delivered) =>
                             dropper' = "joined" /\ told' = Len(delivered')
      BY <1>0, <2>1 DEF Shut!Alone
    <2>2. \A h : ~Ret!Share(h) /\ ~Ret!DropShare(h)
      BY DEF Ret!Share, Ret!DropShare
    <2>3. \A h, s : ~Ret!Retire(h, s)
      BY DEF Ret!Retire
    <2>4. ~(Shut!Bind \/ Shut!SyncRetire \/ Shut!SyncEnd \/ Shut!PresentRetire)
      BY <2>2, <2>3, ShutQueue DEF Shut!Bind, Shut!SyncRetire, Shut!SyncEnd, Shut!PresentRetire
    <2>5. CASE Shut!BeginDispatch \/ Shut!EndDispatch \/ Shut!Tear
      <3>1. UNCHANGED <<holders, dropper, delivered, told>>
        BY <2>2, <2>5, ShutQueue DEF Shut!BeginDispatch, Shut!EndDispatch, Shut!Tear,
          Shut!TearStop, Shut!TearJoin, Shut!TearDrop, Shut!queueVars, Shut!sinkVars
      <3> QED BY <3>1
    <2>6. CASE Shut!RetirementThread
      <3>1. /\ dropper' = dropper /\ holders' = holders /\ thread # "gone"
            /\ thread = "delivering" \/ UNCHANGED <<delivered, told>>
        BY <2>6, ShutQueue DEF Shut!RetirementThread, Shut!Deliver, Shut!sinkVars, Ret!Deliver,
          Ret!Pop, Ret!Sleep, Ret!Finish
      <3>2. dropper # "joined"
        BY <3>1 DEF Ret!IInv, Ret!StopIsLast
      <3> QED BY <3>1, <3>2
    <2>7. CASE Shut!Join
      <3>1. dropper = "joining" /\ holders' = holders
        BY <2>7, ShutQueue DEF Shut!Join, Ret!Join
      <3> QED BY <3>1
    <2> QED BY <1>2, <2>4, <2>5, <2>6, <2>7
  <1>3. CASE Shut!DropOwner
    <2>1. vmm' = "dropped" /\ kept' = (holders # {"renderer"}) /\ holders' = holders \ {"renderer"}
      BY <1>3, ShutQueue DEF Shut!DropOwner, Ret!DropShare
    <2> QED BY <2>1 DEF Shut!Alone
  <1>4. CASE Shut!Drain
    <2>1. /\ vmm = "dropped" /\ (kept \/ dropper = "joined") /\ told' = Len(delivered)
          /\ UNCHANGED <<kept, holders, dropper, delivered>>
      BY <1>4 DEF Shut!Drain, Shut!Drained, Shut!queueVars
    <2> QED BY <1>0, <2>1 DEF Shut!Alone
  <1> QED BY <1>1, <1>2, <1>3, <1>4 DEF Shut!Next, Shut!Vmm

\* The invariant of cleanup is inductive, beside the queue's.
LEMMA ShutStarts == ASSUME Same PROVE Init => Shut!IInv /\ Ret!Init
  <1> SUFFICES ASSUME Init PROVE Shut!IInv /\ Ret!Init
    OBVIOUS
  <1>1. Shut!Init
    BY DEF Init
  <1>2. Ret!Init
    BY <1>1 DEF Shut!Init, Shut!R!Init, Ret!Init, Same
  <1>3. jobs = <<>> /\ delivered = <<>> /\ hand = None /\ dropper = "none" /\ thread = "looking"
        /\ holders = {"renderer"} /\ made["ring"] = 0 /\ made["shown"] = 0
    BY <1>2 DEF Ret!Init, Same, Shut!Root, Shut!Paths
  <1>4. /\ told = 0 /\ deferred \in BOOLEAN /\ asked = [s \in Shut!Paths |-> 0] /\ slot = {}
        /\ inner = {} /\ sync = "off" /\ closed = FALSE /\ owed = 0 /\ shows = 0 /\ ring = "off"
        /\ tear = [at |-> "none", by |-> "nobody"] /\ vmm = "serve" /\ kept = FALSE
    BY <1>1 DEF Shut!Init, Shut!NoTear
  <1>5. Len(delivered) = 0 /\ Len(jobs) = 0
    BY <1>3
  <1>6. Shut!TypeOK
    <2>1. told \in 0..Len(delivered) /\ told = Len(delivered)
      BY <1>4, <1>5
    <2>2. asked["ring"] = made["ring"] + owed /\ asked["shown"] = made["shown"] + shows
      BY <1>3, <1>4 DEF Shut!Paths
    <2> QED BY <1>4, <2>1, <2>2 DEF Shut!TypeOK
  <1>7. Shut!Held /\ Shut!Living
    BY <1>3, <1>4 DEF Shut!Held, Shut!Living
  <1>8. Shut!Owing
    BY <1>4 DEF Shut!Owing
  <1>9. Shut!Tallied
    BY <1>3, <1>5 DEF Shut!Tallied
  <1>10. Shut!Alone
    BY <1>4 DEF Shut!Alone
  <1> QED BY <1>2, <1>6, <1>7, <1>8, <1>9, <1>10 DEF Shut!IInv

LEMMA ShutStepKeeps ==
  ASSUME Same
  PROVE  Ret!IInv /\ Shut!IInv /\ [Shut!Next]_(Shut!vars) => Ret!IInv' /\ Shut!IInv'
  <1> SUFFICES ASSUME Ret!IInv, Shut!IInv, [Shut!Next]_(Shut!vars) PROVE Ret!IInv' /\ Shut!IInv'
    OBVIOUS
  <1>1. [Ret!Next]_(Ret!vars)
    BY ShutSteps
  <1>2. Ret!IInv' /\ Shut!Tallied'
    BY <1>1, RetStepKeeps, TallyKept DEF Shut!IInv
  <1>3. CASE Shut!Next
    BY <1>2, <1>3, ShutTypesKept, ShutHeldKept, ShutLivingKept, ShutOwingKept, ShutAloneKept
       DEF Shut!IInv
  <1>4. CASE UNCHANGED Shut!vars
    BY <1>2, <1>4 DEF Shut!vars, Shut!queueVars, Shut!sinkVars, Shut!ctxVars, Shut!IInv,
      Shut!TypeOK, Shut!Held, Shut!Living, Shut!Owing, Shut!Alone
  <1> QED BY <1>2, <1>3, <1>4

\* Of the parts side by side: the queue moves in its own part and in cleanup's, which
\* moves alone.
LEMMA QueueSteps ==
  ASSUME Same
  PROVE  [Next]_vars =>
           /\ [Ret!Next]_(Ret!vars)
           /\ chosen' = chosen
           /\ chosen # "retirement" => [Shut!Next]_(Shut!vars)
  <1> SUFFICES ASSUME [Next]_vars
               PROVE  /\ [Ret!Next]_(Ret!vars) /\ chosen' = chosen
                      /\ chosen # "retirement" => [Shut!Next]_(Shut!vars)
    OBVIOUS
  <1>1. ASSUME UNCHANGED <<retVars, shutVars>> PROVE UNCHANGED Ret!vars /\ UNCHANGED Shut!vars
    BY <1>1 DEF retVars, shutVars, Ret!vars, Shut!vars, Shut!queueVars, Shut!sinkVars, Shut!ctxVars
  <1>2. CASE RetNext
    BY <1>2 DEF RetNext
  <1>3. CASE ShutNext
    <2>1. Shut!Next /\ chosen' = chosen
      BY <1>3 DEF ShutNext
    <2> QED BY <2>1, ShutSteps
  <1>4. CASE ~(RetNext \/ ShutNext)
    <2>1. UNCHANGED <<chosen, retVars, shutVars>>
      BY <1>4 DEF Next, TlNext, MonNext, MemNext, HostNext, CopyNext, LandNext, JrNext, vars
    <2> QED BY <1>1, <2>1
  <1> QED BY <1>2, <1>3, <1>4

\* Every fence the VMM created in a context is retired when the context's destroy returns,
\* and the VMM is told of all when a cleanup that nothing outlives does (vkr.rs, ffi.rs).
LEMMA ShutTells == ASSUME Same PROVE Ret!IInv /\ Shut!IInv => Shut!DestroyAnswers /\ Shut!CleanupTells
  <1> SUFFICES ASSUME Ret!IInv, Shut!IInv PROVE Shut!DestroyAnswers /\ Shut!CleanupTells
    OBVIOUS
  <1>0. /\ Shut!TypeOK /\ Shut!Held /\ Shut!Living /\ Shut!Owing /\ Shut!Tallied /\ Shut!Alone
        /\ made["ring"] \in Nat /\ made["shown"] \in Nat
    BY ShutCounts DEF Shut!IInv
  <1>1. ASSUME sync # "on" PROVE asked["ring"] = made["ring"]
    BY <1>0, <1>1 DEF Shut!TypeOK, Shut!Owing
  <1>2. Shut!DestroyAnswers
    BY <1>0, <1>1 DEF Shut!DestroyAnswers, Shut!Living, Shut!NoTear
  <1>3. ASSUME vmm = "over", ~kept PROVE told = asked["ring"] + asked["shown"]
    <2>1. holders = {} /\ dropper = "joined" /\ told = Len(delivered)
      BY <1>0, <1>3 DEF Shut!Alone
    <2>2. thread = "gone" /\ jobs = <<>> /\ hand = None
      BY <2>1 DEF Ret!IInv, Ret!StopIsLast
    <2>3. Len(delivered) = made["ring"] + made["shown"]
      BY <1>0, <2>2, ShutCounts DEF Shut!Tallied
    <2>4. asked["ring"] = made["ring"]
      BY <1>0, <1>1, <2>1 DEF Shut!Held
    <2>5. "present" \notin inner
      BY <1>0, <2>1 DEF Shut!Held
    <2>6. shows = 0
      BY <1>0, <2>5 DEF Shut!Owing
    <2>7. asked["shown"] = made["shown"]
      BY <1>0, <2>6 DEF Shut!TypeOK
    <2> QED BY <2>1, <2>3, <2>4, <2>7
  <1> QED BY <1>2, <1>3 DEF Shut!CleanupTells, Shut!Told

\* The queue's invariant, and cleanup's, are ones of the whole.
LEMMA QueueKept ==
  ASSUME Same
  PROVE  Spec => []Ret!IInv /\ [](chosen # "retirement" => Shut!IInv)
  <1> DEFINE Both == Ret!IInv /\ (chosen # "retirement" => Shut!IInv)
  <1>1. Init => Both
    BY ShutStarts, RetStarts
  <1>2. Both /\ [Next]_vars => Both'
    <2> SUFFICES ASSUME Both, [Next]_vars PROVE Both'
      OBVIOUS
    <2>1. [Ret!Next]_(Ret!vars) /\ chosen' = chosen
          /\ (chosen # "retirement" => [Shut!Next]_(Shut!vars))
      BY QueueSteps
    <2>2. Ret!IInv'
      BY <2>1, RetStepKeeps
    <2>3. chosen # "retirement" => Shut!IInv'
      BY <2>1, ShutStepKeeps
    <2> QED BY <2>1, <2>2, <2>3
  <1> QED BY <1>1, <1>2, PTL DEF Spec

\* No fence is lost: not with the queue, whose last drop joins its thread (fence.rs
\* Inner::drop), not with its context, whose sync thread drains its channel (vkr.rs), and
\* not in a cleanup that nothing outlives (ffi.rs cleanup).
THEOREM NothingLostHere == ASSUME Same PROVE Spec => []NothingLost
  <1>1. Ret!IInv /\ (chosen # "retirement" => Shut!IInv) => NothingLost
    BY RetLosesNothing, ShutTells DEF NothingLost
  <1> QED BY <1>1, QueueKept, PTL

\* The same of the retirement queue with cleanup beside it: each stream's fences are answered
\* one at a time, in order, none skipped (fence.rs, ffi.rs).
THEOREM QueueAnswersInOrderHere == ASSUME Same PROVE Spec => Ret!FO!Safety
  <1>1. Init => Ret!FO!Init /\ Ret!HasLast
    BY ShutStarts, RetStartsImplement
  <1>2. [Next]_vars => [Ret!Next]_(Ret!vars)
    BY QueueSteps
  <1>3. Ret!IInv /\ Ret!HasLast /\ [Next]_vars => Ret!HasLast'
    BY <1>2, RetHasLastKept
  <1>4. Ret!IInv /\ Ret!IInv' /\ Ret!HasLast /\ [Next]_vars => [Ret!FO!Next]_(Ret!FO!vars)
    BY <1>2, RetStepsImplement
  <1> QED BY <1>1, <1>3, <1>4, QueueKept, PTL DEF Spec, Ret!FO!Safety

-----------------------------------------------------------------------------
(* The native contexts' timelines                                          *)

\* A step of the whole is a step of the native contexts' timelines or leaves them alone.
LEMMA TlSteps ==
  /\ Init => Tl!Init
  /\ [Next]_vars => [Tl!Next]_(Tl!vars)
  <1>1. Init => Tl!Init
    BY DEF Init
  <1>2. [Next]_vars => Tl!Next \/ UNCHANGED tlVars
    BY DEF Next, RetNext, ShutNext, TlNext, MonNext, MemNext, HostNext, CopyNext, LandNext, JrNext,
      vars
  <1> QED BY <1>1, <1>2 DEF Tl!vars, tlVars, Tl!gpuVars, Tl!fenceVars

LEMMA TlAdded ==
  ASSUME NEW S, NEW q \in Seq(S), NEW e \in S
  PROVE  /\ Append(q, e) \in Seq(S)
         /\ Len(q) \in Nat /\ Len(Append(q, e)) = Len(q) + 1
         /\ Append(q, e)[Len(q) + 1] = e
         /\ \A i \in 1..Len(q) : Append(q, e)[i] = q[i]
         /\ q # <<>> => Append(q, e) # <<>> /\ Head(Append(q, e)) = Head(q)
  <1>1. /\ Append(q, e) \in Seq(S)
        /\ Len(q) \in Nat /\ Len(Append(q, e)) = Len(q) + 1
        /\ Append(q, e)[Len(q) + 1] = e
        /\ \A i \in 1..Len(q) : Append(q, e)[i] = q[i]
    BY AppendProperties, LenProperties
  <1>2. q # <<>> => Len(q) # 0
    BY EmptySeq
  <1>3. ASSUME q # <<>> PROVE Append(q, e) # <<>> /\ Head(Append(q, e)) = Head(q)
    <2>1. 1 \in 1..Len(q)
      BY <1>1, <1>2, <1>3
    <2>2. Append(q, e) # <<>>
      BY <1>1, EmptySeq
    <2>3. Head(Append(q, e)) = Append(q, e)[1] /\ Head(q) = q[1]
      BY <1>1, <1>3, <2>2, HeadTailProperties
    <2> QED BY <1>1, <2>1, <2>2, <2>3
  <1> QED BY <1>1, <1>3

LEMMA TlPopped ==
  ASSUME NEW S, NEW q \in Seq(S), q # <<>>
  PROVE  /\ Tail(q) \in Seq(S)
         /\ Head(q) \in S /\ Head(q) = q[1]
         /\ Len(q) \in Nat \ {0} /\ Len(Tail(q)) = Len(q) - 1
         /\ \A i \in 1..Len(Tail(q)) : Tail(q)[i] = q[i + 1]
  <1>1. Len(q) \in Nat \ {0}
    BY EmptySeq, LenProperties
  <1>2. Tail(q) \in Seq(S) /\ Head(q) \in S /\ Len(Tail(q)) = Len(q) - 1
        /\ \A i \in 1..Len(Tail(q)) : Tail(q)[i] = q[i + 1]
    BY HeadTailProperties
  <1>3. Head(q) = q[1]
    BY HeadTailProperties
  <1> QED BY <1>1, <1>2, <1>3

\* What retiring a head does to the ring's queue, and to no other's.
LEMMA TlHeadGoes ==
  ASSUME Tl!TypeOK, Tl!InOrder, NEW r \in GpuRings, tlQueue[r] # <<>>, Tl!PopHead(r)
  PROVE  /\ tlQueue' \in [GpuRings -> Seq(Tl!Entry)] /\ retired' \in [GpuRings -> Nat]
         /\ \A t \in GpuRings : t # r => tlQueue'[t] = tlQueue[t] /\ retired'[t] = retired[t]
         /\ retired'[r] = retired[r] + 1
         /\ Len(tlQueue[r]) \in Nat \ {0} /\ Len(tlQueue'[r]) = Len(tlQueue[r]) - 1
         /\ \A i \in 1..Len(tlQueue'[r]) : tlQueue'[r][i] = tlQueue[r][i + 1]
         /\ tlQueue[r][1] = Head(tlQueue[r]) /\ Head(tlQueue[r]) \in Tl!Entry
         /\ retired' = [retired EXCEPT ![r] = @ + 1]
         /\ UNCHANGED <<tlMade, covers>>
  <1> DEFINE q == tlQueue[r]
  <1>1. q \in Seq(Tl!Entry) /\ q # <<>> /\ tlQueue \in [GpuRings -> Seq(Tl!Entry)]
        /\ retired \in [GpuRings -> Nat]
    BY DEF Tl!TypeOK, Tl!Entry
  <1>2. /\ Tail(q) \in Seq(Tl!Entry) /\ Head(q) \in Tl!Entry /\ Head(q) = q[1]
        /\ Len(q) \in Nat \ {0} /\ Len(Tail(q)) = Len(q) - 1
        /\ \A i \in 1..Len(Tail(q)) : Tail(q)[i] = q[i + 1]
    <2> HIDE DEF q
    <2> QED BY <1>1, TlPopped, Zenon
  <1>3. tlQueue' = [tlQueue EXCEPT ![r] = Tail(q)]
        /\ retired' = [retired EXCEPT ![r] = Head(q).fence] /\ UNCHANGED <<tlMade, covers>>
    BY DEF Tl!PopHead
  <1>4. Head(q).fence = retired[r] + 1
    <2>1. \A i \in 1..Len(q) : q[i].fence = retired[r] + i
      BY DEF Tl!InOrder
    <2>2. 1 \in 1..Len(q)
      BY <1>2
    <2>3. q[1].fence = retired[r] + 1
      BY <2>1, <2>2, Zenon
    <2> QED BY <1>2, <2>3, Zenon
  <1>5. PICK tail \in Seq(Tl!Entry) : tail = Tail(q)
    BY <1>2, Zenon
  <1>6. tlQueue' = [tlQueue EXCEPT ![r] = tail]
    BY <1>3, <1>5, Zenon
  <1>7. tlQueue' \in [GpuRings -> Seq(Tl!Entry)] /\ tlQueue'[r] = tail
        /\ \A t \in GpuRings : t # r => tlQueue'[t] = tlQueue[t]
    BY <1>1, <1>6
  <1>8. Len(tail) = Len(q) - 1 /\ \A i \in 1..Len(tail) : tail[i] = q[i + 1]
    BY <1>2, <1>5, Zenon
  <1>9. retired' = [retired EXCEPT ![r] = @ + 1]
    BY <1>3, <1>4, Zenon
  <1>10. retired' \in [GpuRings -> Nat] /\ retired'[r] = retired[r] + 1
         /\ \A t \in GpuRings : t # r => retired'[t] = retired[t]
    BY <1>1, <1>9
  <1> QED BY <1>2, <1>3, <1>7, <1>8, <1>9, <1>10, Zenon

\* Retiring a head whose submission is done keeps the order and what is covered.
LEMMA TlPopKeeps ==
  ASSUME Tl!IInv, NEW r \in GpuRings, tlQueue[r] # <<>>, Tl!PopHead(r), UNCHANGED <<Tl!gpuVars, tlVmm, tlHand>>,
         covers[r][retired[r] + 1] # 0 => covers[r][retired[r] + 1] \in done[r]
  PROVE  Tl!InOrder' /\ Tl!Covered' /\ Tl!RetiredMeansDone'
  <1> USE DEF Tl!IInv, Tl!InHand
  <1>1. /\ \A t \in GpuRings : t # r => tlQueue'[t] = tlQueue[t] /\ retired'[t] = retired[t]
        /\ retired'[r] = retired[r] + 1
        /\ Len(tlQueue[r]) \in Nat \ {0} /\ Len(tlQueue'[r]) = Len(tlQueue[r]) - 1
        /\ \A i \in 1..Len(tlQueue'[r]) : tlQueue'[r][i] = tlQueue[r][i + 1]
        /\ UNCHANGED <<tlMade, covers>>
    BY TlHeadGoes
  <1>2. UNCHANGED <<last, tlNewest, tlVmm, tlHand, done>>
    BY DEF Tl!gpuVars
  <1>3. retired[r] \in Nat /\ retired'[r] = retired[r] + 1
    <2>1. retired[r] \in Nat
      BY DEF Tl!TypeOK
    <2> QED BY <1>1, <2>1
  <1>11. \A i \in Nat : retired[r] + (i + 1) = retired'[r] + i
    BY <1>3
  <1>12. \A k \in Nat : retired[r] + Len(tlQueue[r]) + k = retired'[r] + Len(tlQueue'[r]) + k
    <2>1. PICK n \in Nat \ {0} : n = Len(tlQueue[r]) /\ Len(tlQueue'[r]) = n - 1
      BY <1>1
    <2>2. \A k \in Nat : retired[r] + n + k = retired'[r] + (n - 1) + k
      BY <1>3
    <2> QED BY <2>1, <2>2
  <1>4. ASSUME NEW t \in GpuRings, t # r
        PROVE  /\ tlQueue'[t] = tlQueue[t] /\ retired'[t] = retired[t]
               /\ UNCHANGED <<tlMade, covers, last, tlNewest, tlVmm, tlHand, done>>
    BY <1>1, <1>2, <1>4
  <1>5. Tl!InOrder'
    <2>1. /\ tlMade[r] = retired'[r] + Len(tlQueue'[r]) + IF Tl!InHand(r) THEN 1 ELSE 0
          /\ Len(covers[r]) = tlMade[r]
      <3>1. /\ tlMade[r] = retired[r] + Len(tlQueue[r]) + IF Tl!InHand(r) THEN 1 ELSE 0
            /\ Len(covers[r]) = tlMade[r]
        BY DEF Tl!InOrder
      <3> QED BY <1>12, <3>1
    <2>2. ASSUME NEW i \in 1..Len(tlQueue'[r]) PROVE tlQueue'[r][i].fence = retired'[r] + i
      <3>1. i + 1 \in 1..Len(tlQueue[r]) /\ tlQueue'[r][i] = tlQueue[r][i + 1] /\ i \in Nat
        BY <1>1, <2>2
      <3>2. tlQueue[r][i + 1].fence = retired[r] + (i + 1)
        BY <3>1 DEF Tl!InOrder
      <3>3. retired[r] + (i + 1) = retired'[r] + i
        BY <1>11, <3>1
      <3> QED BY <3>1, <3>2, <3>3
    <2>3. ASSUME NEW t \in GpuRings
          PROVE  /\ tlMade'[t] = retired'[t] + Len(tlQueue'[t]) + IF Tl!InHand(t)' THEN 1 ELSE 0
                 /\ Len(covers'[t]) = tlMade'[t]
                 /\ \A i \in 1..Len(tlQueue'[t]) : tlQueue'[t][i].fence = retired'[t] + i
      <3>1. Tl!InHand(t)' <=> Tl!InHand(t)
        BY <1>2
      <3>2. CASE t = r
        BY <1>1, <2>1, <2>2, <3>1, <3>2
      <3>3. CASE t # r
        BY <1>4, <3>1, <3>3, SMTT(60) DEF Tl!InOrder
      <3> QED BY <3>2, <3>3
    <2> HIDE DEF Tl!InHand
    <2> QED BY <2>3 DEF Tl!InOrder
  <1>6. Tl!Covered'
    <2>1. ASSUME NEW i \in 1..Len(tlQueue'[r])
          PROVE  Tl!Waits(r, retired'[r] + i, tlQueue'[r][i].sync)
      <3>1. i + 1 \in 1..Len(tlQueue[r]) /\ tlQueue'[r][i] = tlQueue[r][i + 1] /\ i \in Nat
        BY <1>1, <2>1
      <3>2. Tl!Waits(r, retired[r] + (i + 1), tlQueue[r][i + 1].sync)
        BY <3>1 DEF Tl!Covered
      <3>3. retired[r] + (i + 1) = retired'[r] + i
        BY <1>11, <3>1
      <3> QED BY <3>1, <3>2, <3>3
    <2>2. Tl!InHand(r) => Tl!Waits(r, tlMade[r], tlHand.sync)
      BY DEF Tl!Covered
    <2>3. tlNewest[r] = IF last[r] # 0 THEN last[r] ELSE Tl!Before(r, tlMade[r])
      BY DEF Tl!Covered
    <2>4. \A t \in GpuRings : Tl!InHand(t)' <=> Tl!InHand(t)
      BY <1>2
    <2>5. ASSUME NEW t \in GpuRings
          PROVE  /\ \A i \in 1..Len(tlQueue'[t]) : Tl!Waits(t, retired'[t] + i, tlQueue'[t][i].sync)
                 /\ Tl!InHand(t) => Tl!Waits(t, tlMade[t], tlHand.sync)
                 /\ tlNewest[t] = IF last[t] # 0 THEN last[t] ELSE Tl!Before(t, tlMade[t])
      <3>1. CASE t = r
        BY <2>1, <2>2, <2>3, <3>1
      <3>2. CASE t # r
        BY <1>4, <3>2 DEF Tl!Covered
      <3> QED BY <3>1, <3>2
    <2> QED BY <1>1, <1>2, <2>4, <2>5 DEF Tl!Covered, Tl!Waits, Tl!Before
  <1>7. Tl!RetiredMeansDone'
    <2>1. ASSUME NEW n \in 1..retired'[r], covers[r][n] # 0 PROVE covers[r][n] \in done[r]
      <3>1. n \in 1..retired[r] \/ n = retired[r] + 1
        BY <1>1, <1>3
      <3> QED BY <2>1, <3>1 DEF Tl!RetiredMeansDone
    <2> QED BY <1>1, <1>2, <1>4, <2>1 DEF Tl!RetiredMeansDone
  <1> QED BY <1>5, <1>6, <1>7

\* A fence with no submission of its own covers what the one ahead of it covered, and
\* that is done if it is retired.
LEMMA TlBareKeeps == ASSUME Tl!IInv, NEW r \in GpuRings, Tl!RetireReady(r) PROVE Tl!IInv'
  <1> USE DEF Tl!IInv
  <1>1. /\ tlQueue[r] # <<>> /\ Head(tlQueue[r]).sync = 0 /\ Tl!PopHead(r) /\ tlThread = "ready"
        /\ UNCHANGED <<Tl!gpuVars, stop, woken, tlVmm, tlHand, tlThread, heads, ready>>
    BY DEF Tl!RetireReady, Tl!Bare
  <1>2. /\ tlQueue' \in [GpuRings -> Seq(Tl!Entry)] /\ retired' \in [GpuRings -> Nat]
        /\ Len(tlQueue[r]) \in Nat \ {0} /\ tlQueue[r][1] = Head(tlQueue[r])
        /\ UNCHANGED <<tlMade, covers>>
    BY <1>1, TlHeadGoes
  <1>3. covers[r][retired[r] + 1] # 0 => covers[r][retired[r] + 1] \in done[r]
    <2>1. 1 \in 1..Len(tlQueue[r]) /\ retired[r] \in Nat
      BY <1>2 DEF Tl!TypeOK
    <2>2. Tl!Waits(r, retired[r] + 1, tlQueue[r][1].sync)
      BY <2>1 DEF Tl!Covered
    <2>3. covers[r][retired[r] + 1] = Tl!Before(r, retired[r])
      BY <1>1, <1>2, <2>1, <2>2 DEF Tl!Waits
    <2>4. retired[r] # 0 => retired[r] \in 1..retired[r]
      BY <2>1
    <2> QED BY <2>3, <2>4 DEF Tl!Before, Tl!RetiredMeansDone
  <1>4. Tl!InOrder' /\ Tl!Covered' /\ Tl!RetiredMeansDone'
    BY <1>1, <1>3, TlPopKeeps
  <1>5. Tl!TypeOK'
    BY <1>1, <1>2 DEF Tl!TypeOK, Tl!Entry, Tl!gpuVars
  <1>6. Tl!HeadsStay'
    BY <1>1 DEF Tl!HeadsStay, Tl!gpuVars
  <1> QED BY <1>4, <1>5, <1>6

\* A head whose sync became readable covers it.
LEMMA TlHeadKeeps == ASSUME Tl!IInv, NEW r \in GpuRings, Tl!RetireHead(r) PROVE Tl!IInv'
  <1> USE DEF Tl!IInv
  <1>1. /\ tlThread = "pop" /\ r \in ready /\ Tl!PopHead(r)
        /\ ready' = ready \ {r} /\ tlThread' = IF ready = {r} THEN "look" ELSE "pop"
        /\ UNCHANGED <<Tl!gpuVars, stop, woken, tlVmm, tlHand, heads>>
    BY DEF Tl!RetireHead
  <1>2. heads[r] \in done[r] /\ heads[r] # 0
    BY <1>1 DEF Tl!HeadsStay, Tl!TypeOK
  <1>3. tlQueue[r] # <<>> /\ Head(tlQueue[r]).sync = heads[r]
    BY <1>1, <1>2 DEF Tl!HeadsStay
  <1>4. /\ tlQueue' \in [GpuRings -> Seq(Tl!Entry)] /\ retired' \in [GpuRings -> Nat]
        /\ Len(tlQueue[r]) \in Nat \ {0} /\ tlQueue[r][1] = Head(tlQueue[r])
        /\ \A t \in GpuRings : t # r => tlQueue'[t] = tlQueue[t]
        /\ UNCHANGED <<tlMade, covers>>
    BY <1>1, <1>3, TlHeadGoes
  <1>5. covers[r][retired[r] + 1] = heads[r]
    <2>1. 1 \in 1..Len(tlQueue[r])
      BY <1>4
    <2>2. Tl!Waits(r, retired[r] + 1, tlQueue[r][1].sync)
      BY <2>1 DEF Tl!Covered
    <2> QED BY <1>2, <1>3, <1>4, <2>2 DEF Tl!Waits
  <1>6. Tl!InOrder' /\ Tl!Covered' /\ Tl!RetiredMeansDone'
    BY <1>1, <1>2, <1>3, <1>5, TlPopKeeps
  <1>7. Tl!TypeOK'
    BY <1>1, <1>4 DEF Tl!TypeOK, Tl!Entry, Tl!gpuVars
  <1>8. Tl!HeadsStay'
    <2>1. ASSUME NEW t \in GpuRings, heads[t] # 0, t \in ready'
          PROVE  tlQueue'[t] # <<>> /\ Head(tlQueue'[t]).sync = heads[t]
      <3>1. t \in ready /\ t # r
        BY <1>1, <2>1
      <3>2. tlQueue[t] # <<>> /\ Head(tlQueue[t]).sync = heads[t]
        BY <1>1, <2>1, <3>1 DEF Tl!HeadsStay
      <3> QED BY <1>4, <3>1, <3>2
    <2>2. tlThread' = "pop" => ready' # {}
      BY <1>1
    <2>3. \A t \in ready' : heads[t] \in done[t]
      BY <1>1 DEF Tl!HeadsStay
    <2> QED BY <1>1, <2>1, <2>2, <2>3 DEF Tl!HeadsStay, Tl!gpuVars
  <1> QED BY <1>6, <1>7, <1>8

\* A fence covers the newest submission answered as done; those before it cover what
\* they did.
LEMMA TlFenceKeeps == ASSUME Tl!IInv, NEW r \in GpuRings, Tl!Fence(r) PROVE Tl!IInv'
  <1> USE DEF Tl!IInv
  <1> DEFINE c == Append(covers[r], tlNewest[r])
  <1>1. /\ tlVmm = "idle" /\ tlMade' = [tlMade EXCEPT ![r] = @ + 1]
        /\ covers' = [covers EXCEPT ![r] = c]
        /\ last' = [last EXCEPT ![r] = 0]
        /\ tlHand' = [ring |-> r, sync |-> last[r]] /\ tlVmm' = "push"
        /\ UNCHANGED <<submitted, done, hung, tlNewest, tlQueue, retired, stop, woken, tlThread,
                       heads, ready>>
    BY DEF Tl!Fence
  <1>2. /\ covers \in [GpuRings -> Seq(Nat)] /\ tlNewest \in [GpuRings -> Nat] /\ tlMade \in [GpuRings -> Nat]
        /\ last \in [GpuRings -> Nat] /\ retired \in [GpuRings -> Nat]
        /\ tlQueue \in [GpuRings -> Seq(Tl!Entry)]
    BY DEF Tl!TypeOK, Tl!Entry
  <1>3. /\ c \in Seq(Nat) /\ Len(c) = tlMade[r] + 1 /\ c[tlMade[r] + 1] = tlNewest[r]
        /\ \A n \in 1..tlMade[r] : c[n] = covers[r][n]
    <2>1. Len(covers[r]) = tlMade[r]
      BY DEF Tl!InOrder
    <2>2. /\ c \in Seq(Nat) /\ Len(c) = Len(covers[r]) + 1 /\ c[Len(covers[r]) + 1] = tlNewest[r]
          /\ \A n \in 1..Len(covers[r]) : c[n] = covers[r][n]
      <3>1. covers[r] \in Seq(Nat) /\ tlNewest[r] \in Nat
        BY <1>2
      <3> QED BY <3>1, TlAdded
    <2> QED BY <2>1, <2>2, Zenon
  <1> HIDE DEF c
  <1>4. tlMade'[r] = tlMade[r] + 1 /\ covers'[r] = c /\ last'[r] = 0 /\ tlMade[r] \in Nat
    BY <1>1, <1>2
  <1>5. ASSUME NEW t \in GpuRings, t # r
        PROVE  tlMade'[t] = tlMade[t] /\ covers'[t] = covers[t] /\ last'[t] = last[t]
    BY <1>1, <1>2, <1>5
  <1>6. /\ \A t \in GpuRings : ~Tl!InHand(t)
        /\ \A t \in GpuRings : Tl!InHand(t)' <=> t = r
    BY <1>1 DEF Tl!InHand
  <1>7. /\ retired[r] \in Nat /\ Len(tlQueue[r]) \in Nat /\ tlMade[r] = retired[r] + Len(tlQueue[r])
    <2>1. Len(tlQueue[r]) \in Nat
      BY <1>2, LenProperties
    <2> QED BY <1>2, <1>6, <2>1 DEF Tl!InOrder
  <1>8. Tl!TypeOK'
    <2>1. covers' \in [GpuRings -> Seq(Nat)]
      BY <1>1, <1>2, <1>3
    <2>2. tlMade' \in [GpuRings -> Nat] /\ last' \in [GpuRings -> Nat]
      BY <1>1, <1>2
    <2>3. tlHand' \in [ring : GpuRings, sync : Nat]
      BY <1>1, <1>2
    <2> QED BY <1>1, <2>1, <2>2, <2>3 DEF Tl!TypeOK
  <1>9. Tl!InOrder'
    <2>1. ASSUME NEW t \in GpuRings
          PROVE  /\ tlMade'[t] = retired'[t] + Len(tlQueue'[t]) + IF Tl!InHand(t)' THEN 1 ELSE 0
                 /\ Len(covers'[t]) = tlMade'[t]
                 /\ \A i \in 1..Len(tlQueue'[t]) : tlQueue'[t][i].fence = retired'[t] + i
      <3>1. CASE t = r
        <4>1. tlMade'[r] = retired[r] + Len(tlQueue[r]) + 1
          BY <1>4, <1>7
        <4> QED BY <1>1, <1>3, <1>4, <1>6, <3>1, <4>1 DEF Tl!InOrder
      <3>2. CASE t # r
        BY <1>1, <1>5, <1>6, <3>2 DEF Tl!InOrder
      <3> QED BY <3>1, <3>2
    <2> QED BY <2>1 DEF Tl!InOrder
  <1>10. \A n \in 0..tlMade[r] : Tl!Before(r, n)' = Tl!Before(r, n)
    BY <1>3, <1>4 DEF Tl!Before
  <1>11. Tl!Covered'
    <2>1. ASSUME NEW i \in 1..Len(tlQueue[r]) PROVE Tl!Waits(r, retired[r] + i, tlQueue[r][i].sync)'
      <3>1. retired[r] + i \in 1..tlMade[r] /\ (retired[r] + i) - 1 \in 0..tlMade[r]
        BY <1>7
      <3>2. Tl!Waits(r, retired[r] + i, tlQueue[r][i].sync)
        BY DEF Tl!Covered
      <3> QED BY <1>1, <1>3, <1>4, <1>10, <3>1, <3>2 DEF Tl!Waits
    <2>2. tlNewest[r] = IF last[r] # 0 THEN last[r] ELSE Tl!Before(r, tlMade[r])
      BY DEF Tl!Covered
    <2>3. Tl!Waits(r, tlMade[r], tlHand.sync)'
      <3>1. tlMade[r] \in 0..tlMade[r] /\ (tlMade[r] + 1) - 1 = tlMade[r]
        BY <1>4
      <3>2. covers'[r][tlMade[r] + 1] = tlNewest[r] /\ tlHand'.sync = last[r]
        BY <1>1, <1>3, <1>4
      <3> QED BY <1>4, <1>10, <2>2, <3>1, <3>2 DEF Tl!Waits
    <2>4. tlNewest[r] = IF last'[r] # 0 THEN last'[r] ELSE Tl!Before(r, tlMade[r])'
      BY <1>3, <1>4 DEF Tl!Before
    <2>5. ASSUME NEW t \in GpuRings
          PROVE  /\ \A i \in 1..Len(tlQueue'[t]) : Tl!Waits(t, retired[t] + i, tlQueue[t][i].sync)'
                 /\ Tl!InHand(t)' => Tl!Waits(t, tlMade[t], tlHand.sync)'
                 /\ tlNewest'[t] = IF last'[t] # 0 THEN last'[t] ELSE Tl!Before(t, tlMade[t])'
      <3>1. CASE t = r
        BY <1>1, <2>1, <2>3, <2>4, <3>1 DEF Tl!Waits, Tl!Before
      <3>2. CASE t # r
        <4>1. /\ \A i \in 1..Len(tlQueue[t]) : Tl!Waits(t, retired[t] + i, tlQueue[t][i].sync)
              /\ tlNewest[t] = IF last[t] # 0 THEN last[t] ELSE Tl!Before(t, tlMade[t])
          BY DEF Tl!Covered
        <4>2. covers'[t] = covers[t] /\ last'[t] = last[t] /\ tlMade'[t] = tlMade[t] /\ ~Tl!InHand(t)'
              /\ tlQueue' = tlQueue /\ retired' = retired /\ tlNewest' = tlNewest
          BY <1>1, <1>5, <1>6, <3>2
        <4> QED BY <4>1, <4>2 DEF Tl!Waits, Tl!Before
      <3> QED BY <3>1, <3>2
    <2> HIDE DEF Tl!IInv
    <2> QED BY <2>5 DEF Tl!Covered
  <1>12. Tl!RetiredMeansDone'
    <2>1. ASSUME NEW n \in 1..retired[r] PROVE covers'[r][n] = covers[r][n]
      BY <1>3, <1>4, <1>7
    <2>2. ASSUME NEW t \in GpuRings, NEW n \in 1..retired[t], covers'[t][n] # 0
          PROVE  covers'[t][n] \in done[t]
      <3>1. covers'[t][n] = covers[t][n]
        BY <1>5, <2>1
      <3> QED BY <2>2, <3>1 DEF Tl!RetiredMeansDone
    <2> QED BY <1>1, <2>2 DEF Tl!RetiredMeansDone
  <1>13. Tl!HeadsStay'
    BY <1>1 DEF Tl!HeadsStay
  <1> QED BY <1>8, <1>9, <1>11, <1>12, <1>13

\* A fence with nothing to wait for, behind nothing, is retired: what it covers was
\* covered by the one before it.
LEMMA TlPushRetires ==
  ASSUME Tl!IInv, NEW r \in GpuRings, Tl!Push(r), Tl!RetiresNow(r, tlHand.sync)
  PROVE  Tl!IInv' /\ tlMade[r] = retired[r] + 1
  <1> USE DEF Tl!IInv
  <1>1. /\ tlVmm = "push" /\ tlHand.ring = r /\ tlQueue[r] = <<>> /\ tlHand.sync = 0
        /\ retired' = [retired EXCEPT ![r] = tlMade[r]] /\ tlVmm' = "idle" /\ tlHand' = Tl!Nothing
        /\ UNCHANGED <<tlQueue, Tl!gpuVars, tlMade, covers, stop, woken, tlThread, heads, ready>>
    BY DEF Tl!Push, Tl!RetiresNow
  <1>2. tlMade[r] \in Nat /\ retired[r] \in Nat /\ tlMade[r] = retired[r] + 1 /\ Len(tlQueue[r]) = 0
    BY <1>1 DEF Tl!TypeOK, Tl!InOrder, Tl!InHand
  <1>3. retired' \in [GpuRings -> Nat] /\ retired'[r] = tlMade[r]
        /\ \A t \in GpuRings : t # r => retired'[t] = retired[t]
    BY <1>1, <1>2 DEF Tl!TypeOK
  <1>4. /\ \A t \in GpuRings : ~Tl!InHand(t)'
        /\ \A t \in GpuRings : t # r => ~Tl!InHand(t)
    BY <1>1 DEF Tl!InHand
  <1>5. covers[r][tlMade[r]] = Tl!Before(r, retired[r])
    <2>1. Tl!Waits(r, tlMade[r], tlHand.sync)
      BY <1>1 DEF Tl!Covered, Tl!InHand
    <2>2. tlMade[r] - 1 = retired[r]
      BY <1>2
    <2> QED BY <1>1, <2>1, <2>2 DEF Tl!Waits
  <1>6. Tl!TypeOK'
    BY <1>1, <1>3 DEF Tl!TypeOK, Tl!gpuVars
  <1>7. Tl!InOrder'
    <2>1. ASSUME NEW t \in GpuRings
          PROVE  /\ tlMade'[t] = retired'[t] + Len(tlQueue'[t]) + IF Tl!InHand(t)' THEN 1 ELSE 0
                 /\ Len(covers'[t]) = tlMade'[t]
                 /\ \A i \in 1..Len(tlQueue'[t]) : tlQueue'[t][i].fence = retired'[t] + i
      <3>1. CASE t = r
        BY <1>1, <1>2, <1>3, <1>4, <3>1 DEF Tl!InOrder
      <3>2. CASE t # r
        BY <1>1, <1>3, <1>4, <3>2 DEF Tl!InOrder
      <3> QED BY <3>1, <3>2
    <2> QED BY <2>1 DEF Tl!InOrder
  <1>8. Tl!Covered'
    <2>1. ASSUME NEW t \in GpuRings, NEW i \in 1..Len(tlQueue[t])
          PROVE  Tl!Waits(t, retired'[t] + i, tlQueue[t][i].sync)
      <3>1. t # r
        BY <1>2
      <3> QED BY <1>3, <3>1 DEF Tl!Covered
    <2>2. \A t \in GpuRings : tlNewest[t] = IF last[t] # 0 THEN last[t] ELSE Tl!Before(t, tlMade[t])
      BY DEF Tl!Covered
    <2> QED BY <1>1, <1>4, <2>1, <2>2 DEF Tl!Covered, Tl!Waits, Tl!Before, Tl!gpuVars
  <1>9. Tl!RetiredMeansDone'
    <2>1. ASSUME NEW n \in 1..retired'[r], covers[r][n] # 0 PROVE covers[r][n] \in done[r]
      <3>1. n \in 1..retired[r] \/ n = tlMade[r]
        BY <1>2, <1>3
      <3>2. retired[r] # 0 => retired[r] \in 1..retired[r]
        BY <1>2
      <3> QED BY <1>5, <2>1, <3>1, <3>2 DEF Tl!RetiredMeansDone, Tl!Before
    <2> QED BY <1>1, <1>3, <2>1 DEF Tl!RetiredMeansDone, Tl!gpuVars
  <1>10. Tl!HeadsStay'
    BY <1>1 DEF Tl!HeadsStay, Tl!gpuVars
  <1> QED BY <1>2, <1>6, <1>7, <1>8, <1>9, <1>10

\* Any other joins the end of its ring's queue.
LEMMA TlPushQueues ==
  ASSUME Tl!IInv, NEW r \in GpuRings, Tl!Push(r), ~Tl!RetiresNow(r, tlHand.sync)
  PROVE  Tl!IInv'
  <1> USE DEF Tl!IInv
  <1> DEFINE e == [sync |-> tlHand.sync, fence |-> tlMade[r]]
             q == Append(tlQueue[r], e)
  <1>1. /\ tlVmm = "push" /\ tlHand.ring = r /\ Tl!LockFree
        /\ tlQueue' = [tlQueue EXCEPT ![r] = q] /\ tlVmm' = "kick" /\ tlHand' = Tl!Nothing
        /\ UNCHANGED <<retired, Tl!gpuVars, tlMade, covers, stop, woken, tlThread, heads, ready>>
    BY DEF Tl!Push
  <1>2. /\ tlQueue \in [GpuRings -> Seq(Tl!Entry)] /\ tlHand.sync \in Nat /\ tlMade[r] \in Nat
        /\ retired[r] \in Nat /\ tlQueue[r] \in Seq(Tl!Entry) /\ e \in Tl!Entry
        /\ e.sync = tlHand.sync /\ e.fence = tlMade[r]
    BY <1>1 DEF Tl!TypeOK, Tl!Entry
  <1>3. /\ q \in Seq(Tl!Entry) /\ Len(tlQueue[r]) \in Nat /\ Len(q) = Len(tlQueue[r]) + 1
        /\ q[Len(tlQueue[r]) + 1] = e
        /\ \A i \in 1..Len(tlQueue[r]) : q[i] = tlQueue[r][i]
        /\ tlQueue[r] # <<>> => q # <<>> /\ Head(q) = Head(tlQueue[r])
    <2> HIDE DEF e
    <2> QED BY <1>2, TlAdded
  <1> HIDE DEF q, e
  <1>4. tlQueue'[r] = q /\ \A t \in GpuRings : t # r => tlQueue'[t] = tlQueue[t]
    BY <1>1, <1>2
  <1>5. /\ \A t \in GpuRings : ~Tl!InHand(t)'
        /\ \A t \in GpuRings : Tl!InHand(t) <=> t = r
    BY <1>1 DEF Tl!InHand
  <1>6. tlMade[r] = retired[r] + (Len(tlQueue[r]) + 1)
    <2>1. tlMade[r] = retired[r] + Len(tlQueue[r]) + 1
      BY <1>5 DEF Tl!InOrder
    <2>2. retired[r] \in Nat /\ Len(tlQueue[r]) \in Nat
      BY <1>2, <1>3
    <2> HIDE DEF Tl!IInv
    <2> QED BY <2>1, <2>2
  <1>7. Tl!TypeOK'
    <2>1. tlQueue' \in [GpuRings -> Seq(Tl!Entry)]
      BY <1>1, <1>2, <1>3
    <2> QED BY <1>1, <2>1 DEF Tl!TypeOK, Tl!Entry, Tl!gpuVars
  <1>8. Tl!InOrder'
    <2>1. ASSUME NEW i \in 1..Len(q) PROVE q[i].fence = retired[r] + i
      <3>1. CASE i = Len(tlQueue[r]) + 1
        BY <1>2, <1>3, <1>6, <3>1
      <3>2. CASE i \in 1..Len(tlQueue[r])
        BY <1>3, <3>2 DEF Tl!InOrder
      <3> QED BY <1>3, <2>1, <3>1, <3>2
    <2>2. ASSUME NEW t \in GpuRings
          PROVE  /\ tlMade'[t] = retired'[t] + Len(tlQueue'[t]) + IF Tl!InHand(t)' THEN 1 ELSE 0
                 /\ Len(covers'[t]) = tlMade'[t]
                 /\ \A i \in 1..Len(tlQueue'[t]) : tlQueue'[t][i].fence = retired'[t] + i
      <3>1. CASE t = r
        <4>1. tlMade[r] = retired[r] + Len(q) + 0
          BY <1>2, <1>3, <1>6
        <4> QED BY <1>1, <1>4, <1>5, <2>1, <3>1, <4>1 DEF Tl!InOrder
      <3>2. CASE t # r
        BY <1>1, <1>4, <1>5, <3>2 DEF Tl!InOrder
      <3> QED BY <3>1, <3>2
    <2> QED BY <2>2 DEF Tl!InOrder
  <1>9. Tl!Covered'
    <2>1. ASSUME NEW i \in 1..Len(q) PROVE Tl!Waits(r, retired[r] + i, q[i].sync)
      <3>1. CASE i = Len(tlQueue[r]) + 1
        <4>1. Tl!Waits(r, tlMade[r], tlHand.sync)
          BY <1>5 DEF Tl!Covered
        <4> QED BY <1>2, <1>3, <1>6, <3>1, <4>1
      <3>2. CASE i \in 1..Len(tlQueue[r])
        BY <1>3, <3>2 DEF Tl!Covered
      <3> QED BY <1>3, <2>1, <3>1, <3>2
    <2>2. ASSUME NEW t \in GpuRings, NEW i \in 1..Len(tlQueue'[t])
          PROVE  Tl!Waits(t, retired[t] + i, tlQueue'[t][i].sync)
      BY <1>4, <2>1, <2>2 DEF Tl!Covered
    <2>3. \A t \in GpuRings : tlNewest[t] = IF last[t] # 0 THEN last[t] ELSE Tl!Before(t, tlMade[t])
      BY DEF Tl!Covered
    <2> QED BY <1>1, <1>5, <2>2, <2>3 DEF Tl!Covered, Tl!Waits, Tl!Before, Tl!gpuVars
  <1>10. Tl!RetiredMeansDone'
    BY <1>1 DEF Tl!RetiredMeansDone, Tl!gpuVars
  <1>11. Tl!HeadsStay'
    <2>1. ASSUME NEW t \in GpuRings, tlQueue[t] # <<>>
          PROVE  tlQueue'[t] # <<>> /\ Head(tlQueue'[t]) = Head(tlQueue[t])
      BY <1>3, <1>4, <2>1
    <2> QED BY <1>1, <2>1 DEF Tl!HeadsStay, Tl!gpuVars
  <1> QED BY <1>7, <1>8, <1>9, <1>10, <1>11

LEMMA TlGpuKeeps ==
  ASSUME Tl!IInv, NEW r \in GpuRings, Tl!Submit(r) \/ Tl!SubmitUnsynced(r) \/ Tl!Complete(r)
  PROVE  Tl!IInv'
  <1> USE DEF Tl!IInv
  <1>1. UNCHANGED <<hung, Tl!fenceVars, stop, woken, tlVmm, tlHand, tlThread, heads, ready>>
    BY DEF Tl!Submit, Tl!SubmitUnsynced, Tl!Complete
  <1>2. \A t \in GpuRings : done[t] \subseteq done'[t]
    <2>1. CASE Tl!Submit(r) \/ Tl!SubmitUnsynced(r)
      BY <2>1 DEF Tl!Submit, Tl!SubmitUnsynced
    <2>2. CASE Tl!Complete(r)
      <3>1. PICK s : done' = [done EXCEPT ![r] = @ \cup {s}]
        BY <2>2 DEF Tl!Complete
      <3>2. done \in [GpuRings -> SUBSET (Nat \ {0})]
        BY DEF Tl!TypeOK
      <3> QED BY <3>1, <3>2
    <2> QED BY <2>1, <2>2
  <1>3. /\ submitted' \in [GpuRings -> Nat] /\ done' \in [GpuRings -> SUBSET (Nat \ {0})]
        /\ last' \in [GpuRings -> Nat] /\ tlNewest' \in [GpuRings -> Nat]
    <2>1. CASE Tl!Submit(r) \/ Tl!SubmitUnsynced(r)
      <3>1. PICK n \in Nat : n = submitted[r] + 1
        BY DEF Tl!TypeOK
      <3>2. /\ submitted' = [submitted EXCEPT ![r] = n] /\ done' = done
            /\ last' = last \/ last' = [last EXCEPT ![r] = n]
            /\ tlNewest' = tlNewest \/ tlNewest' = [tlNewest EXCEPT ![r] = n]
        BY <2>1, <3>1 DEF Tl!Submit, Tl!SubmitUnsynced
      <3>3. /\ submitted \in [GpuRings -> Nat] /\ done \in [GpuRings -> SUBSET (Nat \ {0})]
            /\ last \in [GpuRings -> Nat] /\ tlNewest \in [GpuRings -> Nat]
        BY DEF Tl!TypeOK
      <3>4. /\ submitted' \in [GpuRings -> Nat] /\ last' \in [GpuRings -> Nat]
            /\ tlNewest' \in [GpuRings -> Nat]
        BY <3>2, <3>3
      <3> QED BY <3>2, <3>3, <3>4
    <2>2. CASE Tl!Complete(r)
      <3>1. PICK s \in 1..submitted[r] : done' = [done EXCEPT ![r] = @ \cup {s}]
        BY <2>2 DEF Tl!Complete
      <3>2. s \in Nat \ {0}
        BY <3>1 DEF Tl!TypeOK
      <3>3. UNCHANGED <<submitted, last, tlNewest>>
        BY <2>2 DEF Tl!Complete
      <3> QED BY <3>1, <3>2, <3>3 DEF Tl!TypeOK
    <2> QED BY <2>1, <2>2
  <1>4. Tl!TypeOK'
    BY <1>1, <1>3 DEF Tl!TypeOK, Tl!fenceVars
  <1>5. Tl!InOrder'
    BY <1>1 DEF Tl!InOrder, Tl!InHand, Tl!fenceVars
  <1>6. \A t \in GpuRings :
          (tlNewest[t] = IF last[t] # 0 THEN last[t] ELSE Tl!Before(t, tlMade[t])) =>
          tlNewest'[t] = IF last'[t] # 0 THEN last'[t] ELSE Tl!Before(t, tlMade[t])
    <2>1. CASE Tl!Submit(r)
      <3>1. submitted[r] + 1 # 0
        BY DEF Tl!TypeOK
      <3> QED BY <2>1, <3>1 DEF Tl!Submit, Tl!TypeOK
    <2>2. CASE Tl!SubmitUnsynced(r) \/ Tl!Complete(r)
      BY <2>2 DEF Tl!SubmitUnsynced, Tl!Complete
    <2> QED BY <2>1, <2>2
  <1>7. Tl!Covered'
    BY <1>1, <1>6 DEF Tl!Covered, Tl!Waits, Tl!Before, Tl!InHand, Tl!fenceVars
  <1>8. Tl!HeadsStay'
    BY <1>1, <1>2 DEF Tl!HeadsStay, Tl!fenceVars, Tl!TypeOK
  <1>9. Tl!RetiredMeansDone'
    BY <1>1, <1>2 DEF Tl!RetiredMeansDone, Tl!fenceVars
  <1> QED BY <1>4, <1>5, <1>7, <1>8, <1>9

LEMMA TlSocketKeeps == ASSUME Tl!IInv, Tl!Kick \/ Tl!Drop \/ Tl!Join PROVE Tl!IInv'
  <1> USE DEF Tl!IInv
  <1>1. /\ UNCHANGED <<Tl!gpuVars, Tl!fenceVars, tlHand, tlThread, heads, ready>>
        /\ tlVmm # "push" /\ tlVmm' \in {"idle", "joining", "joined"}
        /\ stop' \in BOOLEAN /\ woken' \in BOOLEAN
    BY DEF Tl!Kick, Tl!Drop, Tl!Join, Tl!Kicked, Tl!StopWakes, Tl!TypeOK
  <1>2. \A t \in GpuRings : ~Tl!InHand(t) /\ ~Tl!InHand(t)'
    BY <1>1 DEF Tl!InHand
  <1>3. Tl!TypeOK'
    BY <1>1 DEF Tl!TypeOK, Tl!gpuVars, Tl!fenceVars
  <1>4. Tl!InOrder'
    BY <1>1, <1>2 DEF Tl!InOrder, Tl!fenceVars
  <1>5. Tl!Covered'
    BY <1>1, <1>2 DEF Tl!Covered, Tl!Waits, Tl!Before, Tl!fenceVars, Tl!gpuVars
  <1> QED BY <1>1, <1>3, <1>4, <1>5 DEF Tl!HeadsStay, Tl!RetiredMeansDone, Tl!gpuVars, Tl!fenceVars

LEMMA TlWaitKeeps == ASSUME Tl!IInv, Tl!Look \/ Tl!Collect \/ Tl!Poll \/ Tl!Lock PROVE Tl!IInv'
  <1> USE DEF Tl!IInv
  <1>1. UNCHANGED <<Tl!gpuVars, Tl!fenceVars, stop, tlVmm, tlHand>>
    BY DEF Tl!Look, Tl!Collect, Tl!Poll, Tl!Lock
  <1>2. Tl!InOrder' /\ Tl!Covered' /\ Tl!RetiredMeansDone'
    BY <1>1 DEF Tl!InOrder, Tl!Covered, Tl!Waits, Tl!Before, Tl!InHand, Tl!RetiredMeansDone,
      Tl!gpuVars, Tl!fenceVars
  <1>3. ASSUME NEW r \in GpuRings, tlQueue[r] # <<>> PROVE Head(tlQueue[r]).sync \in Nat
    <2>1. tlQueue[r] \in Seq(Tl!Entry)
      BY DEF Tl!TypeOK, Tl!Entry
    <2>2. Head(tlQueue[r]) \in Tl!Entry
      BY <1>3, <2>1, TlPopped
    <2> QED BY <2>2 DEF Tl!Entry
  <1>4. /\ heads' \in [GpuRings -> Nat] /\ ready' \subseteq GpuRings
        /\ tlThread' \in {"look", "ready", "poll", "lock", "pop", "gone"} /\ woken' \in BOOLEAN
    <2>1. CASE Tl!Collect
      <3>1. /\ heads' = [r \in GpuRings |-> IF tlQueue[r] = <<>> THEN 0 ELSE Head(tlQueue[r]).sync]
            /\ tlThread' = "poll" /\ UNCHANGED <<ready, woken>>
        BY <2>1 DEF Tl!Collect
      <3>2. heads' \in [GpuRings -> Nat]
        BY <1>3, <3>1
      <3> QED BY <3>1, <3>2 DEF Tl!TypeOK
    <2>2. CASE Tl!Look \/ Tl!Poll \/ Tl!Lock
      BY <2>2 DEF Tl!TypeOK, Tl!Look, Tl!Poll, Tl!Lock, Tl!Readable
    <2> QED BY <2>1, <2>2
  <1>5. Tl!TypeOK'
    BY <1>1, <1>4 DEF Tl!TypeOK, Tl!gpuVars, Tl!fenceVars
  <1>6. Tl!HeadsStay'
    <2>1. CASE Tl!Look
      BY <2>1 DEF Tl!Look, Tl!HeadsStay, Tl!gpuVars, Tl!fenceVars
    <2>2. CASE Tl!Collect
      <3>1. \A r \in GpuRings : heads'[r] # 0 => tlQueue[r] # <<>> /\ Head(tlQueue[r]).sync = heads'[r]
        BY <2>2 DEF Tl!Collect
      <3> QED BY <2>2, <3>1 DEF Tl!Collect, Tl!HeadsStay, Tl!gpuVars, Tl!fenceVars
    <2>3. CASE Tl!Poll
      BY <2>3 DEF Tl!Poll, Tl!Readable, Tl!HeadsStay, Tl!gpuVars, Tl!fenceVars
    <2>4. CASE Tl!Lock
      BY <2>4 DEF Tl!Lock, Tl!HeadsStay, Tl!gpuVars, Tl!fenceVars
    <2> QED BY <2>1, <2>2, <2>3, <2>4
  <1> QED BY <1>2, <1>5, <1>6

LEMMA TlStarts == Tl!Init => Tl!IInv
  <1> SUFFICES ASSUME Tl!Init PROVE Tl!IInv
    OBVIOUS
  <1>1. <<>> \in Seq(Nat) /\ <<>> \in Seq(Tl!Entry) /\ Len(<<>>) = 0
    OBVIOUS
  <1>2. Tl!TypeOK
    BY <1>1 DEF Tl!Init, Tl!TypeOK, Tl!Zeros, Tl!Empty, Tl!Entry
  <1>3. \A r \in GpuRings : /\ tlMade[r] = 0 /\ retired[r] = 0 /\ tlQueue[r] = <<>> /\ covers[r] = <<>>
                         /\ tlNewest[r] = 0 /\ last[r] = 0 /\ ~Tl!InHand(r)
    BY DEF Tl!Init, Tl!Zeros, Tl!Empty, Tl!InHand
  <1> QED BY <1>1, <1>2, <1>3
          DEF Tl!Init, Tl!IInv, Tl!InOrder, Tl!Covered, Tl!Waits, Tl!Before, Tl!HeadsStay, Tl!RetiredMeansDone

LEMMA TlStepKeeps == Tl!IInv /\ [Tl!Next]_(Tl!vars) => Tl!IInv'
  <1> SUFFICES ASSUME Tl!IInv, [Tl!Next]_(Tl!vars) PROVE Tl!IInv'
    OBVIOUS
  <1>1. ASSUME NEW r \in GpuRings, Tl!Push(r) PROVE Tl!IInv'
    BY <1>1, TlPushRetires, TlPushQueues
  <1>2. CASE UNCHANGED Tl!vars
    BY <1>2 DEF Tl!vars, Tl!gpuVars, Tl!fenceVars, Tl!IInv, Tl!TypeOK, Tl!InOrder, Tl!Covered,
      Tl!Waits, Tl!Before, Tl!InHand, Tl!HeadsStay, Tl!RetiredMeansDone
  <1> QED BY <1>1, <1>2, TlFenceKeeps, TlGpuKeeps, TlSocketKeeps, TlWaitKeeps, TlBareKeeps,
    TlHeadKeeps
          DEF Tl!Next, Tl!Waiter

LEMMA TlStepsImplement == Tl!IInv /\ [Tl!Next]_(Tl!vars) => [Tl!FO!Next]_(Tl!FO!vars)
  <1> SUFFICES ASSUME Tl!IInv, [Tl!Next]_(Tl!vars) PROVE [Tl!FO!Next]_(Tl!FO!vars)
    OBVIOUS
  <1>1. ASSUME NEW r \in GpuRings, Tl!Fence(r) PROVE Tl!FO!Make(r)
    BY <1>1 DEF Tl!Fence, Tl!FO!Make
  <1>2. ASSUME NEW r \in GpuRings, Tl!Push(r) PROVE Tl!FO!Answer(r) \/ UNCHANGED <<tlMade, retired>>
    <2>1. CASE Tl!RetiresNow(r, tlHand.sync)
      <3>1. tlMade[r] = retired[r] + 1 /\ retired[r] \in Nat
        BY <1>2, <2>1, TlPushRetires DEF Tl!IInv, Tl!TypeOK
      <3>2. retired' = [retired EXCEPT ![r] = tlMade[r]] /\ tlMade' = tlMade
        BY <1>2, <2>1 DEF Tl!Push
      <3> QED BY <3>1, <3>2 DEF Tl!FO!Answer
    <2>2. CASE ~Tl!RetiresNow(r, tlHand.sync)
      BY <1>2, <2>2 DEF Tl!Push
    <2> QED BY <2>1, <2>2
  <1>3. ASSUME NEW r \in GpuRings, tlQueue[r] # <<>>, Tl!PopHead(r) PROVE Tl!FO!Answer(r)
    <2>1. /\ retired' = [retired EXCEPT ![r] = @ + 1] /\ tlMade' = tlMade
          /\ Len(tlQueue[r]) \in Nat \ {0}
      BY <1>3, TlHeadGoes DEF Tl!IInv
    <2>2. retired[r] < tlMade[r]
      <3>1. tlMade[r] = retired[r] + Len(tlQueue[r]) + IF Tl!InHand(r) THEN 1 ELSE 0
        BY DEF Tl!IInv, Tl!InOrder
      <3>2. retired[r] \in Nat
        BY DEF Tl!IInv, Tl!TypeOK
      <3> QED BY <2>1, <3>1, <3>2
    <2> QED BY <2>1, <2>2 DEF Tl!FO!Answer
  <1>4. ASSUME NEW r \in GpuRings, Tl!RetireReady(r) \/ Tl!RetireHead(r) PROVE Tl!FO!Answer(r)
    <2>1. tlQueue[r] # <<>> /\ Tl!PopHead(r)
      BY <1>4 DEF Tl!RetireReady, Tl!Bare, Tl!RetireHead, Tl!IInv, Tl!HeadsStay, Tl!TypeOK
    <2> QED BY <1>3, <2>1
  <1>5. \/ \E r \in GpuRings : Tl!Fence(r) \/ Tl!Push(r) \/ Tl!RetireReady(r) \/ Tl!RetireHead(r)
        \/ UNCHANGED <<tlMade, retired>>
    BY DEF Tl!Next, Tl!Waiter, Tl!Submit, Tl!SubmitUnsynced, Tl!Complete, Tl!Kick, Tl!Drop, Tl!Join,
      Tl!Look, Tl!Collect, Tl!Poll, Tl!Lock, Tl!vars, Tl!fenceVars
  <1> QED BY <1>1, <1>2, <1>4, <1>5 DEF Tl!FO!Next, Tl!FO!vars

-----------------------------------------------------------------------------
(* The monitor                                                             *)

\* So for the monitor.
LEMMA MonSteps ==
  /\ Init => Mon!Init
  /\ [Next]_vars => [Mon!Next]_(Mon!vars)
  <1>1. Init => Mon!Init
    BY DEF Init
  <1>2. [Next]_vars => Mon!Next \/ UNCHANGED monVars
    BY DEF Next, RetNext, ShutNext, TlNext, MonNext, MemNext, HostNext, CopyNext, LandNext, JrNext,
      vars
  <1> QED BY <1>1, <1>2 DEF Mon!vars, monVars

\* The monitor sleeps no longer than the period it has read (venus/monitor.rs cadence).
LEMMA CadenceLess == \A p \in Nat : Mon!Cadence(p) \in Nat /\ Mon!Cadence(p) <= p
  BY DEF Mon!Cadence

\* The monitor's invariant holds when its first ring starts it (venus/monitor.rs start).
LEMMA MonStarts == ASSUME Mon!Asked PROVE Mon!Init => Mon!IInv
  <1> SUFFICES ASSUME Mon!Init PROVE Mon!IInv
    OBVIOUS
  <1>1. Mon!Types
    BY DEF Mon!Init, Mon!Types, Mon!Asked
  <1> QED BY <1>1 DEF Mon!Init, Mon!IInv, Mon!PeriodKept, Mon!Heard, Mon!StopHeard, Mon!Fits,
    Mon!Types

\* Every step of the thread, a caller or the clock keeps it (venus/monitor.rs).
LEMMA MonStepKeeps == ASSUME Mon!Asked PROVE Mon!IInv /\ [Mon!Next]_(Mon!vars) => Mon!IInv'
  <1> SUFFICES ASSUME Mon!IInv, [Mon!Next]_(Mon!vars) PROVE Mon!IInv'
    OBVIOUS
  <1> USE DEF Mon!IInv
  <1>1. ASSUME NEW r \in Rings, Mon!Ask(r) PROVE Mon!IInv'
    BY <1>1 DEF Mon!Ask, Mon!Types, Mon!PeriodKept, Mon!Heard, Mon!StopHeard, Mon!Fits
  <1>2. ASSUME NEW r \in Rings, Mon!Destroy(r) PROVE Mon!IInv'
    BY <1>2 DEF Mon!Destroy, Mon!Types, Mon!PeriodKept, Mon!Heard, Mon!StopHeard, Mon!Fits
  <1>3. CASE Mon!Watch
    <2>1. Mon!Types' /\ Mon!PeriodKept' /\ Mon!Heard' /\ Mon!StopHeard'
      BY <1>3 DEF Mon!Watch, Mon!Types, Mon!PeriodKept, Mon!Heard, Mon!StopHeard
    <2>2. Mon!Fits'
      BY <1>3, CadenceLess DEF Mon!Watch, Mon!Types, Mon!Fits
    <2> QED BY <2>1, <2>2
  <1>4. CASE Mon!Shorten
    <2> USE DEF Mon!Shorten, Mon!ShortenWakes, Mon!Notify
    <2>1. Mon!Types' /\ Mon!StopHeard'
      BY <1>4 DEF Mon!Types, Mon!StopHeard, Mon!Asked
    <2>2. Mon!PeriodKept'
      BY <1>4 DEF Mon!Types, Mon!PeriodKept, Mon!Asked
    <2>3. Mon!Heard'
      <3>0. UNCHANGED <<seen, monThread, spurious, running>> /\ Wants[monRing] \in Nat /\ period \in Nat
            /\ seen \in Nat
        BY <1>4 DEF Mon!Types, Mon!Asked
      <3>1. CASE Wants[monRing] < period
        <4>1. period' = Wants[monRing] /\ (notified' <=> notified \/ monThread = "wait")
              /\ (missed' <=> missed \/ monThread \in {"stamp", "sleep"})
          BY <1>4, <3>1 DEF Mon!Types
        <4> QED BY <3>0, <3>1, <4>1 DEF Mon!Heard
      <3>2. CASE ~(Wants[monRing] < period)
        BY <1>4, <3>0, <3>2 DEF Mon!Heard
      <3> QED BY <3>1, <3>2
    <2>4. Mon!Fits'
      BY <1>4 DEF Mon!Types, Mon!Fits
    <2> QED BY <2>1, <2>2, <2>3, <2>4
  <1>5. CASE Mon!Drop
    BY <1>5 DEF Mon!Drop, Mon!StopWakes, Mon!Notify, Mon!Types, Mon!PeriodKept, Mon!Heard,
      Mon!StopHeard, Mon!Fits
  <1>6. CASE Mon!Join
    BY <1>6 DEF Mon!Join, Mon!Types, Mon!PeriodKept, Mon!Heard, Mon!StopHeard, Mon!Fits
  <1>7. CASE Mon!Top
    <2>1. Mon!Types' /\ Mon!PeriodKept' /\ Mon!StopHeard'
      BY <1>7 DEF Mon!Top, Mon!Types, Mon!PeriodKept, Mon!StopHeard
    <2>2. Mon!Heard'
      BY <1>7 DEF Mon!Top, Mon!Types, Mon!Heard
    <2>3. Mon!Fits'
      BY <1>7 DEF Mon!Top, Mon!Types, Mon!Fits
    <2> QED BY <2>1, <2>2, <2>3
  <1>8. CASE Mon!Stamp
    <2>1. Mon!Types'
      BY <1>8 DEF Mon!Stamp, Mon!Types
    <2>2. Mon!PeriodKept' /\ Mon!Heard' /\ Mon!StopHeard'
      BY <1>8 DEF Mon!Stamp, Mon!Types, Mon!PeriodKept, Mon!Heard, Mon!StopHeard
    <2>3. Mon!Fits'
      BY <1>8, CadenceLess DEF Mon!Stamp, Mon!Types, Mon!Fits
    <2> QED BY <2>1, <2>2, <2>3
  <1>9. CASE Mon!Sleep
    <2>1. Mon!Types' /\ Mon!PeriodKept' /\ Mon!Heard' /\ Mon!StopHeard'
      BY <1>9, CadenceLess DEF Mon!Sleep, Mon!Types, Mon!PeriodKept, Mon!Heard, Mon!StopHeard
    <2>2. Mon!Fits'
      BY <1>9, CadenceLess DEF Mon!Sleep, Mon!Types, Mon!Fits
    <2> QED BY <2>1, <2>2
  <1>10. CASE Mon!Wake
    <2>1. Mon!Types' /\ Mon!PeriodKept' /\ Mon!Heard' /\ Mon!StopHeard'
      BY <1>10 DEF Mon!Wake, Mon!Types, Mon!PeriodKept, Mon!Heard, Mon!StopHeard
    <2>2. ASSUME monThread' = "sleep", spurious = 0
          PROVE  ~running /\ \A r \in registry : since[r] <= Mon!Cadence(seen)
      <3>1. left # 0 /\ notified /\ ~(period < seen)
        BY <1>10, <2>2 DEF Mon!Wake
      <3>2. ~running
        BY <2>2, <3>1 DEF Mon!Heard, Mon!Types
      <3>3. \A r \in registry : since[r] + left <= Mon!Cadence(seen)
        BY <1>10, <2>2 DEF Mon!Wake, Mon!Fits
      <3> QED BY <3>2, <3>3, CadenceLess DEF Mon!Types
    <2>3. Mon!Fits'
      BY <1>10, <2>2 DEF Mon!Wake, Mon!Types, Mon!Fits, Mon!Cadence
    <2> QED BY <2>1, <2>3
  <1>11. CASE Mon!SpuriousWake
    BY <1>11 DEF Mon!SpuriousWake, Mon!Types, Mon!PeriodKept, Mon!Heard, Mon!StopHeard, Mon!Fits
  <1>12. CASE Mon!Tick
    <2>1. Mon!Types'
      BY <1>12 DEF Mon!Tick, Mon!Types, Mon!Older
    <2>2. Mon!PeriodKept' /\ Mon!Heard' /\ Mon!StopHeard'
      BY <1>12 DEF Mon!Tick, Mon!Types, Mon!PeriodKept, Mon!Heard, Mon!StopHeard
    <2>3. ~missed /\ spurious = 0 => \A r \in registry : Wants[r] >= seen
      BY <1>12 DEF Mon!Tick, Mon!Types, Mon!PeriodKept, Mon!Heard, Mon!Asked
    <2>4. \A r \in registry : since'[r] \in Nat /\ since'[r] <= since[r] + 1
      BY <1>12 DEF Mon!Tick, Mon!Types, Mon!Older
    <2>5. /\ monThread = "wait" /\ left \in Nat /\ left' = left - 1 /\ left > 0 /\ Mon!Cadence(seen) \in Nat
          /\ caller # "shorten"
          /\ UNCHANGED <<monThread, seen, spurious, missed, registry, caller>>
          /\ Mon!Cadence(seen)' = Mon!Cadence(seen)
      BY <1>12, CadenceLess DEF Mon!Tick, Mon!Types, Mon!Cadence
    <2>6. spurious = 0 => \A r \in registry : since'[r] + left' <= Mon!Cadence(seen)
      <3> SUFFICES ASSUME spurious = 0, NEW r \in registry PROVE since'[r] + left' <= Mon!Cadence(seen)
        OBVIOUS
      <3>1. since[r] + left <= Mon!Cadence(seen) /\ since[r] \in Nat
        BY <2>5 DEF Mon!Fits, Mon!Types
      <3> QED BY <2>4, <2>5, <3>1
    <2>7. Mon!Fits'
      BY <2>3, <2>5, <2>6 DEF Mon!Fits
    <2> QED BY <2>1, <2>2, <2>7
  <1>13. CASE UNCHANGED Mon!vars
    BY <1>13 DEF Mon!vars, Mon!Types, Mon!PeriodKept, Mon!Heard, Mon!StopHeard, Mon!Fits
  <1> QED BY <1>1, <1>2, <1>3, <1>4, <1>5, <1>6, <1>7, <1>8, <1>9, <1>10, <1>11, <1>12, <1>13
          DEF Mon!Next, Mon!Thread

\* It leaves no ring late unless a shorten was missed or a sleep began anew (monitor.rs run).
LEMMA MonInTime == ASSUME Mon!Asked PROVE Mon!IInv => Mon!LateOnlyIfMissed
  <1> SUFFICES ASSUME Mon!IInv, monThread \in {"sleep", "wait"}, ~missed, spurious = 0,
                      NEW r \in registry
               PROVE  since[r] <= Wants[r]
    BY DEF Mon!LateOnlyIfMissed, Mon!Overdue, Mon!IInv, Mon!Types, Mon!Asked
  <1>1. Wants[r] \in Nat /\ since[r] \in Nat /\ left \in Nat /\ seen \in Nat
    BY DEF Mon!IInv, Mon!Types, Mon!Asked
  <1>2. since[r] <= Mon!Cadence(seen)
    BY <1>1, CadenceLess DEF Mon!IInv, Mon!Fits
  <1>3. Wants[r] >= seen \/ since[r] = 0
    BY DEF Mon!IInv, Mon!Fits
  <1> QED BY <1>1, <1>2, <1>3, CadenceLess

\* So for the memory that contexts share.
LEMMA MemSteps ==
  /\ Init => Mem!Init
  /\ [Next]_vars => [Mem!Next]_(Mem!vars)
  <1>1. Init => Mem!Init
    BY DEF Init
  <1>2. [Next]_vars => Mem!Next \/ UNCHANGED memVars
    BY DEF Next, RetNext, ShutNext, TlNext, MonNext, MemNext, HostNext, CopyNext, LandNext, JrNext,
      vars
  <1> QED BY <1>1, <1>2 DEF Mem!vars, memVars, Mem!ctxVars, Mem!ledgerVars, Mem!shareVars,
    Mem!keptVars, Mem!vmmVars

\* So for the resource table.
LEMMA HostSteps ==
  /\ Init => Host!Init
  /\ [Next]_vars => [Host!Next]_(Host!vars)
  <1>1. Init => Host!Init
    BY DEF Init
  <1>2. [Next]_vars => Host!Next \/ UNCHANGED hostVars
    BY DEF Next, RetNext, ShutNext, TlNext, MonNext, MemNext, HostNext, CopyNext, LandNext, JrNext,
      vars
  <1> QED BY <1>1, <1>2 DEF Host!vars, hostVars, Host!tableVars, Host!slotVars, Host!storageVars,
    Host!ctxVars

\* So for the copy for present.
LEMMA CopySteps ==
  /\ Init => Copy!Init
  /\ [Next]_vars => [Copy!Next]_(Copy!vars)
  <1>1. Init => Copy!Init
    BY DEF Init
  <1>2. [Next]_vars => Copy!Next \/ UNCHANGED copyVars
    BY DEF Next, RetNext, ShutNext, TlNext, MonNext, MemNext, HostNext, CopyNext, LandNext, JrNext,
      vars
  <1> QED BY <1>1, <1>2 DEF Copy!vars, copyVars, Copy!ringVars

-----------------------------------------------------------------------------
(* The copy for present                                                    *)

\* Counting, and a function's values, mean inside PresentCopy what they mean here.
LEMMA CopyLibrary ==
  /\ \A S : Copy!Cardinality(S) = Cardinality(S)
  /\ \A f : Copy!Range(f) = Range(f)
  <1>1. \A S : Copy!Cardinality(S) = Cardinality(S)
    BY Zenon DEF Copy!Cardinality, Cardinality, Copy!IsFiniteSet, IsFiniteSet
  <1>2. \A f : Copy!Range(f) = Range(f)
    BY DEF Copy!Range, Range
  <1> QED BY <1>1, <1>2

\* A slot picked is not being written, nor one of the two handed out last, minted or reused.
LEMMA CopyPicked ==
  ASSUME Copy!Sound, NEW shape \in Copy!Shapes, NEW s \in Int, Copy!Picks(shape, s)
  PROVE  /\ s \notin pending
         /\ \A i \in 1..Len(recent) : recent[i] # s
         /\ copyMinted' \in Seq(Copy!Shapes) /\ Len(copyMinted') >= Len(copyMinted)
         /\ s \in 1..Len(copyMinted') /\ copySlots' \subseteq 1..Len(copyMinted')
  <1>0. /\ Len(copyMinted) \in Nat /\ copySlots \subseteq 1..Len(copyMinted) /\ pending \subseteq 1..Len(copyMinted)
        /\ \A i \in 1..Len(recent) : recent[i] \in 1..Len(copyMinted)
        /\ Copy!Retained(shape) \subseteq copySlots
    BY DEF Copy!Sound, Copy!Types, Copy!Slots, Copy!Retained
  <1>1. CASE s \in Copy!Free(shape) /\ copySlots' = Copy!Retained(shape) /\ UNCHANGED copyMinted
    <2>1. s \in Copy!Retained(shape) /\ s \notin Range(recent) /\ s \notin pending
      BY <1>1, CopyLibrary DEF Copy!Free, Copy!Unused
    <2>2. \A i \in 1..Len(recent) : recent[i] \in Range(recent)
      BY DEF Copy!Sound, Copy!Types, Range
    <2>3. copyMinted' \in Seq(Copy!Shapes) /\ Len(copyMinted') = Len(copyMinted)
      BY <1>1 DEF Copy!Sound, Copy!Types
    <2>4. \A i \in 1..Len(recent) : recent[i] # s
      BY ONLY <2>1, <2>2
    <2>5. s \in 1..Len(copyMinted')
      BY ONLY <1>0, <2>1, <2>3
    <2>6. copySlots' \subseteq 1..Len(copyMinted')
      BY ONLY <1>0, <1>1, <2>3
    <2> QED BY <1>0, <2>1, <2>3, <2>4, <2>5, <2>6
  <1>2. CASE s = Len(copyMinted) + 1 /\ copySlots' = Copy!Retained(shape) \cup {s} /\ copyMinted' = Append(copyMinted, shape)
    <2>1. copyMinted' \in Seq(Copy!Shapes) /\ Len(copyMinted') = Len(copyMinted) + 1
      BY <1>2, AppendProperties DEF Copy!Sound, Copy!Types
    <2>2. s \notin pending /\ \A i \in 1..Len(recent) : recent[i] # s
      BY <1>0, <1>2
    <2>3. copySlots' \subseteq 1..Len(copyMinted')
      <3>1. \A x \in 1..Len(copyMinted) : x \in 1..Len(copyMinted')
        BY <1>0, <2>1
      <3>2. s \in 1..Len(copyMinted')
        BY <1>0, <1>2, <2>1
      <3> QED BY <1>0, <1>2, <3>1, <3>2
    <2> QED BY <1>0, <1>2, <2>1, <2>2, <2>3
  <1> QED BY <1>1, <1>2 DEF Copy!Picks

\* The tail of a sequence of three.
LEMMA CopyOfThree ==
  ASSUME NEW q \in Seq(Int), NEW t \in Seq(Int), Len(q) = 3, Len(t) = Len(q) - 1,
         \A i \in 1..Len(t) : t[i] = q[i + 1]
  PROVE  Len(t) = 2 /\ t[1] = q[2] /\ t[2] = q[3]
  OBVIOUS

\* The last two of three are its tail.
LEMMA CopyTwoLast ==
  ASSUME NEW q \in Seq(Int), Len(q) = 3
  PROVE  /\ Tail(q) \in Seq(Int) /\ Len(Tail(q)) = 2
         /\ Tail(q)[1] = q[2] /\ Tail(q)[2] = q[3]
  <1>1. q # <<>>
    BY EmptySeq, SMTT(60)
  <1>2. /\ Tail(q) \in Seq(Int) /\ Len(Tail(q)) = Len(q) - 1
        /\ \A i \in 1..Len(Tail(q)) : Tail(q)[i] = q[i + 1]
    BY <1>1, HeadTailProperties, Zenon
  <1> QED BY <1>2, CopyOfThree, Zenon

\* The two slots handed out last are remembered, and stay slots.
LEMMA CopyRemembering ==
  ASSUME Copy!Sound, NEW s \in Int, NEW n \in Nat, n >= Len(copyMinted), s \in 1..n
  PROVE  /\ Len(Copy!Remember(s)) \in 1..2 /\ Copy!Remember(s) \in Seq(Int)
         /\ \A i \in 1..Len(Copy!Remember(s)) : Copy!Remember(s)[i] \in 1..n
         /\ Copy!Remember(s)[Len(Copy!Remember(s))] = s
         /\ Len(recent) >= 1 =>
              Len(Copy!Remember(s)) = 2 /\ Copy!Remember(s)[1] = recent[Len(recent)]
         /\ Len(recent) = 0 => Len(Copy!Remember(s)) = 1
  <1> DEFINE r == Append(recent, s)
  <1>0. /\ Len(recent) \in 0..2 /\ recent \in Seq(Int) /\ Len(copyMinted) \in Nat
        /\ \A i \in 1..Len(recent) : recent[i] \in 1..n
    BY DEF Copy!Sound, Copy!Types, Copy!Slots
  <1>1. /\ r \in Seq(Int) /\ Len(r) = Len(recent) + 1 /\ r[Len(recent) + 1] = s
        /\ \A i \in 1..Len(recent) : r[i] = recent[i]
    BY <1>0, AppendProperties
  <1>2. Len(r) <= 2 => Copy!Remember(s) = r
    BY <1>1 DEF Copy!Remember, Copy!Remembered
  <1>3. Len(r) > 2 => Copy!Remember(s) = Tail(r)
    BY Zenon DEF Copy!Remember, Copy!Remembered
  <1> HIDE DEF r
  <1>4. CASE Len(recent) = 0
    <2>1. Copy!Remember(s) = r /\ Len(r) = 1 /\ r[1] = s
      BY <1>1, <1>2, <1>4
    <2>2. Copy!Remember(s) \in Seq(Int) /\ Len(Copy!Remember(s)) = 1 /\ Copy!Remember(s)[1] = s
      BY <1>1, <2>1
    <2>3. \A i \in 1..1 : i = 1
      OBVIOUS
    <2> QED BY <1>4, <2>2, <2>3
  <1>5. CASE Len(recent) = 1
    <2>1. Copy!Remember(s) = r /\ Len(r) = 2 /\ r[2] = s /\ r[1] = recent[1]
      BY <1>1, <1>2, <1>5
    <2>2. /\ Copy!Remember(s) \in Seq(Int) /\ Len(Copy!Remember(s)) = 2
          /\ Copy!Remember(s)[1] = recent[1] /\ Copy!Remember(s)[2] = s
      BY <1>1, <2>1
    <2>3. \A i \in 1..2 : i = 1 \/ i = 2
      OBVIOUS
    <2> QED BY <1>0, <1>5, <2>2, <2>3
  <1>6. CASE Len(recent) = 2
    <2>1. Len(r) = 3 /\ r[2] = recent[2] /\ r[3] = s
      BY <1>1, <1>6
    <2>2. Len(r) > 2
      BY <2>1
    <2>3. /\ Copy!Remember(s) \in Seq(Int) /\ Len(Copy!Remember(s)) = 2
          /\ Copy!Remember(s)[1] = r[2] /\ Copy!Remember(s)[2] = r[3]
      BY <1>1, <1>3, <2>1, <2>2, CopyTwoLast, Zenon
    <2>4. \A i \in 1..2 : i = 1 \/ i = 2
      OBVIOUS
    <2> QED BY <1>0, <1>6, <2>1, <2>3, <2>4
  <1> QED BY <1>0, <1>4, <1>5, <1>6

\* The jobs outstanding can be counted.
LEMMA CopyCountsOutstanding ==
  ASSUME MaxJobs \in Nat
  PROVE  IsFiniteSet(Copy!Outstanding) /\ Cardinality(Copy!Outstanding) \in Nat
  <1>1. IsFiniteSet(Copy!Jobs)
    BY FS_Interval DEF Copy!Jobs
  <1>2. Copy!Outstanding \in SUBSET Copy!Jobs
    BY DEF Copy!Outstanding
  <1> QED BY <1>1, <1>2, FS_Subset, FS_CardinalityType

\* A job handed over writes a slot no other writes (pick_slot, hand_off).
LEMMA CopyHandSound ==
  ASSUME MaxJobs \in Nat, Copy!Sound, NEW shape \in Copy!Shapes, Copy!Hand(shape)
  PROVE  Copy!Sound'
  <1> DEFINE h == handed + 1
  <1>1. PICK s \in 1..(Len(copyMinted) + 1) :
          /\ Copy!Picks(shape, s)
          /\ pending' = pending \cup {s}
          /\ recent' = Copy!Remember(s)
          /\ job' = [job EXCEPT ![h] = [slot |-> s, stage |-> "out",
                                       behind |-> Cardinality(Copy!Outstanding)]]
    BY CopyLibrary DEF Copy!Hand
  <1>0. /\ handed \in 0..MaxJobs /\ copyNewest \in 0..handed /\ unsent \in BOOLEAN
        /\ \A j \in Copy!Jobs : j > handed => job[j].stage = "none"
    BY DEF Copy!Sound, Copy!Types
  <1>2. /\ s \in Int /\ h \in Copy!Jobs /\ handed' = h /\ UNCHANGED <<unsent, copyNewest>>
        /\ job[h].stage = "none" /\ Len(copyMinted) \in Nat
    <2>1. Len(copyMinted) \in Nat
      BY DEF Copy!Sound, Copy!Types
    <2>2. h \in Copy!Jobs /\ h > handed
      BY <1>0 DEF Copy!Hand, Copy!Jobs
    <2> QED BY <1>0, <2>1, <2>2 DEF Copy!Hand
  <1>3. /\ s \notin pending /\ copyMinted' \in Seq(Copy!Shapes) /\ Len(copyMinted') >= Len(copyMinted)
        /\ s \in 1..Len(copyMinted') /\ copySlots' \subseteq 1..Len(copyMinted') /\ Len(copyMinted') \in Nat
    BY <1>1, <1>2, CopyPicked
  <1>4. /\ Len(recent') \in 0..2 /\ recent' \in Seq(Int)
        /\ \A i \in 1..Len(recent') : recent'[i] \in 1..Len(copyMinted')
    BY <1>1, <1>2, <1>3, CopyRemembering
  <1>5. /\ job'[h] = [slot |-> s, stage |-> "out", behind |-> Cardinality(Copy!Outstanding)]
        /\ \A j \in Copy!Jobs : j # h => job'[j] = job[j]
        /\ job' \in [Copy!Jobs -> [slot : Nat, stage : {"none", "out", "retired", "lost"},
                              behind : Nat]]
    BY <1>1, <1>2, CopyCountsOutstanding DEF Copy!Sound, Copy!Types
  <1>6. pending' \subseteq 1..Len(copyMinted')
    <2>1. pending \subseteq 1..Len(copyMinted)
      BY DEF Copy!Sound, Copy!Types, Copy!Slots
    <2> QED BY <1>1, <1>2, <1>3, <2>1
  <1>7. Copy!Types'
    <2>1. handed' \in 0..MaxJobs /\ copyNewest' \in 0..handed' /\ unsent' \in BOOLEAN
      BY <1>0, <1>2 DEF Copy!Jobs
    <2> QED BY <1>3, <1>4, <1>5, <1>6, <2>1 DEF Copy!Types, Copy!Slots
  <1>8. \A j \in Copy!Jobs : j > handed' => job'[j].stage = "none"
    <2>1. \A j \in Copy!Jobs : j > h => j > handed /\ j # h
      BY <1>0 DEF Copy!Jobs
    <2> QED BY <1>0, <1>2, <1>5, <2>1
  <1>9. \A j \in Copy!Jobs : Copy!Writes(j)' <=> j = h \/ Copy!Writes(j)
    BY <1>2, <1>5 DEF Copy!Writes
  <1>10. \A j \in Copy!Jobs : Copy!Writes(j) => j # h /\ job[j].slot \in pending
    BY <1>2 DEF Copy!Writes, Copy!Sound
  <1>11. \A i, j \in Copy!Jobs : Copy!Writes(i)' /\ Copy!Writes(j)' /\ job'[i].slot = job'[j].slot => i = j
    BY <1>3, <1>5, <1>9, <1>10 DEF Copy!Sound
  <1>12. \A x \in Copy!Slots' : x \in pending' <=> \E j \in Copy!Jobs : Copy!Writes(j)' /\ job'[j].slot = x
    <2>1. \A x \in pending : \E j \in Copy!Jobs : Copy!Writes(j) /\ job[j].slot = x
      BY DEF Copy!Sound, Copy!Types
    <2> QED BY <1>1, <1>2, <1>5, <1>9, <1>10, <2>1
  <1>13. \A j \in Copy!Jobs : Copy!Writes(j)' => job'[j].slot \in Copy!Slots'
    BY <1>3, <1>5, <1>6, <1>9, <1>10, <1>1 DEF Copy!Slots
  <1> QED BY <1>7, <1>8, <1>11, <1>12, <1>13 DEF Copy!Sound

\* A job that could not be sent leaves the slot it took unwritten.
LEMMA CopyHandUnsentSound ==
  ASSUME Copy!Sound, NEW shape \in Copy!Shapes, Copy!HandUnsent(shape)
  PROVE  Copy!Sound'
  <1>1. PICK s \in 1..(Len(copyMinted) + 1) : Copy!Picks(shape, s) /\ recent' = Copy!Remember(s)
    BY DEF Copy!HandUnsent
  <1>2. s \in Int /\ Len(copyMinted) \in Nat
    BY DEF Copy!Sound, Copy!Types
  <1>3. /\ copyMinted' \in Seq(Copy!Shapes) /\ Len(copyMinted') >= Len(copyMinted)
        /\ s \in 1..Len(copyMinted') /\ copySlots' \subseteq 1..Len(copyMinted') /\ Len(copyMinted') \in Nat
    BY <1>1, <1>2, CopyPicked
  <1>4. /\ Len(recent') \in 0..2 /\ recent' \in Seq(Int)
        /\ \A i \in 1..Len(recent') : recent'[i] \in 1..Len(copyMinted')
    BY <1>1, <1>2, <1>3, CopyRemembering
  <1>5. UNCHANGED <<pending, handed, job, copyNewest>> /\ unsent' = TRUE
    BY DEF Copy!HandUnsent
  <1>6. \A x \in 1..Len(copyMinted) : x \in 1..Len(copyMinted')
    BY <1>2, <1>3
  <1>7. Copy!Types'
    BY <1>3, <1>4, <1>5, <1>6 DEF Copy!Sound, Copy!Types, Copy!Slots
  <1>8. \A x \in Copy!Slots' : x \in pending' <=> \E j \in Copy!Jobs : Copy!Writes(j)' /\ job'[j].slot = x
    BY <1>5 DEF Copy!Sound, Copy!Types, Copy!Writes
  <1>9. \A j \in Copy!Jobs : Copy!Writes(j)' => job'[j].slot \in Copy!Slots'
    BY <1>5, <1>6 DEF Copy!Sound, Copy!Writes, Copy!Slots
  <1> QED BY <1>5, <1>7, <1>8, <1>9 DEF Copy!Sound, Copy!Writes

\* A job that stops writing gives its slot back; no other wrote it.
LEMMA CopyEndSound ==
  ASSUME Copy!Sound, NEW j \in Copy!Jobs, Copy!Writes(j),
         NEW r \in Copy!Records, r.stage \in {"none", "lost"},
         job' = [job EXCEPT ![j] = r], pending' = pending \ {job[j].slot},
         UNCHANGED <<copySlots, copyMinted, recent, handed, unsent, copyNewest>>
  PROVE  Copy!Sound'
  <1>1. /\ job'[j] = r /\ \A i \in Copy!Jobs : i # j => job'[i] = job[i]
        /\ job' \in [Copy!Jobs -> Copy!Records]
    BY DEF Copy!Sound, Copy!Types, Copy!Records
  <1>2. \A i \in Copy!Jobs : Copy!Writes(i)' <=> i # j /\ Copy!Writes(i)
    BY <1>1 DEF Copy!Writes
  <1>3. Copy!Types'
    BY <1>1 DEF Copy!Sound, Copy!Types, Copy!Slots, Copy!Records
  <1>4. \A i \in Copy!Jobs : i > handed' => job'[i].stage = "none"
    <2>1. job[j].stage # "none"
      BY DEF Copy!Writes
    <2> QED BY <1>1, <2>1 DEF Copy!Sound
  <1>5. \A i, k \in Copy!Jobs : Copy!Writes(i)' /\ Copy!Writes(k)' /\ job'[i].slot = job'[k].slot => i = k
    BY <1>1, <1>2 DEF Copy!Sound
  <1>6. \A x \in Copy!Slots' : x \in pending' <=> \E i \in Copy!Jobs : Copy!Writes(i)' /\ job'[i].slot = x
    BY <1>1, <1>2 DEF Copy!Sound, Copy!Slots
  <1>7. \A i \in Copy!Jobs : Copy!Writes(i)' => job'[i].slot \in Copy!Slots'
    BY <1>1, <1>2 DEF Copy!Sound, Copy!Slots
  <1> QED BY <1>3, <1>4, <1>5, <1>6, <1>7 DEF Copy!Sound

\* A fence that retires leaves the surfaces as they are.
LEMMA CopyRetiredSound ==
  ASSUME Copy!Sound, MaxJobs \in Nat, NEW j \in Copy!Jobs, job[j].stage # "none",
         NEW r \in Copy!Records, r.stage \in {"out", "retired"} <=> Copy!Writes(j),
         Copy!Writes(j) => r.slot = job[j].slot,
         job' = [job EXCEPT ![j] = r], Copy!Show(j),
         UNCHANGED <<Copy!ringVars, handed, unsent>>
  PROVE  Copy!Sound'
  <1>1. /\ job'[j] = r /\ \A i \in Copy!Jobs : i # j => job'[i] = job[i]
        /\ job' \in [Copy!Jobs -> Copy!Records]
    BY DEF Copy!Sound, Copy!Types, Copy!Records
  <1>2. \A i \in Copy!Jobs : (Copy!Writes(i)' <=> Copy!Writes(i)) /\ (Copy!Writes(i) => job'[i].slot = job[i].slot)
    BY <1>1 DEF Copy!Writes
  <1>3. copyNewest' \in 0..handed
    <2>1. handed \in 0..MaxJobs /\ copyNewest \in 0..handed /\ ~(j > handed)
      BY DEF Copy!Sound, Copy!Types
    <2> QED BY <2>1 DEF Copy!Show, Copy!Jobs
  <1>4. Copy!Types'
    BY <1>1, <1>3 DEF Copy!Sound, Copy!Types, Copy!Slots, Copy!Records, Copy!ringVars
  <1>5. \A i \in Copy!Jobs : i > handed' => job'[i].stage = "none"
    BY <1>1 DEF Copy!Sound
  <1>6. \A i, k \in Copy!Jobs : Copy!Writes(i)' /\ Copy!Writes(k)' /\ job'[i].slot = job'[k].slot => i = k
    BY <1>2 DEF Copy!Sound
  <1>7. \A x \in Copy!Slots' : x \in pending' <=> \E i \in Copy!Jobs : Copy!Writes(i)' /\ job'[i].slot = x
    BY <1>2 DEF Copy!Sound, Copy!Slots, Copy!ringVars
  <1>8. \A i \in Copy!Jobs : Copy!Writes(i)' => job'[i].slot \in Copy!Slots'
    BY <1>2 DEF Copy!Sound, Copy!Slots, Copy!ringVars
  <1> QED BY <1>4, <1>5, <1>6, <1>7, <1>8 DEF Copy!Sound

\* Nothing is written at the start.
LEMMA CopyStarts == ASSUME MaxJobs \in Nat PROVE Copy!Init => Copy!Sound
  <1> SUFFICES ASSUME Copy!Init PROVE Copy!Sound
    OBVIOUS
  <1>1. /\ Len(copyMinted) = 0 /\ copyMinted \in Seq(Copy!Shapes) /\ Len(recent) = 0 /\ recent \in Seq(Int)
        /\ copySlots = {} /\ pending = {} /\ \A j \in Copy!Jobs : job[j] = Copy!NoJob
        /\ Copy!NoJob \in Copy!Records
    BY DEF Copy!Init, Copy!NoJob, Copy!Records
  <1>2. /\ \A i \in 1..Len(recent) : recent[i] \in Copy!Slots
        /\ handed \in 0..MaxJobs /\ copyNewest \in 0..handed /\ Len(recent) \in 0..2
    BY <1>1 DEF Copy!Init
  <1>3. job \in [Copy!Jobs -> Copy!Records]
    BY <1>1 DEF Copy!Init
  <1>4. Copy!Types
    BY <1>1, <1>2, <1>3 DEF Copy!Init, Copy!Types, Copy!Records
  <1> QED BY <1>1, <1>4 DEF Copy!Sound, Copy!Writes, Copy!NoJob, Copy!Slots

\* Every step keeps the slots and their writers as they should be.
LEMMA CopySoundKept ==
  ASSUME MaxJobs \in Nat
  PROVE  Copy!Sound /\ [Copy!Next]_(Copy!vars) => Copy!Sound'
  <1> SUFFICES ASSUME Copy!Sound, [Copy!Next]_(Copy!vars) PROVE Copy!Sound'
    OBVIOUS
  <1>0. \A j \in Copy!Jobs : job[j] \in Copy!Records
    BY DEF Copy!Sound, Copy!Types, Copy!Records
  <1>1. ASSUME NEW shape \in Copy!Shapes, Copy!Hand(shape) PROVE Copy!Sound'
    BY <1>1, CopyHandSound
  <1>2. ASSUME NEW shape \in Copy!Shapes, Copy!HandUnsent(shape) PROVE Copy!Sound'
    BY <1>2, CopyHandUnsentSound
  <1>3. ASSUME NEW shape \in Copy!Shapes, Copy!Busy(shape) PROVE Copy!Sound'
    BY <1>3 DEF Copy!Busy, Copy!Retained, Copy!Sound, Copy!Types, Copy!Slots, Copy!Writes
  <1>4. ASSUME NEW j \in Copy!Jobs, Copy!Retire(j) PROVE Copy!Sound'
    <2> DEFINE r == [job[j] EXCEPT !.stage = "retired"]
    <2>1. /\ r \in Copy!Records /\ r.stage = "retired" /\ r.slot = job[j].slot
          /\ job' = [job EXCEPT ![j] = r]
      BY <1>0, <1>4 DEF Copy!Retire, Copy!Records
    <2>2. /\ job[j].stage # "none" /\ Copy!Writes(j) /\ Copy!Show(j)
          /\ UNCHANGED <<Copy!ringVars, handed, unsent>>
      BY <1>4 DEF Copy!Retire, Copy!Writes
    <2> HIDE DEF r
    <2> QED BY <2>1, <2>2, CopyRetiredSound
  <1>5. ASSUME NEW j \in Copy!Jobs, Copy!Drop(j) PROVE Copy!Sound'
    <2>1. Copy!NoJob \in Copy!Records /\ Copy!NoJob.stage = "none" /\ Copy!Writes(j)
      BY <1>5 DEF Copy!Drop, Copy!NoJob, Copy!Records, Copy!Writes
    <2> QED BY <1>5, <2>1, CopyEndSound DEF Copy!Drop
  <1>6. ASSUME NEW j \in Copy!Jobs, Copy!Lose(j) PROVE Copy!Sound'
    <2> DEFINE r == [job[j] EXCEPT !.stage = "lost"]
    <2>1. /\ r \in Copy!Records /\ r.stage = "lost" /\ Copy!Writes(j)
          /\ job' = [job EXCEPT ![j] = r]
      BY <1>0, <1>6 DEF Copy!Lose, Copy!Records, Copy!Writes
    <2> HIDE DEF r
    <2> QED BY <1>6, <2>1, CopyEndSound DEF Copy!Lose
  <1>7. ASSUME NEW j \in Copy!Jobs, Copy!RetireLost(j) PROVE Copy!Sound'
    <2>1. Copy!NoJob \in Copy!Records /\ Copy!NoJob.stage = "none" /\ ~Copy!Writes(j) /\ job[j].stage # "none"
      BY <1>7 DEF Copy!RetireLost, Copy!NoJob, Copy!Records, Copy!Writes
    <2>2. job' = [job EXCEPT ![j] = Copy!NoJob] /\ Copy!Show(j) /\ UNCHANGED <<Copy!ringVars, handed, unsent>>
      BY <1>7 DEF Copy!RetireLost
    <2> QED BY <2>1, <2>2, CopyRetiredSound
  <1>8. CASE Copy!Take \/ Copy!LetGo \/ UNCHANGED Copy!vars
    <2>1. UNCHANGED <<copySlots, copyMinted, pending, recent, unsent, handed, job, copyNewest>>
      BY <1>8 DEF Copy!Take, Copy!LetGo, Copy!vars, Copy!ringVars
    <2> QED BY <2>1 DEF Copy!Sound, Copy!Types, Copy!Slots, Copy!Writes
  <1> QED BY <1>1, <1>2, <1>3, <1>4, <1>5, <1>6, <1>7, <1>8 DEF Copy!Next

\* No two copies are made into one surface, and a slot is pending exactly while one is.
LEMMA CopyOneWriterSound == ASSUME MaxJobs \in Nat PROVE Copy!Sound => Copy!OneWriter
  <1> SUFFICES ASSUME Copy!Sound, NEW s \in Copy!Slots
               PROVE  Cardinality(Copy!Writing(s)) = IF s \in pending THEN 1 ELSE 0
    BY CopyLibrary DEF Copy!OneWriter
  <1>1. \A j : j \in Copy!Writing(s) <=> j \in Copy!Jobs /\ Copy!Writes(j) /\ job[j].slot = s
    BY DEF Copy!Writing, Copy!Writes
  <1>2. CASE s \notin pending
    <2>1. Copy!Writing(s) = {}
      BY <1>1, <1>2 DEF Copy!Sound
    <2> QED BY <1>2, <2>1, FS_EmptySet
  <1>3. CASE s \in pending
    <2>1. PICK j \in Copy!Jobs : Copy!Writes(j) /\ job[j].slot = s
      BY <1>3 DEF Copy!Sound
    <2>2. Copy!Writing(s) = {j}
      BY <1>1, <2>1 DEF Copy!Sound
    <2> QED BY <1>3, <2>2, FS_Singleton
  <1> QED BY <1>2, <1>3

\* With at most one frame outstanding, the display shows one of the last two, and
\* only the last can be outstanding and newer.
LEMMA CopyOneBehind ==
  ASSUME MaxJobs \in Nat, Copy!Sound, Copy!Shows, Cardinality(Copy!Outstanding) <= 1
  PROVE  /\ \/ copyNewest = 0 /\ shown = 0
            \/ \E i \in 1..Len(recent) : shown = recent[i]
         /\ \A k \in Copy!Jobs : Copy!Waits(k) /\ k > copyNewest => k = handed
  <1>0. handed \in 0..MaxJobs /\ copyNewest \in 0..handed /\ \A j \in Copy!Jobs : j > handed => ~Copy!Waits(j)
    BY DEF Copy!Sound, Copy!Types, Copy!Waits
  <1>1. \A i, k \in Copy!Jobs : Copy!Waits(i) /\ Copy!Waits(k) => i = k
    <2> SUFFICES ASSUME NEW i \in Copy!Jobs, NEW k \in Copy!Jobs, Copy!Waits(i), Copy!Waits(k), i # k
                 PROVE  FALSE
      OBVIOUS
    <2>1. {i, k} \in SUBSET Copy!Outstanding
      BY DEF Copy!Outstanding, Copy!Waits
    <2>2. IsFiniteSet({i}) /\ Cardinality({i}) = 1 /\ {i} \cup {k} = {i, k}
      BY FS_Singleton
    <2>3. Cardinality({i, k}) = 2
      BY <2>2, FS_AddElement
    <2>4. Cardinality({i, k}) <= Cardinality(Copy!Outstanding) /\ Cardinality(Copy!Outstanding) \in Nat
      BY <2>1, CopyCountsOutstanding, FS_Subset
    <2> QED BY <2>3, <2>4
  <1>2. copyNewest >= handed - 1
    <2> SUFFICES ASSUME copyNewest < handed - 1 PROVE FALSE
      BY <1>0
    <2>1. handed \in Copy!Jobs /\ handed - 1 \in Copy!Jobs /\ handed # handed - 1
      BY <1>0 DEF Copy!Jobs
    <2>2. Copy!Waits(handed) /\ Copy!Waits(handed - 1)
      BY <1>0, <2>1 DEF Copy!Shows
    <2> QED BY <1>1, <2>1, <2>2
  <1>3. \A k \in Copy!Jobs : Copy!Waits(k) /\ k > copyNewest => k = handed
    BY <1>0, <1>2 DEF Copy!Jobs
  <1>4. CASE copyNewest = 0
    BY <1>3, <1>4 DEF Copy!Shows
  <1>5. CASE copyNewest = handed /\ copyNewest # 0
    <2>1. Len(recent) \in 1..Len(recent) /\ shown = Copy!Last
      BY <1>0, <1>5 DEF Copy!Shows
    <2> QED BY <1>3, <2>1 DEF Copy!Last
  <1>6. CASE copyNewest = handed - 1 /\ copyNewest # 0
    <2>1. 1 \in 1..Len(recent) /\ shown = Copy!Before
      BY <1>0, <1>6 DEF Copy!Shows
    <2> QED BY <1>3, <2>1 DEF Copy!Before
  <1> QED BY <1>0, <1>2, <1>4, <1>5, <1>6

\* A job handed over behind at most one other leaves what is shown among the last two slots.
LEMMA CopyHandShows ==
  ASSUME MaxJobs \in Nat, Copy!Sound, Copy!Shows, NEW shape \in Copy!Shapes, Copy!Hand(shape)
  PROVE  Copy!Shows'
  <1> PICK h \in Nat : h = handed + 1
    BY DEF Copy!Sound, Copy!Types
  <1>0. /\ handed \in 0..MaxJobs /\ copyNewest \in 0..handed /\ Len(recent) \in 0..2
        /\ job \in [Copy!Jobs -> Copy!Records] /\ Len(copyMinted) \in Nat /\ pending \subseteq 1..Len(copyMinted)
    BY DEF Copy!Sound, Copy!Types, Copy!Records, Copy!Slots
  <1>1. PICK s \in 1..(Len(copyMinted) + 1) :
          /\ Copy!Picks(shape, s)
          /\ recent' = Copy!Remember(s)
          /\ job' = [job EXCEPT ![h] = [slot |-> s, stage |-> "out",
                                       behind |-> Cardinality(Copy!Outstanding)]]
    BY CopyLibrary DEF Copy!Hand
  <1>2. /\ s \in Int /\ s # 0 /\ h \in Copy!Jobs /\ handed' = h /\ h > handed
        /\ UNCHANGED <<copyNewest, shown>>
    BY <1>0 DEF Copy!Hand, Copy!Jobs
  <1>3. /\ s \notin pending /\ \A i \in 1..Len(recent) : recent[i] # s
        /\ Len(copyMinted') >= Len(copyMinted) /\ s \in 1..Len(copyMinted') /\ Len(copyMinted') \in Nat
    BY <1>1, <1>2, CopyPicked
  <1>4. /\ recent'[Len(recent')] = s /\ Len(recent') \in 1..2
        /\ Len(recent) >= 1 => Len(recent') = 2 /\ recent'[1] = recent[Len(recent)]
        /\ Len(recent) = 0 => Len(recent') = 1
    BY <1>1, <1>2, <1>3, CopyRemembering
  <1>5. /\ job'[h].slot = s /\ job'[h].stage = "out" /\ job'[h].behind = Cardinality(Copy!Outstanding)
        /\ \A j \in Copy!Jobs : j # h => job'[j] = job[j]
    BY <1>0, <1>1, <1>2
  <1>6. Len(recent') = (IF handed' = 0 THEN 0 ELSE IF handed' = 1 THEN 1 ELSE 2)
    BY <1>0, <1>2, <1>4 DEF Copy!Shows
  <1>7. /\ Copy!Waits(handed)' => job'[handed'].slot = Copy!Last'
        /\ copyNewest' # handed'
    BY <1>0, <1>2, <1>4, <1>5 DEF Copy!Last
  <1>8. ASSUME handed >= 1
        PROVE  /\ Copy!Waits(handed - 1)' => job'[handed' - 1].slot = Copy!Before'
               /\ copyNewest' = handed' - 1 => shown' = Copy!Before'
    <2>1. handed' - 1 = handed /\ handed \in Copy!Jobs /\ handed # h
      BY <1>0, <1>2, <1>8 DEF Copy!Jobs
    <2>2. Copy!Before' = Copy!Last
      BY <1>0, <1>4, <1>8 DEF Copy!Before, Copy!Last, Copy!Shows
    <2>3. Copy!Waits(handed - 1)' => Copy!Waits(handed)
      BY <1>5, <2>1 DEF Copy!Waits
    <2> QED BY <1>2, <1>5, <1>8, <2>1, <2>2, <2>3 DEF Copy!Shows
  <1>9. \A i \in Copy!Jobs : i <= handed' /\ i > copyNewest' => Copy!Waits(i)'
    <2>1. \A i \in Copy!Jobs : i <= h => i = h \/ (i <= handed /\ i # h)
      BY <1>0 DEF Copy!Jobs
    <2> QED BY <1>2, <1>5, <2>1 DEF Copy!Waits, Copy!Shows
  <1>10. copyNewest' = 0 => shown' = 0
    BY <1>2 DEF Copy!Shows
  <1>11. Copy!Clear(h)'
    <2> SUFFICES ASSUME Cardinality(Copy!Outstanding) <= 1
                 PROVE  /\ shown' # s
                        /\ \A k \in Copy!Jobs : k # h /\ Copy!Waits(k)' /\ k > copyNewest' => job'[k].slot # s
      BY <1>2, <1>5 DEF Copy!Clear
    <2>1. shown # s
      BY <1>2, <1>3, CopyOneBehind
    <2>2. ASSUME NEW k \in Copy!Jobs, k # h, Copy!Waits(k)', k > copyNewest'
          PROVE  job'[k].slot # s
      <3>1. Copy!Waits(k) /\ k > copyNewest /\ job'[k] = job[k]
        BY <1>2, <1>5, <2>2 DEF Copy!Waits
      <3>2. k = handed
        BY <3>1, CopyOneBehind
      <3>3. job[k].slot = Copy!Last /\ Len(recent) \in 1..Len(recent)
        BY <1>0, <3>1, <3>2 DEF Copy!Shows, Copy!Jobs
      <3> QED BY <1>3, <3>1, <3>3 DEF Copy!Last
    <2> QED BY <1>2, <2>1, <2>2
  <1>12. ASSUME NEW j \in Copy!Jobs, j # h PROVE Copy!Clear(j)'
    <2> SUFFICES ASSUME job[j].stage = "out", job[j].behind <= 1
                 PROVE  /\ shown' # job[j].slot
                        /\ \A k \in Copy!Jobs :
                             k # j /\ Copy!Waits(k)' /\ k > copyNewest' => job'[k].slot # job[j].slot
      BY <1>5, <1>12 DEF Copy!Clear
    <2>1. /\ shown # job[j].slot
          /\ \A k \in Copy!Jobs : k # j /\ Copy!Waits(k) /\ k > copyNewest => job[k].slot # job[j].slot
      BY DEF Copy!Shows, Copy!Clear
    <2>2. job[j].slot # s
      BY <1>3 DEF Copy!Sound, Copy!Writes
    <2> QED BY <1>2, <1>5, <2>1, <2>2 DEF Copy!Waits
  <1>13. \A j \in Copy!Jobs : Copy!Clear(j)'
    BY <1>11, <1>12
  <1>14. /\ handed' >= 1 => /\ Copy!Waits(handed)' => job'[handed'].slot = Copy!Last'
                            /\ copyNewest' = handed' => shown' = Copy!Last'
         /\ handed' >= 2 => /\ Copy!Waits(handed - 1)' => job'[handed' - 1].slot = Copy!Before'
                            /\ copyNewest' = handed' - 1 => shown' = Copy!Before'
    BY <1>0, <1>2, <1>7, <1>8
  <1> QED BY <1>6, <1>9, <1>10, <1>13, <1>14 DEF Copy!Shows

\* A fence that retires shows its frame, or one newer than it is shown already.
LEMMA CopyRetiredShows ==
  ASSUME MaxJobs \in Nat, Copy!Sound, Copy!Shows, NEW j \in Copy!Jobs, Copy!Waits(j), Copy!Show(j),
         ~Copy!Waits(j)', \A i \in Copy!Jobs : i # j => job'[i] = job[i],
         UNCHANGED <<recent, handed>>
  PROVE  Copy!Shows'
  <1>0. handed \in 0..MaxJobs /\ copyNewest \in 0..handed /\ j \in 1..handed
    <2>1. handed \in 0..MaxJobs /\ copyNewest \in 0..handed
      BY DEF Copy!Sound, Copy!Types
    <2>2. \A i \in Copy!Jobs : i > handed => job[i].stage = "none"
      BY DEF Copy!Sound
    <2>3. ~(j > handed)
      BY <2>2 DEF Copy!Waits
    <2> QED BY <2>1, <2>3 DEF Copy!Jobs
  <1>1. \/ j > copyNewest /\ copyNewest' = j /\ shown' = job[j].slot
        \/ j <= copyNewest /\ copyNewest' = copyNewest /\ shown' = shown
    BY <1>0 DEF Copy!Show
  <1>2. copyNewest' >= copyNewest /\ copyNewest' >= j /\ copyNewest' # 0
    BY <1>0, <1>1
  <1>3. \A i \in Copy!Jobs : Copy!Waits(i)' => i # j /\ Copy!Waits(i) /\ job'[i] = job[i]
    BY DEF Copy!Waits
  <1>4. handed' >= 1 => /\ Copy!Waits(handed)' => job'[handed'].slot = Copy!Last'
                        /\ copyNewest' = handed' => shown' = Copy!Last'
    <2>1. handed >= 1 => handed \in Copy!Jobs
      BY <1>0 DEF Copy!Jobs
    <2> QED BY <1>1, <1>3, <2>1 DEF Copy!Shows, Copy!Last
  <1>5. handed' >= 2 => /\ Copy!Waits(handed - 1)' => job'[handed' - 1].slot = Copy!Before'
                        /\ copyNewest' = handed' - 1 => shown' = Copy!Before'
    <2>1. handed >= 2 => handed - 1 \in Copy!Jobs
      BY <1>0 DEF Copy!Jobs
    <2> QED BY <1>1, <1>3, <2>1 DEF Copy!Shows, Copy!Before
  <1>6. \A i \in Copy!Jobs : i <= handed' /\ i > copyNewest' => Copy!Waits(i)'
    <2>1. \A i \in Copy!Jobs : i > copyNewest' => i > copyNewest /\ i # j
      BY <1>0, <1>1 DEF Copy!Jobs
    <2> QED BY <2>1 DEF Copy!Shows, Copy!Waits
  <1>7. ASSUME NEW i \in Copy!Jobs PROVE Copy!Clear(i)'
    <2> SUFFICES ASSUME job'[i].stage = "out", job'[i].behind <= 1
                 PROVE  /\ shown' # job'[i].slot
                        /\ \A k \in Copy!Jobs :
                             k # i /\ Copy!Waits(k)' /\ k > copyNewest' => job'[k].slot # job'[i].slot
      BY DEF Copy!Clear
    <2>1. i # j /\ job'[i] = job[i]
      BY DEF Copy!Waits
    <2>2. /\ shown # job[i].slot
          /\ \A k \in Copy!Jobs : k # i /\ Copy!Waits(k) /\ k > copyNewest => job[k].slot # job[i].slot
      BY <2>1 DEF Copy!Shows, Copy!Clear
    <2>3. shown' # job'[i].slot
      BY <1>1, <2>1, <2>2
    <2>4. \A k \in Copy!Jobs : k > copyNewest' => k > copyNewest
      BY <1>0, <1>1 DEF Copy!Jobs
    <2> QED BY <1>3, <2>1, <2>2, <2>3, <2>4
  <1>8. Len(recent') = (IF handed' = 0 THEN 0 ELSE IF handed' = 1 THEN 1 ELSE 2)
    BY DEF Copy!Shows
  <1>9. \A i \in Copy!Jobs : Copy!Clear(i)'
    BY <1>7
  <1>10. copyNewest' = 0 => shown' = 0
    BY <1>2
  <1> QED BY <1>4, <1>5, <1>6, <1>8, <1>9, <1>10 DEF Copy!Shows

\* Neither a job's end nor its loss brings a frame nearer the display.
LEMMA CopyQuietShows ==
  ASSUME Copy!Shows, \A i \in Copy!Jobs : Copy!Waits(i)' <=> Copy!Waits(i),
         \A i \in Copy!Jobs : Copy!Waits(i) => job'[i].slot = job[i].slot /\ job'[i].behind = job[i].behind,
         \A i \in Copy!Jobs : job'[i].stage = "out" => job[i].stage = "out",
         UNCHANGED <<recent, handed, copyNewest, shown>>, MaxJobs \in Nat, handed \in 0..MaxJobs
  PROVE  Copy!Shows'
  <1>1. \A i \in Copy!Jobs : Copy!Clear(i)'
    BY DEF Copy!Shows, Copy!Clear, Copy!Waits
  <1>2. (handed >= 1 => handed \in Copy!Jobs) /\ (handed >= 2 => handed - 1 \in Copy!Jobs)
    BY DEF Copy!Jobs
  <1>3. /\ handed' >= 1 => /\ Copy!Waits(handed)' => job'[handed'].slot = Copy!Last'
                           /\ copyNewest' = handed' => shown' = Copy!Last'
        /\ handed' >= 2 => /\ Copy!Waits(handed - 1)' => job'[handed' - 1].slot = Copy!Before'
                           /\ copyNewest' = handed' - 1 => shown' = Copy!Before'
    BY <1>2 DEF Copy!Shows, Copy!Last, Copy!Before, Copy!Waits
  <1> QED BY <1>1, <1>3 DEF Copy!Shows, Copy!Waits

\* Every step keeps what is shown in the memory of the lane, while every frame was sent.
LEMMA CopyWatchedKept ==
  ASSUME MaxJobs \in Nat
  PROVE  Copy!Sound /\ Copy!Watched /\ [Copy!Next]_(Copy!vars) => Copy!Watched'
  <1> SUFFICES ASSUME Copy!Sound, Copy!Watched, [Copy!Next]_(Copy!vars) PROVE Copy!Watched'
    OBVIOUS
  <1>0. unsent => unsent'
    BY DEF Copy!Next, Copy!Hand, Copy!HandUnsent, Copy!Busy, Copy!Retire, Copy!Drop, Copy!Lose,
      Copy!RetireLost, Copy!Take, Copy!LetGo, Copy!vars
  <1> SUFFICES ASSUME Copy!Shows PROVE Copy!Watched'
    BY <1>0 DEF Copy!Watched
  <1>1. handed \in 0..MaxJobs /\ job \in [Copy!Jobs -> Copy!Records]
    BY DEF Copy!Sound, Copy!Types, Copy!Records
  <1>2. ASSUME NEW shape \in Copy!Shapes, Copy!Hand(shape) PROVE Copy!Watched'
    BY <1>2, CopyHandShows DEF Copy!Watched
  <1>3. ASSUME NEW shape \in Copy!Shapes, Copy!HandUnsent(shape) PROVE Copy!Watched'
    BY <1>3 DEF Copy!HandUnsent, Copy!Watched
  <1>4. ASSUME NEW j \in Copy!Jobs, Copy!Retire(j) \/ Copy!RetireLost(j) PROVE Copy!Watched'
    <2>1. Copy!Show(j) /\ Copy!Waits(j) /\ UNCHANGED <<recent, handed>>
      BY <1>4 DEF Copy!Retire, Copy!RetireLost, Copy!Waits, Copy!ringVars
    <2>2. ~Copy!Waits(j)' /\ \A i \in Copy!Jobs : i # j => job'[i] = job[i]
      <3>1. PICK r \in Copy!Records : r.stage \in {"retired", "none"} /\ job' = [job EXCEPT ![j] = r]
        BY <1>1, <1>4 DEF Copy!Retire, Copy!RetireLost, Copy!NoJob, Copy!Records
      <3> QED BY <1>1, <3>1 DEF Copy!Waits
    <2> QED BY <2>1, <2>2, CopyRetiredShows DEF Copy!Watched
  <1>5. ASSUME NEW j \in Copy!Jobs, Copy!Drop(j) \/ Copy!Lose(j) PROVE Copy!Watched'
    <2>1. UNCHANGED <<recent, handed, copyNewest, shown>>
      BY <1>5 DEF Copy!Drop, Copy!Lose
    <2>2. /\ \A i \in Copy!Jobs : i # j => job'[i] = job[i]
          /\ Copy!Waits(j)' <=> Copy!Waits(j)
          /\ Copy!Waits(j) => job'[j].slot = job[j].slot /\ job'[j].behind = job[j].behind
          /\ job'[j].stage # "out"
      BY <1>1, <1>5 DEF Copy!Drop, Copy!Lose, Copy!Waits, Copy!NoJob, Copy!Records
    <2>3. \A i \in Copy!Jobs : Copy!Waits(i)' <=> Copy!Waits(i)
      BY <2>2 DEF Copy!Waits
    <2>4. \A i \in Copy!Jobs : Copy!Waits(i) =>
            job'[i].slot = job[i].slot /\ job'[i].behind = job[i].behind
      BY <2>2
    <2>5. \A i \in Copy!Jobs : job'[i].stage = "out" => job[i].stage = "out"
      BY <2>2
    <2> QED BY <1>1, <2>1, <2>3, <2>4, <2>5, CopyQuietShows DEF Copy!Watched
  <1>6. ASSUME \/ \E shape \in Copy!Shapes : Copy!Busy(shape)
               \/ Copy!Take \/ Copy!LetGo \/ UNCHANGED Copy!vars
        PROVE  Copy!Watched'
    <2>1. UNCHANGED <<recent, handed, copyNewest, shown, job>>
      BY <1>6 DEF Copy!Busy, Copy!Take, Copy!LetGo, Copy!vars, Copy!ringVars
    <2>2. \A i \in Copy!Jobs : Copy!Waits(i)' <=> Copy!Waits(i)
      BY <2>1 DEF Copy!Waits
    <2> QED BY <1>1, <2>1, <2>2, CopyQuietShows DEF Copy!Watched
  <1> QED BY <1>2, <1>3, <1>4, <1>5, <1>6 DEF Copy!Next

\* So a surface on the display is written only with two frames queued behind it.
LEMMA CopyGlassWatched == ASSUME MaxJobs \in Nat PROVE Copy!Sound /\ Copy!Watched => Copy!GlassKept
  <1> SUFFICES ASSUME Copy!Sound, Copy!Shows, NEW j \in Copy!Jobs, job[j].stage = "out", job[j].slot = shown
               PROVE  job[j].behind > 1
    BY DEF Copy!Watched, Copy!GlassKept
  <1>1. job[j].behind \in Nat
    BY DEF Copy!Sound, Copy!Types
  <1>2. ~(job[j].behind <= 1)
    BY DEF Copy!Shows, Copy!Clear
  <1> QED BY <1>1, <1>2

\* Nothing is shown at the start.
LEMMA CopyWatchedStarts == ASSUME MaxJobs \in Nat PROVE Copy!Init => Copy!Watched
  <1> SUFFICES ASSUME Copy!Init PROVE Copy!Shows
    BY DEF Copy!Watched
  <1>1. Len(recent) = 0 /\ handed = 0 /\ copyNewest = 0 /\ shown = 0
        /\ \A j \in Copy!Jobs : job[j].stage = "none" /\ j > 0
    BY DEF Copy!Init, Copy!NoJob, Copy!Jobs
  <1> QED BY <1>1 DEF Copy!Shows, Copy!Clear, Copy!Jobs

-----------------------------------------------------------------------------
(* What holds in the whole                                                 *)

\* So for the journal.
LEMMA JrSteps ==
  /\ Init => Jr!Init
  /\ [Next]_vars => [Jr!Next]_(Jr!vars)
  <1>1. Init => Jr!Init
    BY DEF Init
  <1>2. [Next]_vars => Jr!Next \/ UNCHANGED jrVars
    BY DEF Next, RetNext, ShutNext, TlNext, MonNext, MemNext, HostNext, CopyNext, LandNext, JrNext,
      vars
  <1> QED BY <1>1, <1>2 DEF Jr!vars, jrVars, Jr!worldVars, Jr!tapeVars

\* No two copies are made into one surface of a scanout (venus/present_copy.rs
\* pick_slot).
THEOREM OneWriterHere == ASSUME MaxJobs \in Nat PROVE Spec => []OneWriter
  <1>1. Init => Copy!Sound
    BY CopySteps, CopyStarts
  <1>2. Copy!Sound /\ [Next]_vars => Copy!Sound'
    BY CopySteps, CopySoundKept
  <1>3. Copy!Sound => OneWriter
    BY CopyOneWriterSound DEF OneWriter
  <1> QED BY <1>1, <1>2, <1>3, PTL DEF Spec

\* Nor is a copy of the last two frames made into the surface the display shows, if
\* every frame was sent (venus/present_copy.rs Lane::recent).
THEOREM GlassKeptHere == ASSUME MaxJobs \in Nat PROVE Spec => []GlassKept
  <1>1. Init => Copy!Sound /\ Copy!Watched
    BY CopySteps, CopyStarts, CopyWatchedStarts
  <1>2. Copy!Sound /\ Copy!Watched /\ [Next]_vars => Copy!Sound' /\ Copy!Watched'
    BY CopySteps, CopySoundKept, CopyWatchedKept
  <1>3. Copy!Sound /\ Copy!Watched => GlassKept
    BY CopyGlassWatched DEF GlassKept
  <1> QED BY <1>1, <1>2, <1>3, PTL DEF Spec

\* What the timelines keep holds in the whole.
LEMMA TlKept == Spec => []Tl!IInv
  BY TlSteps, TlStarts, TlStepKeeps, PTL DEF Spec

\* A native context's fence is answered only when what it covers is done
\* (drm/timeline.rs wait).
THEOREM RetiredMeansDoneHere == Spec => []Tl!RetiredMeansDone
  <1>1. Tl!IInv => Tl!RetiredMeansDone
    BY DEF Tl!IInv
  <1> QED BY <1>1, TlKept, PTL

\* Each ring's fences are answered one at a time, in order, none skipped: a native
\* context's timelines implement FenceOrder, but for the fairness (drm/timeline.rs).
THEOREM RingsAnswerInOrder == Spec => Tl!ImplementsFenceOrder
  <1>1. Init => Tl!FO!Init
    BY TlSteps DEF Tl!Init, Tl!FO!Init, Tl!Zeros
  <1>2. Tl!IInv /\ [Next]_vars => [Tl!FO!Next]_(Tl!FO!vars)
    BY TlSteps, TlStepsImplement
  <1> QED BY <1>1, <1>2, TlKept, PTL DEF Spec, Tl!ImplementsFenceOrder, Tl!FO!Safety

\* A monitored ring is late only where a shorter period reached the thread between its
\* read of the old one and its sleep, or the sleep began anew (venus/monitor.rs run).
THEOREM LateOnlyIfMissedHere == ASSUME Mon!Asked PROVE Spec => []LateOnlyIfMissed
  <1>1. Mon!IInv => LateOnlyIfMissed
    BY MonInTime DEF LateOnlyIfMissed
  <1> QED BY <1>1, MonSteps, MonStarts, MonStepKeeps, PTL DEF Spec

\* Each bucket of the ledger is the storages that stand and that it answers for
\* (budget.rs Charge::drop).
THEOREM CountedHere == ASSUME Mem!Sized PROVE Spec => []Counted
  <1>1. Mem!IInv => Counted
    BY DEF Mem!IInv, Counted
  <1> QED BY <1>1, MemSteps, Mem!Starts, Mem!StepKeeps, PTL DEF Spec

\* The same of what contexts made, which stays within the cap, whoever allocates at once
\* and whatever outlives its context (budget.rs Account::try_charge).
THEOREM VenusCappedHere == ASSUME Mem!Sized, Cap \in Nat PROVE Spec => []VenusCapped
  <1>1. Mem!IInv /\ Mem!Capped => VenusCapped
    BY DEF Mem!Capped, VenusCapped
  <1> QED BY <1>1, MemSteps, Mem!Starts, Mem!StepKeeps, Mem!CappedStarts, Mem!CappedKept, PTL
          DEF Spec

\* What somebody holds a share of is in its context's journal (venus/context.rs
\* collect_journal).
THEOREM ExportKeptHere == ASSUME Mem!Sized PROVE Spec => []ExportKept
  <1>1. Mem!IInv => ExportKept
    BY Mem!KeptExports DEF ExportKept
  <1> QED BY <1>1, MemSteps, Mem!Starts, Mem!StepKeeps, PTL DEF Spec

\* The table's invariants hold in the whole.
LEMMA HostKept == Spec => [](Host!Kept /\ Host!Living)
  <1>1. Init => Host!Kept /\ Host!Living
    BY HostSteps, Host!Starts, Host!LivingKept
  <1>2. Host!Kept /\ Host!Living /\ [Next]_vars => Host!Kept' /\ Host!Living'
    BY HostSteps, Host!StepKeeps, Host!LivingKept
  <1> QED BY <1>1, <1>2, PTL DEF Spec

\* A handle names one resource on both sides of the table (vrend/resource.rs sync).
THEOREM ReconciledHere == Spec => []Reconciled
  <1>1. Host!Kept => Reconciled
    BY Host!KeptReconciled DEF Reconciled
  <1> QED BY <1>1, HostKept, PTL

\* A texture a context draws into is not deleted (vrend/vrend.rs sweep_condemned).
THEOREM TexturesKeptHere == Spec => []TexturesKept
  <1>1. Host!Kept => TexturesKept
    BY Host!KeptTextures DEF TexturesKept
  <1> QED BY <1>1, HostKept, PTL

\* What a context's command gave a type keeps it as long as its handle does
\* (vrend/vrend.rs resource_attach_blob).
THEOREM TypedStaysHere == Spec => TypedStays
  <1>1. Host!Kept /\ [Next]_vars => [Host!TypedStep]_(Host!vars)
    BY HostSteps, Host!TypedKept
  <1>2. TypedStays <=> [][Host!TypedStep]_(Host!vars)
    BY DEF TypedStays, Host!TypedStays, Host!TypedStep
  <1> QED BY <1>1, <1>2, HostKept, PTL DEF Spec

\* So for the pictures on their way.
LEMMA LandSteps ==
  /\ Init => Land!Init
  /\ [Next]_vars => [Land!Next]_(Land!vars)
  <1>1. Init => Land!Init
    BY DEF Init
  <1>2. [Next]_vars => Land!Next \/ UNCHANGED landVars
    BY DEF Next, RetNext, ShutNext, TlNext, MonNext, MemNext, HostNext, CopyNext, LandNext, JrNext,
      vars
  <1> QED BY <1>1, <1>2 DEF Land!vars, landVars, Land!jobVars, Land!slotVars, Land!waitVars

\* A command finds every decode before it done, for any textures and codecs
\* (vrend/video/pending.rs).
THEOREM ReadsLatestHere == ASSUME Land!Finite PROVE Spec => []ReadsLatest
  <1>1. Land!IInv => ReadsLatest
    BY Land!Reads DEF ReadsLatest
  <1> QED BY <1>1, LandSteps, Land!Starts, Land!StepKeeps, PTL DEF Spec

\* The budgets this instance gives are ones the journal's assumption allows.
LEMMA BudgetsAfforded == Jr!Afforded
  <1> DEFINE S == [Jr!Kinds -> Nat]
  <1>1. ASSUME NEW a \in Nat, NEW b \in Nat, NEW c \in Nat, NEW d \in Nat, NEW e \in Nat,
               NEW f \in Nat, NEW g \in Nat, NEW h \in Nat, NEW i \in Nat
        PROVE  Budget(a, b, c, d, e, f, g, h, i) \in S
    BY DEF Budget, Jr!Kinds
  <1> HIDE DEF S
  <1>2. /\ Budget(3, 1, 1, 0, 1, 0, 0, 0, 0) \in S /\ Budget(2, 2, 1, 1, 0, 0, 0, 0, 0) \in S
        /\ Budget(2, 2, 0, 1, 1, 1, 0, 0, 0) \in S /\ Budget(1, 3, 0, 0, 0, 0, 3, 1, 0) \in S
        /\ Budget(1, 2, 0, 0, 1, 0, 3, 1, 0) \in S /\ Budget(2, 1, 0, 1, 0, 0, 2, 1, 0) \in S
        /\ Budget(0, 0, 0, 0, 0, 0, 0, 0, 4) \in S
    BY <1>1
  <1>3. Budgets \subseteq S
    BY <1>2 DEF Budgets
  <1> QED BY <1>3 DEF Jr!Afforded, S

\* A compaction of a context's journal changes no export that could still happen
\* (venus/journal.rs compact).
THEOREM CompactionUnseenHere == Spec => []CompactionUnseen
  <1>1. Jr!IInv => CompactionUnseen
    BY Jr!Unseen DEF CompactionUnseen
  <1> QED BY <1>1, BudgetsAfforded, JrSteps, Jr!Starts, Jr!StepKeeps, PTL DEF Spec

\* What a restore of a context's journal remakes is what the guest made of what stands
\* (venus/journal.rs compact, venus/context.rs restore).
THEOREM RestoreFaithfulHere == Spec => []RestoreFaithful
  <1>1. Jr!IInv /\ Jr!Remade => RestoreFaithful
    BY BudgetsAfforded, Jr!Faithful DEF RestoreFaithful
  <1> QED BY <1>1, BudgetsAfforded, JrSteps, Jr!Starts, Jr!StartsRemade, Jr!StepKeeps,
             Jr!StepRemakes, PTL DEF Spec

-----------------------------------------------------------------------------
(* The types of what the invariants above leave out                        *)

\* A monitor's ring, its thread and its callers.
MonPlaces ==
  /\ alive \in SUBSET Rings /\ spurious \in 0..MaxSpurious
  /\ monThread \in {"top", "stamp", "sleep", "wait", "gone"}
  /\ caller \in {"idle", "watch", "shorten", "joining", "joined"}

\* They stay what they are.
LEMMA MonPlacesKept ==
  ASSUME MaxSpurious \in Nat
  PROVE  /\ Mon!Init => MonPlaces
         /\ MonPlaces /\ [Mon!Next]_(Mon!vars) => MonPlaces'
  <1>1. Mon!Init => MonPlaces
    BY DEF Mon!Init, MonPlaces
  <1>2. ASSUME MonPlaces, [Mon!Next]_(Mon!vars) PROVE MonPlaces'
    BY <1>2 DEF MonPlaces, Mon!Next, Mon!vars, Mon!Ask, Mon!Destroy, Mon!Watch, Mon!Shorten,
      Mon!Drop, Mon!Join, Mon!Thread, Mon!Top, Mon!Stamp, Mon!Sleep, Mon!Wake, Mon!SpuriousWake,
      Mon!Tick
  <1> QED BY <1>1, <1>2

\* With the monitor's invariant they are its types.
LEMMA MonTyped == Mon!IInv /\ MonPlaces => Mon!TypeOK
  BY DEF Mon!IInv, Mon!Types, MonPlaces, Mon!TypeOK

\* A lane has no more slots than it may, and a slot named anywhere was minted.
CopyFits ==
  /\ Cardinality(copySlots) <= MaxSlots
  /\ \A j \in Copy!Jobs : job[j].slot \in 0..Len(copyMinted)
  /\ shown \in 0..Len(copyMinted) /\ inUse \subseteq 1..Len(copyMinted)

\* A mode change and a new slot keep to the slots there may be.
LEMMA CopyBounded ==
  ASSUME Copy!Sound, MaxSlots \in Nat, Cardinality(copySlots) <= MaxSlots, NEW shape,
         \/ \E s : Copy!Picks(shape, s)
         \/ copySlots' = Copy!Retained(shape)
  PROVE  Cardinality(copySlots') <= MaxSlots
  <1> DEFINE stay == Copy!Retained(shape)
  <1>1. IsFiniteSet(copySlots)
    <2>1. Len(copyMinted) \in Nat /\ copySlots \subseteq 1..Len(copyMinted)
      BY DEF Copy!Sound, Copy!Types, Copy!Slots
    <2>2. IsFiniteSet(1..Len(copyMinted))
      BY <2>1, FS_Interval
    <2> QED BY <2>1, <2>2, FS_Subset
  <1>2. stay \subseteq copySlots
    BY DEF Copy!Retained
  <1>3. /\ IsFiniteSet(stay) /\ Cardinality(stay) <= Cardinality(copySlots)
        /\ Cardinality(stay) \in Nat /\ Cardinality(copySlots) \in Nat
    BY <1>1, <1>2, FS_Subset, FS_CardinalityType
  <1>4. CASE copySlots' = stay
    BY <1>3, <1>4
  <1>5. ASSUME NEW s, Cardinality(stay) < MaxSlots, copySlots' = stay \cup {s}
        PROVE  Cardinality(copySlots') <= MaxSlots
    <2>1. Cardinality(stay \cup {s}) \in {Cardinality(stay), Cardinality(stay) + 1}
      BY <1>3, FS_AddElement
    <2> QED BY <1>3, <1>5, <2>1
  <1> HIDE DEF stay
  <1>6. ASSUME NEW s, Copy!Picks(shape, s)
        PROVE  copySlots' = stay \/ (Cardinality(stay) < MaxSlots /\ copySlots' = stay \cup {s})
    BY <1>6, CopyLibrary DEF Copy!Picks, stay
  <1> QED BY <1>4, <1>5, <1>6 DEF stay

\* Every step of a present, its copy's end and the window server keeps to it.
LEMMA CopyFitsKept ==
  ASSUME MaxJobs \in Nat, MaxSlots \in Nat
  PROVE  /\ Copy!Init => CopyFits
         /\ Copy!Sound /\ CopyFits /\ [Copy!Next]_(Copy!vars) => CopyFits'
  <1>1. ASSUME Copy!Init PROVE CopyFits
    <2>1. copySlots = {} /\ Len(copyMinted) = 0 /\ shown = 0 /\ inUse = {}
      BY <1>1 DEF Copy!Init
    <2>2. \A j \in Copy!Jobs : job[j].slot = 0
      BY <1>1 DEF Copy!Init, Copy!NoJob
    <2> QED BY <2>1, <2>2, FS_EmptySet DEF CopyFits
  <1>2. ASSUME Copy!Sound, CopyFits, [Copy!Next]_(Copy!vars) PROVE CopyFits'
    <2>1. /\ Len(copyMinted) \in Nat /\ copyMinted \in Seq(Copy!Shapes)
          /\ job \in [Copy!Jobs -> Copy!Records]
      BY <1>2 DEF Copy!Sound, Copy!Types, Copy!Records
    <2>2. ASSUME NEW shape \in Copy!Shapes, Copy!Hand(shape) \/ Copy!HandUnsent(shape)
          PROVE  CopyFits'
      <3>1. PICK s \in 1..(Len(copyMinted) + 1) :
              /\ Copy!Picks(shape, s) /\ UNCHANGED <<shown, inUse>>
              /\ \/ job' = job
                 \/ \E n \in Nat : job' = [job EXCEPT ![handed + 1] =
                      [slot |-> s, stage |-> "out", behind |-> n]]
        <4>1. Copy!Hand(shape) => Cardinality(Copy!Outstanding) \in Nat
          BY <1>2, CopyCountsOutstanding DEF Copy!Sound, Copy!Types
        <4> QED BY <2>2, <4>1, CopyLibrary DEF Copy!Hand, Copy!HandUnsent
      <3>2. s \in Int
        BY <2>1
      <3>3. Len(copyMinted') >= Len(copyMinted) /\ s \in 1..Len(copyMinted')
            /\ copyMinted' \in Seq(Copy!Shapes)
        BY <1>2, <3>1, <3>2, CopyPicked
      <3>4. Len(copyMinted') \in Nat
        BY <3>3
      <3>5. Cardinality(copySlots') <= MaxSlots
        BY <1>2, <3>1, CopyBounded DEF CopyFits
      <3>6. \A j \in Copy!Jobs : job'[j].slot \in 0..Len(copyMinted')
        <4> SUFFICES ASSUME NEW j \in Copy!Jobs PROVE job'[j].slot \in 0..Len(copyMinted')
          OBVIOUS
        <4>1. job'[j] = job[j] \/ job'[j].slot = s
          <5>1. CASE job' = job
            BY <5>1
          <5>2. ASSUME NEW n \in Nat, job' = [job EXCEPT ![handed + 1] =
                         [slot |-> s, stage |-> "out", behind |-> n]]
                PROVE  job'[j] = job[j] \/ job'[j].slot = s
            BY <2>1, <5>2
          <5> QED BY <3>1, <5>1, <5>2
        <4>2. job[j].slot \in 0..Len(copyMinted)
          BY <1>2 DEF CopyFits
        <4> QED BY <2>1, <3>3, <3>4, <4>1, <4>2
      <3>7. shown' \in 0..Len(copyMinted') /\ inUse' \subseteq 1..Len(copyMinted')
        BY <1>2, <2>1, <3>1, <3>3, <3>4 DEF CopyFits
      <3> QED BY <3>5, <3>6, <3>7 DEF CopyFits
    <2>3. ASSUME NEW shape \in Copy!Shapes, Copy!Busy(shape) PROVE CopyFits'
      <3>1. Cardinality(copySlots') <= MaxSlots
        BY <1>2, <2>3, CopyBounded DEF Copy!Busy, CopyFits
      <3> QED BY <1>2, <2>3, <3>1 DEF Copy!Busy, CopyFits
    <2>4. ASSUME NEW j \in Copy!Jobs,
                 Copy!Retire(j) \/ Copy!Drop(j) \/ Copy!Lose(j) \/ Copy!RetireLost(j)
          PROVE  CopyFits'
      <3>1. /\ UNCHANGED <<copySlots, copyMinted, inUse>>
            /\ shown' \in {shown, job[j].slot}
        BY <2>4 DEF Copy!Retire, Copy!Drop, Copy!Lose, Copy!RetireLost, Copy!Show, Copy!ringVars
      <3>2. \A i \in Copy!Jobs : job'[i].slot \in {0, job[i].slot}
        <4>1. CASE Copy!Retire(j)
          BY <2>1, <4>1 DEF Copy!Retire, Copy!Records
        <4>2. CASE Copy!Drop(j) \/ Copy!RetireLost(j)
          <5>1. job' = [job EXCEPT ![j] = Copy!NoJob] /\ Copy!NoJob.slot = 0
            BY <4>2 DEF Copy!Drop, Copy!RetireLost, Copy!NoJob
          <5> QED BY <2>1, <5>1
        <4>3. CASE Copy!Lose(j)
          BY <2>1, <4>3 DEF Copy!Lose, Copy!Records
        <4> QED BY <2>4, <4>1, <4>2, <4>3
      <3> QED BY <1>2, <2>1, <3>1, <3>2 DEF CopyFits
    <2>5. CASE Copy!Take \/ Copy!LetGo
      BY <1>2, <2>1, <2>5 DEF Copy!Take, Copy!LetGo, Copy!ringVars, CopyFits
    <2>6. CASE UNCHANGED Copy!vars
      BY <1>2, <2>6 DEF Copy!vars, Copy!ringVars, CopyFits
    <2> QED BY <1>2, <2>2, <2>3, <2>4, <2>5, <2>6 DEF Copy!Next
  <1> QED BY <1>1, <1>2

\* With what is sound of the slots it gives the lane's types.
LEMMA CopyTyped == ASSUME MaxJobs \in Nat PROVE Copy!Sound /\ CopyFits => Copy!TypeOK
  <1> SUFFICES ASSUME Copy!Sound, CopyFits PROVE Copy!TypeOK
    OBVIOUS
  <1>1. Copy!Types /\ Len(copyMinted) \in Nat
    BY DEF Copy!Sound, Copy!Types
  <1>2. Copy!Cardinality(copySlots) <= MaxSlots /\ \A s \in Copy!Slots : copyMinted[s] \in Copy!Shapes
    BY <1>1, CopyLibrary DEF Copy!Types, Copy!Slots, CopyFits
  <1>3. Len(recent) <= Copy!Remembered /\ Copy!Range(recent) \subseteq Copy!Slots
    <2>1. Range(recent) = {recent[i] : i \in 1..Len(recent)}
      BY <1>1 DEF Copy!Types, Range
    <2>2. Copy!Range(recent) = Range(recent)
      BY CopyLibrary
    <2>3. Len(recent) <= Copy!Remembered
      <3>1. Len(recent) \in 0..2
        BY <1>1 DEF Copy!Types
      <3> QED BY ONLY <3>1 DEF Copy!Remembered
    <2>4. \A i \in 1..Len(recent) : recent[i] \in Copy!Slots
      BY <1>1 DEF Copy!Types
    <2> QED BY <2>1, <2>2, <2>3, <2>4
  <1>4. handed \in 0..MaxJobs /\ copyNewest \in 0..MaxJobs
    BY <1>1 DEF Copy!Types
  <1>5. shown \in {0} \cup Copy!Slots /\ inUse \subseteq Copy!Slots
    BY <1>1 DEF CopyFits, Copy!Slots
  <1>6. \A j \in Copy!Jobs : /\ job[j].slot \in {0} \cup Copy!Slots
                            /\ job[j].stage \in {"none", "out", "retired", "lost"}
    BY <1>1 DEF Copy!Types, CopyFits, Copy!Slots
  <1> QED BY <1>1, <1>2, <1>3, <1>4, <1>5, <1>6 DEF Copy!Types, Copy!TypeOK

\* Every part's types and inductive invariant, for any constants that are as
\* ServicesConstants says: what the run checks of the whole (fence.rs, ffi.rs cleanup,
\* drm/timeline.rs, venus/monitor.rs, budget.rs, vrend/resource.rs, present/target.rs,
\* vrend/video/pending.rs and venus/journal.rs).
THEOREM InvariantHere == Spec => []IInv
  <1>0. /\ Same /\ Mon!Asked /\ MaxSpurious \in Nat /\ Mem!Sized /\ MaxMade \in Nat
        /\ MaxJobs \in Nat /\ MaxSlots \in Nat /\ Land!Finite
    BY ServicesConstants DEF Same
  <1>1. Spec => [](Mon!TypeOK /\ Mon!IInv)
    <2>1. Init => Mon!IInv /\ MonPlaces
      BY <1>0, MonSteps, MonStarts, MonPlacesKept
    <2>2. Mon!IInv /\ MonPlaces /\ [Next]_vars => Mon!IInv' /\ MonPlaces'
      BY <1>0, MonSteps, MonStepKeeps, MonPlacesKept
    <2>3. Mon!IInv /\ MonPlaces => Mon!TypeOK
      BY MonTyped
    <2> QED BY <2>1, <2>2, <2>3, PTL DEF Spec
  <1>2. Spec => [](Mem!TypeOK /\ Mem!IInv)
    <2>1. Init => Mem!IInv /\ Mem!Filed
      BY <1>0, MemSteps, Mem!Starts, Mem!FiledKept
    <2>2. Mem!IInv /\ Mem!Filed /\ [Next]_vars => Mem!IInv' /\ Mem!Filed'
      BY <1>0, MemSteps, Mem!StepKeeps, Mem!FiledKept
    <2>3. Mem!IInv /\ Mem!Filed => Mem!TypeOK
      BY Mem!Typed
    <2> QED BY <2>1, <2>2, <2>3, PTL DEF Spec
  <1>3. Spec => [](Host!TypeOK /\ Host!Kept /\ Host!Living)
    <2>1. Init => Host!Kept /\ Host!Living /\ Host!Filed
      BY <1>0, HostSteps, Host!Starts, Host!LivingKept, Host!FiledKept
    <2>2. Host!Kept /\ Host!Living /\ Host!Filed /\ [Next]_vars
            => Host!Kept' /\ Host!Living' /\ Host!Filed'
      BY <1>0, HostSteps, Host!StepKeeps, Host!LivingKept, Host!FiledKept
    <2>3. Host!Kept /\ Host!Living /\ Host!Filed => Host!TypeOK
      BY <1>0, Host!Typed
    <2> QED BY <2>1, <2>2, <2>3, PTL DEF Spec
  <1>4. Spec => [](Copy!TypeOK /\ Copy!Sound /\ Copy!Watched)
    <2>1. Init => Copy!Sound /\ Copy!Watched /\ CopyFits
      BY <1>0, CopySteps, CopyStarts, CopyWatchedStarts, CopyFitsKept
    <2>2. Copy!Sound /\ Copy!Watched /\ CopyFits /\ [Next]_vars
            => Copy!Sound' /\ Copy!Watched' /\ CopyFits'
      BY <1>0, CopySteps, CopySoundKept, CopyWatchedKept, CopyFitsKept
    <2>3. Copy!Sound /\ CopyFits => Copy!TypeOK
      BY <1>0, CopyTyped
    <2> QED BY <2>1, <2>2, <2>3, PTL DEF Spec
  <1>5. Spec => [](Land!TypeOK /\ Land!IInv)
    <2>1. Init => Land!IInv /\ Land!Waiting
      BY <1>0, LandSteps, Land!Starts, Land!WaitingKept
    <2>2. Land!IInv /\ Land!Waiting /\ [Next]_vars => Land!IInv' /\ Land!Waiting'
      BY <1>0, LandSteps, Land!StepKeeps, Land!WaitingKept
    <2>3. Land!IInv /\ Land!Waiting => Land!TypeOK
      BY <1>0, Land!Typed
    <2> QED BY <2>1, <2>2, <2>3, PTL DEF Spec
  <1>6. Spec => [](Jr!TypeOK /\ Jr!IInv /\ Jr!Remade)
    <2>1. Init => Jr!IInv /\ Jr!Remade
      BY BudgetsAfforded, JrSteps, Jr!Starts, Jr!StartsRemade
    <2>2. Jr!IInv /\ Jr!Remade /\ [Next]_vars => Jr!IInv' /\ Jr!Remade'
      BY JrSteps, Jr!StepKeeps, Jr!StepRemakes
    <2>3. Jr!IInv /\ Jr!Remade => Jr!TypeOK
      BY Jr!Typed
    <2> QED BY <2>1, <2>2, <2>3, PTL DEF Spec
  <1>7. Spec => []Ret!IInv /\ [](chosen # "retirement" => Shut!IInv)
    BY <1>0, QueueKept
  <1>8. /\ Ret!IInv /\ (chosen # "retirement" => Shut!IInv) /\ Tl!IInv
        /\ Mon!TypeOK /\ Mon!IInv /\ Mem!TypeOK /\ Mem!IInv
        /\ Host!TypeOK /\ Host!Kept /\ Host!Living
        /\ Copy!TypeOK /\ Copy!Sound /\ Copy!Watched
        /\ Land!TypeOK /\ Land!IInv /\ Jr!TypeOK /\ Jr!IInv /\ Jr!Remade
        => IInv
    BY DEF IInv
  <1> QED BY <1>1, <1>2, <1>3, <1>4, <1>5, <1>6, <1>7, <1>8, TlKept, PTL
=============================================================================
