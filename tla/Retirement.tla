----------------------------- MODULE Retirement -----------------------------
(***************************************************************************)
(* src/fence.rs: the queue of answered fences, the one thread that hands   *)
(* them to the sink, and the shares (Retirement itself and its Handles)    *)
(* whose last drop stops that thread and joins it.                         *)
(*                                                                         *)
(* The queue's mutex makes push and pop single steps; delivery happens     *)
(* outside it, so anything may be queued while a fence is in hand.         *)
(***************************************************************************)
EXTENDS FenceJobs, Sequences

VARIABLES
  jobs,       \* Queue::jobs
  stopped,    \* Queue::stopped
  holders,    \* who holds a share of Inner
  made,       \* fences created so far on each stream
  thread,     \* where the retirement thread is
  hand,       \* the job it popped and has not finished with
  dropper,    \* where the last share's drop is
  delivered,  \* what the sink was told, in order
  refused     \* push's assertion failed: a fence came after the stop

vars == <<jobs, stopped, holders, made, thread, hand, dropper, delivered, refused>>

Init == /\ jobs = <<>>
        /\ stopped = FALSE
        /\ holders = {Owner}
        /\ made = [s \in Streams |-> 0]
        /\ thread = "looking"
        /\ hand = None
        /\ dropper = "none"
        /\ delivered = <<>>
        /\ refused = FALSE

\* Slips fence.rs could plausibly have, each the mutant of a definition below:
\* a job put at the wrong end, a push that does not notify, a stop tied to the
\* owner's drop instead of the last one, a pop from the wrong end, a drop that
\* does not join, and a delivery that keeps what it delivered.
EnqueueFront(q, job) == <<job>> \o q
NoWake(t) == t
OwnerShare(h) == h = Owner
PopNewest(q) == <<q[Len(q)], SubSeq(q, 1, Len(q) - 1)>>
JoinAtOnce == TRUE
ForgetHand == hand

-----------------------------------------------------------------------------
(* push                                                                    *)

Enqueue(q, job) == Append(q, job)

\* Condvar::notify_one, for the only thread that ever waits on it.
Wake(t) == IF t = "asleep" THEN "looking" ELSE t

push(job) ==
  IF stopped
  THEN /\ refused' = (refused \/ job # Stop)
       /\ UNCHANGED <<jobs, thread>>
  ELSE /\ jobs' = Enqueue(jobs, job)
       /\ thread' = Wake(thread)
       /\ UNCHANGED refused

\* retire_context, retire_global and retire_present, on either kind of share.
Retire(h, s) ==
  /\ h \in holders
  /\ made[s] < MaxFences
  /\ made' = [made EXCEPT ![s] = @ + 1]
  /\ push([stream |-> s, seqno |-> made[s] + 1])
  /\ UNCHANGED <<stopped, holders, hand, dropper, delivered>>

-----------------------------------------------------------------------------
(* Shares                                                                  *)

\* Retirement::handle, or the clone of a Handle.
Share(h) ==
  /\ holders # {}
  /\ h \notin holders
  /\ holders' = holders \cup {h}
  /\ UNCHANGED <<jobs, stopped, made, thread, hand, dropper, delivered, refused>>

\* Whether dropping h's share drops Inner.
LastShare(h) == holders = {h}

\* A share goes; the last one pushes Stop and turns to the join.
DropShare(h) ==
  /\ h \in holders
  /\ holders' = holders \ {h}
  /\ IF LastShare(h)
     THEN push(Stop) /\ dropper' = "joining"
     ELSE UNCHANGED <<jobs, thread, refused, dropper>>
  /\ UNCHANGED <<stopped, made, hand, delivered>>

\* JoinHandle::join returns only once the thread has.
ThreadOver == thread = "gone"

Join ==
  /\ dropper = "joining"
  /\ ThreadOver
  /\ dropper' = "joined"
  /\ UNCHANGED <<jobs, stopped, holders, made, thread, hand, delivered, refused>>

-----------------------------------------------------------------------------
(* run: the retirement thread                                              *)

\* pop_front, as what is taken and what is left.
PopFront(q) == <<Head(q), Tail(q)>>

Pop ==
  /\ thread = "looking"
  /\ jobs # <<>>
  /\ hand' = PopFront(jobs)[1]
  /\ jobs' = PopFront(jobs)[2]
  /\ thread' = "delivering"
  /\ UNCHANGED <<stopped, holders, made, dropper, delivered, refused>>

Sleep ==
  /\ thread = "looking"
  /\ jobs = <<>>
  /\ thread' = "asleep"
  /\ UNCHANGED <<jobs, stopped, holders, made, hand, dropper, delivered, refused>>

\* A condvar may wake for no reason; the loop looks at the queue again.
SpuriousWake ==
  /\ thread = "asleep"
  /\ thread' = "looking"
  /\ UNCHANGED <<jobs, stopped, holders, made, hand, dropper, delivered, refused>>

\* What the thread still has in hand when the sink has returned.
HandAfter == None

\* The sink is called with nothing held.
Deliver ==
  /\ thread = "delivering"
  /\ hand # Stop
  /\ delivered' = Append(delivered, hand)
  /\ hand' = HandAfter
  /\ thread' = "looking"
  /\ UNCHANGED <<jobs, stopped, holders, made, dropper, refused>>

Finish ==
  /\ thread = "delivering"
  /\ hand = Stop
  /\ stopped' = TRUE
  /\ hand' = None
  /\ thread' = "gone"
  /\ UNCHANGED <<jobs, holders, made, dropper, delivered, refused>>

Thread == Pop \/ Sleep \/ Deliver \/ Finish

Next == \/ \E h \in Holders : Share(h) \/ DropShare(h) \/ \E s \in Streams : Retire(h, s)
        \/ Join
        \/ Thread
        \/ SpuriousWake

\* The thread is a thread of its own and the sink's contract is to return, so
\* its steps happen; so does the return of a join whose thread has ended.
\* Nobody owes a fence, a share or a spurious wake.
Spec == Init /\ [][Next]_vars /\ WF_vars(Thread) /\ WF_vars(Join)

-----------------------------------------------------------------------------
(* Properties                                                              *)

\* The variables have their types, and a job is in hand exactly while the
\* thread is between the pop and the end of the delivery (fence.rs run).
TypeOK == /\ jobs \in Seq(Job)
          /\ stopped \in BOOLEAN
          /\ holders \subseteq Holders
          /\ made \in [Streams -> 0..MaxFences]
          /\ thread \in {"looking", "asleep", "delivering", "gone"}
          /\ hand \in Job \cup {None}
          /\ dropper \in {"none", "joining", "joined"}
          /\ delivered \in Seq(Fence)
          /\ refused \in BOOLEAN
          /\ (thread = "delivering") <=> (hand # None)

\* a was queued before b, as far as one stream can tell.
Earlier(a, b) == (a # Stop /\ b # Stop /\ a.stream = b.stream) => a.seqno < b.seqno

\* "Delivered in creation order within a ring" (FenceSink::context_fence).
PerRingOrder ==
  \A i, j \in 1..Len(delivered) : i < j => Earlier(delivered[i], delivered[j])

Delivered(s, n) == \E i \in 1..Len(delivered) : delivered[i] = [stream |-> s, seqno |-> n]

\* When the last share's drop has returned, every fence ever queued has reached
\* the sink: none is lost with the queue (Inner::drop).
NothingLost ==
  dropper = "joined" => \A s \in Streams : \A n \in 1..made[s] : Delivered(s, n)

\* The assertion in push: no fence comes after the thread has stopped, whatever
\* order the shares were dropped in.
NoFenceRefused == ~refused

\* The last drop returns: the stop reaches a thread that was asleep, and the
\* thread ends (Inner::drop joins it).
DropReturns == (dropper = "joining") ~> (dropper = "joined")

\* The number last delivered on a stream.
LastSeqno(s) ==
  LET at == {i \in 1..Len(delivered) : delivered[i].stream = s}
  IN  IF at = {} THEN 0
      ELSE delivered[CHOOSE i \in at : \A j \in at : j <= i].seqno

FO == INSTANCE FenceOrder WITH seen <- [s \in Streams |-> LastSeqno(s)]

\* The queue keeps what FenceOrder promises about fences: each stream's fences
\* are answered one at a time, in order, none skipped, all of them eventually.
ImplementsFenceOrder == FO!Spec

-----------------------------------------------------------------------------
(* The inductive invariant behind the safety properties                    *)

\* One stream's fences are in order along delivered, hand and jobs.
InOrder ==
  /\ PerRingOrder
  /\ \A i, j \in 1..Len(jobs) : i < j => Earlier(jobs[i], jobs[j])
  /\ \A i \in 1..Len(delivered), j \in 1..Len(jobs) : Earlier(delivered[i], jobs[j])
  /\ hand # None =>
       /\ \A i \in 1..Len(delivered) : Earlier(delivered[i], hand)
       /\ \A j \in 1..Len(jobs) : Earlier(hand, jobs[j])

\* No fence in the pipeline has a number its stream has not given out.
Numbered ==
  /\ \A i \in 1..Len(delivered) : delivered[i].seqno <= made[delivered[i].stream]
  /\ \A i \in 1..Len(jobs) : jobs[i] # Stop => jobs[i].seqno <= made[jobs[i].stream]
  /\ hand \notin {None, Stop} => hand.seqno <= made[hand.stream]

Queued(s, n) == \E i \in 1..Len(jobs) : jobs[i] = [stream |-> s, seqno |-> n]

\* Every number given out is somewhere: delivered, in hand or queued.
Present ==
  \A s \in Streams : \A n \in 1..made[s] :
    Delivered(s, n) \/ hand = [stream |-> s, seqno |-> n] \/ Queued(s, n)

\* Stop is pushed by the last share, so nothing ever follows it, and a thread
\* that has gone left nothing behind.
StopIsLast ==
  /\ holders = {} <=> dropper # "none"
  /\ \A i \in 1..Len(jobs) : jobs[i] = Stop => i = Len(jobs) /\ holders = {}
  /\ hand = Stop => jobs = <<>> /\ holders = {}
  /\ stopped <=> thread = "gone"
  /\ thread = "gone" => jobs = <<>> /\ hand = None /\ holders = {}
  /\ dropper = "joined" => thread = "gone"

IInv == TypeOK /\ InOrder /\ Numbered /\ Present /\ StopIsLast /\ NoFenceRefused

\* The place of a stream's last delivery.
IsLast(s, i) ==
  /\ i \in 1..Len(delivered)
  /\ delivered[i].stream = s
  /\ \A j \in 1..Len(delivered) : delivered[j].stream = s => j <= i

\* A stream with a delivery has a last one. Known by induction over the steps
\* rather than over the sequence.
HasLast ==
  \A s \in Streams :
    (\E j \in 1..Len(delivered) : delivered[j].stream = s) =>
      \E i \in 1..Len(delivered) : IsLast(s, i)

=============================================================================
