------------------------------ MODULE Timeline ------------------------------
(***************************************************************************)
(* src/drm/timeline.rs: a native context's fences, one queue per hardware  *)
(* ring, and the one thread that waits on the heads of all of them at once *)
(* and on a socket.  With it, what a fence waits for: the sync_file of the *)
(* ring's newest submission (src/drm/amdgpu/device.rs last_submit).        *)
(*                                                                         *)
(* A sync becomes readable when its work is done or the device is lost;    *)
(* nothing promises either, and submissions to one ring from two GPU       *)
(* contexts finish in any order.                                           *)
(***************************************************************************)
EXTENDS Integers, Sequences

CONSTANTS Rings,       \* the context's hardware rings
          MaxFences,   \* bound on the fences taken on one ring
          MaxSubmits   \* bound on the submissions to one ring

VARIABLES
  submitted,  \* how many submissions the kernel took on each ring
  done,       \* those whose sync is readable
  hung,       \* the rings whose work never finishes
  last,       \* last_submit: the submission whose sync the next fence takes, or 0
  newest,     \* the newest submission that was answered as done, or 0
  made,       \* fences taken on each ring
  covers,     \* for each fence, newest when it was taken
  queue,      \* State::rings
  retired,    \* the fence last retired on each ring
  stop,       \* State::stop
  woken,      \* the socket has something to read
  vmm,        \* "idle", "push" with a fence in hand, "kick" once the push let go of
              \* the lock, "joining", "joined"
  hand,       \* the ring and the sync of the fence being pushed
  thread,     \* where the waiter thread is
  heads,      \* the syncs it polls, or 0
  ready       \* the rings whose head it found readable

gpuVars   == <<submitted, done, hung, last, newest>>
fenceVars == <<made, covers, queue, retired>>
vars == <<gpuVars, fenceVars, stop, woken, vmm, hand, thread, heads, ready>>

Nothing == [ring |-> "none", sync |-> 0]
Zeros == [r \in Rings |-> 0]
Empty == [r \in Rings |-> <<>>]

Init ==
  /\ submitted = Zeros /\ done = [r \in Rings |-> {}] /\ hung \in SUBSET Rings
  /\ last = Zeros /\ newest = Zeros
  /\ made = Zeros /\ covers = Empty /\ queue = Empty /\ retired = Zeros
  /\ stop = FALSE /\ woken = FALSE
  /\ vmm = "idle" /\ hand = Nothing /\ thread = "look" /\ heads = Zeros /\ ready = {}

\* Slips, each the mutant of a definition below: a fence with no submission of
\* its own retired at once, as the C does; a stop that wakes nobody; a push that
\* wakes nobody.
OvertakeAll(r, sync) == sync = 0
StopSilently == woken
KickNobody == woken

-----------------------------------------------------------------------------
(* Submissions                                                             *)

\* cs_submit: the kernel takes the chunks, and the sync_file of what they signal
\* replaces the ring's last one...
Submit(r) ==
  /\ vmm = "idle" /\ submitted[r] < MaxSubmits
  /\ submitted' = [submitted EXCEPT ![r] = @ + 1]
  /\ last' = [last EXCEPT ![r] = submitted[r] + 1]
  /\ newest' = [newest EXCEPT ![r] = submitted[r] + 1]
  /\ UNCHANGED <<done, hung, fenceVars, stop, woken, vmm, hand, thread, heads, ready>>

\* ...or it takes them and the sync_file cannot be made: the guest is answered
\* with an error and the fence keeps what it would have waited for before.
SubmitUnsynced(r) ==
  /\ vmm = "idle" /\ submitted[r] < MaxSubmits
  /\ submitted' = [submitted EXCEPT ![r] = @ + 1]
  /\ UNCHANGED <<done, hung, last, newest, fenceVars, stop, woken, vmm, hand, thread, heads, ready>>

Complete(r) ==
  /\ r \notin hung
  /\ \E s \in 1..submitted[r] \ done[r] : done' = [done EXCEPT ![r] = @ \cup {s}]
  /\ UNCHANGED <<submitted, hung, last, newest, fenceVars, stop, woken, vmm, hand, thread, heads, ready>>

-----------------------------------------------------------------------------
(* Timelines::push and drop                                                *)

LockFree == thread \notin {"ready", "pop"}

\* Whether a fence has nothing to wait for.
RetiresNow(r, sync) == queue[r] = <<>> /\ sync = 0

\* Context::submit_fence takes the ring's last sync...
Fence(r) ==
  /\ vmm = "idle" /\ made[r] < MaxFences
  /\ made' = [made EXCEPT ![r] = @ + 1]
  /\ covers' = [covers EXCEPT ![r] = Append(@, newest[r])]
  /\ last' = [last EXCEPT ![r] = 0]
  /\ hand' = [ring |-> r, sync |-> last[r]]
  /\ vmm' = "push"
  /\ UNCHANGED <<submitted, done, hung, newest, queue, retired, stop, woken, thread, heads, ready>>

\* ...and the fence is pushed behind it.
Push(r) ==
  /\ vmm = "push" /\ hand.ring = r /\ LockFree
  /\ IF RetiresNow(r, hand.sync)
     THEN /\ retired' = [retired EXCEPT ![r] = made[r]]
          /\ vmm' = "idle"
          /\ UNCHANGED queue
     ELSE /\ queue' = [queue EXCEPT ![r] = Append(@, [sync |-> hand.sync, fence |-> made[r]])]
          /\ vmm' = "kick"
          /\ UNCHANGED retired
  /\ hand' = Nothing
  /\ UNCHANGED <<gpuVars, made, covers, stop, woken, thread, heads, ready>>

\* The wake-up is sent once the lock is let go of.
Kicked == TRUE

Kick ==
  /\ vmm = "kick"
  /\ woken' = Kicked
  /\ vmm' = "idle"
  /\ UNCHANGED <<gpuVars, fenceVars, stop, hand, thread, heads, ready>>

\* Drop: the wake-up is sent under the lock, since the thread that sees the stop
\* closes its end of the socket.
StopWakes == TRUE

Drop ==
  /\ vmm = "idle" /\ LockFree
  /\ stop' = TRUE /\ woken' = StopWakes
  /\ vmm' = "joining"
  /\ UNCHANGED <<gpuVars, fenceVars, hand, thread, heads, ready>>

Join ==
  /\ vmm = "joining" /\ thread = "gone"
  /\ vmm' = "joined"
  /\ UNCHANGED <<gpuVars, fenceVars, stop, woken, hand, thread, heads, ready>>

-----------------------------------------------------------------------------
(* wait: the waiter thread                                                 *)

\* The head of a ring's queue goes, and its fence to the retirement queue.
PopHead(r) ==
  /\ queue' = [queue EXCEPT ![r] = Tail(@)]
  /\ retired' = [retired EXCEPT ![r] = Head(queue[r]).fence]
  /\ UNCHANGED <<made, covers>>

Look ==
  /\ thread = "look"
  /\ thread' = IF stop THEN "gone" ELSE "ready"
  /\ UNCHANGED <<gpuVars, fenceVars, stop, woken, vmm, hand, heads, ready>>

\* A head with no sync: what was ahead of it is gone, so it has nothing left to
\* wait for.
Bare(r) == queue[r] # <<>> /\ Head(queue[r]).sync = 0

\* retire_ready, under the lock.
RetireReady(r) ==
  /\ thread = "ready" /\ Bare(r)
  /\ PopHead(r)
  /\ UNCHANGED <<gpuVars, stop, woken, vmm, hand, thread, heads, ready>>

\* The heads left are those to wait for, and the lock is let go of.
Collect ==
  /\ thread = "ready" /\ \A r \in Rings : ~Bare(r)
  /\ heads' = [r \in Rings |-> IF queue[r] = <<>> THEN 0 ELSE Head(queue[r]).sync]
  /\ thread' = "poll"
  /\ UNCHANGED <<gpuVars, fenceVars, stop, woken, vmm, hand, ready>>

Readable == {r \in Rings : heads[r] \in done[r]}

\* poll returns once a head or the socket is readable; what the socket holds is
\* drained before the lock is asked for.
Poll ==
  /\ thread = "poll"
  /\ Readable # {} \/ woken
  /\ ready' = Readable
  /\ woken' = FALSE
  /\ thread' = "lock"
  /\ UNCHANGED <<gpuVars, fenceVars, stop, vmm, hand, heads>>

Lock ==
  /\ thread = "lock"
  /\ thread' = IF ready = {} THEN "look" ELSE "pop"
  /\ UNCHANGED <<gpuVars, fenceVars, stop, woken, vmm, hand, heads, ready>>

RetireHead(r) ==
  /\ thread = "pop" /\ r \in ready
  /\ PopHead(r)
  /\ ready' = ready \ {r}
  /\ thread' = IF ready = {r} THEN "look" ELSE "pop"
  /\ UNCHANGED <<gpuVars, stop, woken, vmm, hand, heads>>

Waiter ==
  \/ Look \/ Collect \/ Poll \/ Lock
  \/ \E r \in Rings : RetireReady(r) \/ RetireHead(r)

Next ==
  \/ \E r \in Rings : Submit(r) \/ SubmitUnsynced(r) \/ Complete(r) \/ Fence(r) \/ Push(r)
  \/ Kick \/ Drop \/ Join
  \/ Waiter

\* The thread runs, a push or a drop that has begun goes on, and a ring that is
\* not hung finishes its work.
Fairness == /\ WF_vars(Waiter) /\ WF_vars(Kick) /\ WF_vars(Join)
            /\ WF_vars(\E r \in Rings : Push(r))
            /\ \A r \in Rings : WF_vars(Complete(r))

Spec == Init /\ [][Next]_vars /\ Fairness

-----------------------------------------------------------------------------
(* Properties                                                              *)

Entry == [sync : Nat, fence : Nat]

TypeOK ==
  /\ submitted \in [Rings -> Nat]
  /\ done \in [Rings -> SUBSET (Nat \ {0})]
  /\ hung \subseteq Rings
  /\ last \in [Rings -> Nat] /\ newest \in [Rings -> Nat]
  /\ made \in [Rings -> Nat]
  /\ covers \in [Rings -> Seq(Nat)]
  /\ queue \in [Rings -> Seq(Entry)]
  /\ retired \in [Rings -> Nat]
  /\ stop \in BOOLEAN /\ woken \in BOOLEAN
  /\ vmm \in {"idle", "push", "kick", "joining", "joined"}
  /\ vmm = "push" => hand \in [ring : Rings, sync : Nat]
  /\ thread \in {"look", "ready", "poll", "lock", "pop", "gone"}
  /\ heads \in [Rings -> Nat]
  /\ ready \subseteq Rings

\* A fence is retired only when the newest submission before it that the guest
\* was told succeeded is done -- also a fence that had no submission of its own
\* and so carries no sync to wait for (timeline.rs, the module's comment).
RetiredMeansDone ==
  \A r \in Rings : \A n \in 1..retired[r] : covers[r][n] # 0 => covers[r][n] \in done[r]

InHand(r) == vmm = "push" /\ hand.ring = r

\* A fence taken is retired, queued or in hand, in that order.
InOrder ==
  \A r \in Rings :
    /\ made[r] = retired[r] + Len(queue[r]) + IF InHand(r) THEN 1 ELSE 0
    /\ Len(covers[r]) = made[r]
    /\ \A i \in 1..Len(queue[r]) : queue[r][i].fence = retired[r] + i

Before(r, n) == IF n = 0 THEN 0 ELSE covers[r][n]

\* Fence n of a ring covers its sync, or what the fence ahead of it covers.
Waits(r, n, sync) == covers[r][n] = IF sync # 0 THEN sync ELSE Before(r, n - 1)

Covered ==
  \A r \in Rings :
    /\ \A i \in 1..Len(queue[r]) : Waits(r, retired[r] + i, queue[r][i].sync)
    /\ InHand(r) => Waits(r, made[r], hand.sync)
    /\ newest[r] = IF last[r] # 0 THEN last[r] ELSE Before(r, made[r])

\* "The head did not move" between the poll and the pop (wait's assertion).
HeadsStay ==
  /\ thread \in {"poll", "lock", "pop"} =>
       \A r \in Rings : heads[r] # 0 /\ (thread = "pop" => r \in ready) =>
         queue[r] # <<>> /\ Head(queue[r]).sync = heads[r]
  /\ thread = "pop" => ready # {}
  /\ thread \in {"lock", "pop"} => \A r \in ready : heads[r] \in done[r]

IInv == TypeOK /\ InOrder /\ Covered /\ HeadsStay /\ RetiredMeansDone

\* A fence is answered unless its ring hangs or the context goes first: neither
\* another ring's hung work nor a wake-up sent while the thread was elsewhere
\* keeps it waiting.
Answered ==
  \A r \in Rings : (r \notin hung /\ retired[r] < made[r]) ~> (retired[r] = made[r] \/ stop)

\* "Stopping never waits on the GPU": the drop returns whatever hangs.
DropReturns == vmm = "joining" ~> vmm = "joined"

FO == INSTANCE FenceOrder WITH Streams <- Rings, seen <- retired

\* Each ring's fences are answered one at a time, in order, none skipped.
ImplementsFenceOrder == FO!Safety
=============================================================================
