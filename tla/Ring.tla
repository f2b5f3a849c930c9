-------------------------------- MODULE Ring --------------------------------
(***************************************************************************)
(* One venus command ring: src/venus/ring_thread.rs, the handlers of       *)
(* src/venus/context.rs that reach a ring, the seam that dispatches its    *)
(* batches (vkr.rs RingDispatch) and the VMM's submission loop (ffi.rs     *)
(* submit_all), with the guest driver they rely on as an external actor.   *)
(*                                                                         *)
(* Four actors run at once: the guest, writing commands and looking at the *)
(* IDLE bit; the ring thread; the VMM thread, which runs the context's own *)
(* command stream and tears the ring down; and the present thread, which   *)
(* waits for the ring to read what was written before a present.           *)
(*                                                                         *)
(* Locks are read off the program counters.  The park lock is held from    *)
(* the doorbell check to the sleep and again from the wake to the clearing *)
(* of IDLE; the wait-ring lock is held through a waiter's whole check; the *)
(* context lock is held across a teardown's join.  A batch runs under the  *)
(* context lock and touches no other shared word, so it is one step.       *)
(***************************************************************************)
EXTENDS Integers, Sequences, FiniteSets

CONSTANTS
  MaxWrites,  \* bound on the ring commands written
  MaxVq,      \* bound on the virtqueue seqnos submitted
  Modulus,    \* positions wrap here (2^32 in the code)
  Start,      \* the position a ring is created at
  Buffer,     \* the size of the ring's buffer, in commands
  Settings    \* what the guest and the VMM may do: a choice of the records below

Setting ==
  [cmds     : SUBSET (({"run", "ask", "bad"} \X {0}) \cup ({"vqwait"} \X (1..MaxVq))),
              \* the ring commands the guest may write: <<op, seqno>>
   ops      : SUBSET {"submit", "wait", "destroy", "bad"},
              \* the stream commands it may send
   sends    : Nat,      \* bound on those, doorbells aside
   presents : Nat,      \* bound on the presents
   idle     : Nat,      \* ticks of quiet before the ring parks, and of the guest's window
   lies     : BOOLEAN,  \* whether the guest overruns its buffer and waits past its tail
   teardown : BOOLEAN]  \* whether the VMM may destroy the context

ASSUME RingConstants ==
  /\ MaxWrites \in Nat /\ MaxVq \in Nat
  /\ Buffer \in Nat \ {0}
  /\ Modulus \in Nat /\ 2 * (Buffer + 2) <= Modulus
  /\ Start \in 0..Modulus - 1
  /\ Settings \subseteq Setting

Waiters == {"stream", "present"}

VARIABLES
  \* the guest
  setting,    \* the one of Settings that holds throughout
  written,    \* the commands it has written to the ring
  tail,       \* the tail word
  guest,      \* "ready", or "look" between the tail store and the status load
  window,     \* ticks since it last rang the doorbell
  sent,       \* stream commands sent
  \* the VMM thread and the context
  stream,     \* the context's command stream, not yet run
  vmm,        \* "serve", "stopping", "joining", or "dying" after a refused wait
  slot,       \* the ring's entry: "idle", "running" or "gone"
  fatal,      \* the context's poison
  presents,   \* presents taken
  \* the control words the host writes
  head, idle, fatalBit,
  \* what the ring thread waits on
  started, notified, vq_seqno, blocked_on_vq,
  \* the ring thread
  pc,
  cur,        \* commands read past, counted from Start (the code keeps it mod 2^32)
  pending,    \* commands copied out and not run
  answer,     \* whether the driver wait at the front of pending is answered
  verdict,    \* what the last batch offered came to
  quiet,      \* ticks since the last work
  ran,        \* the positions run, in order (history)
  asked,      \* driver waits run (history)
  \* the ring-seqno waiters
  wpc, want, saw

guestVars  == <<setting, written, tail, guest, window, sent>>
vmmVars    == <<stream, vmm, slot, presents>>
words      == <<head, idle, fatalBit>>
park       == <<started, notified, vq_seqno, blocked_on_vq>>
threadVars == <<pc, cur, pending, answer, verdict, quiet, ran, asked>>
waiterVars == <<wpc, want, saw>>
vars == <<guestVars, vmmVars, fatal, words, park, threadVars, waiterVars>>

NoVerdict == [kind |-> "none", consumed |-> 0, seqno |-> 0]

\* A position of the free-running counters.
Pos(n) == (Start + n) % Modulus

Init ==
  /\ setting \in Settings
  /\ written = <<>> /\ tail = Pos(0) /\ guest = "ready" /\ window = setting.idle /\ sent = 0
  /\ stream = <<>> /\ vmm = "serve" /\ slot = "idle" /\ fatal = FALSE /\ presents = 0
  /\ head = Pos(0) /\ idle = FALSE /\ fatalBit = FALSE
  /\ started = FALSE /\ notified = FALSE /\ vq_seqno = 0 /\ blocked_on_vq = 0
  /\ pc = "unborn" /\ cur = 0 /\ pending = 0 /\ answer = FALSE /\ verdict = NoVerdict
  /\ quiet = 0 /\ ran = <<>> /\ asked = 0
  /\ wpc = [w \in Waiters |-> "off"] /\ want = [w \in Waiters |-> 0]
  /\ saw = [w \in Waiters |-> 0]

-----------------------------------------------------------------------------
(* Slips the code could plausibly have, each the mutant of a definition    *)
(* below: a comparison that does not wrap, a consumed count that is the    *)
(* whole batch or none of it, a park that trusts the tail it last read, a  *)
(* busy dispatch that loses the answer, a check outside the lock, a stop,  *)
(* a doorbell or a submit that does not wake, a stall never noticed, a     *)
(* seqno that accumulates, a suspension that does not announce the head it *)
(* published.                                                              *)

PlainGe(a, b) == a >= b
WholeBatch(stop) == pending
ConsumeNothing(stop) == 0
TailLastRead == Pos(cur)
LoseAnswer == FALSE
NoLock == TRUE
StopQuietly(p) == p
WakesPark(p) == IF p = "asleep" THEN "woken" ELSE p
Summed(k) == vq_seqno + k
NeverStalled == FALSE
NoWake(p) == p
OnlyWhenRan(kind) == kind = "ran"

-----------------------------------------------------------------------------
(* The guest driver (external): it stores the tail and then loads the      *)
(* status, rings only when it reads IDLE, and at most once per idle        *)
(* timeout.                                                                *)

GuestWrite ==
  /\ guest = "ready"
  /\ Len(written) < MaxWrites
  /\ (tail - head) % Modulus < Buffer
  /\ \E c \in setting.cmds : written' = Append(written, c)
  /\ tail' = (tail + 1) % Modulus
  /\ guest' = "look"
  /\ UNCHANGED <<setting, window, sent, vmmVars, fatal, words, park, threadVars, waiterVars>>

GuestLook ==
  /\ guest = "look"
  /\ IF idle /\ window >= setting.idle
     THEN stream' = Append(stream, <<"notify", 0>>) /\ window' = 0
     ELSE UNCHANGED <<stream, window>>
  /\ guest' = "ready"
  /\ UNCHANGED <<setting, written, tail, sent, vmm, slot, presents, fatal, words, park, threadVars,
                 waiterVars>>

\* A wait names a position already written; a lying guest may name a later one.
Targets == {tail} \cup IF setting.lies THEN {(tail + 1) % Modulus} ELSE {}

StreamCommands ==
  [submit  |-> {"submit"} \X (1..MaxVq), wait |-> {"wait"} \X Targets,
   destroy |-> {<<"destroy", 0>>},     bad  |-> {<<"bad", 0>>}]

GuestSend ==
  /\ guest = "ready"
  /\ sent < setting.sends
  /\ \E op \in setting.ops : \E c \in StreamCommands[op] : stream' = Append(stream, c)
  /\ sent' = sent + 1
  /\ UNCHANGED <<setting, written, tail, guest, window, vmm, slot, presents, fatal, words, park,
                 threadVars, waiterVars>>

\* A lying guest moves its tail past what the buffer holds.
GuestOverrun ==
  /\ setting.lies
  /\ guest = "ready"
  /\ Len(written) < MaxWrites /\ (tail - head) % Modulus <= Buffer
  /\ LET extra == Buffer + 1 - ((tail - head) % Modulus)
     IN  written' = written \o [k \in 1..extra |-> <<"run", 0>>]
  /\ tail' = (head + Buffer + 1) % Modulus
  /\ guest' = "look"
  /\ UNCHANGED <<setting, window, sent, vmmVars, fatal, words, park, threadVars, waiterVars>>

\* Time passes; both clocks stop counting once they have reached the timeout.
Tick ==
  /\ quiet < setting.idle \/ window < setting.idle
  /\ quiet'  = IF quiet < setting.idle THEN quiet + 1 ELSE quiet
  /\ window' = IF window < setting.idle THEN window + 1 ELSE window
  /\ UNCHANGED <<setting, written, tail, guest, sent, vmmVars, fatal, words, park, pc, cur, pending,
                 answer, verdict, ran, asked, waiterVars>>

Guest == GuestWrite \/ GuestLook \/ GuestSend \/ GuestOverrun

-----------------------------------------------------------------------------
(* Locks and wakes                                                         *)

ParkFree == pc \notin {"parkTail", "unpark"}

InCheck(w) == wpc[w] \in {"head", "stall", "drainHead", "drainTail"}
WaitFree   == \A w \in Waiters : ~InCheck(w)

ContextFree == vmm \notin {"stopping", "joining"}

\* Condvar::notify_one on the park, which only the ring thread waits on.
Woken(p) == CASE p = "asleep"   -> "woken"
              [] p = "vqAsleep" -> "vqWait"
              [] OTHER -> p

\* What a stop does to a ring thread that sleeps.
StopWakes(p) == Woken(p)

\* WaitRing::changed: the lock, then every waiter that sleeps.
changed == wpc' = [w \in Waiters |-> IF wpc[w] = "asleep" THEN "lock" ELSE wpc[w]]

seqno_ge(a, b) == (a - b) % Modulus < Modulus \div 2

-----------------------------------------------------------------------------
(* The context's stream, on the VMM thread                                 *)

NextOp == stream # <<>> /\ vmm = "serve" /\ wpc["stream"] = "off"
Done   == stream' = Tail(stream)

\* A handler's reject: the context is poisoned.
reject == fatal' = TRUE

\* Every submission to a poisoned context is refused whole.
StreamPoisoned ==
  /\ NextOp /\ fatal
  /\ Done
  /\ UNCHANGED <<guestVars, vmm, slot, presents, fatal, words, park, threadVars, waiterVars>>

StreamBad ==
  /\ NextOp /\ ~fatal /\ stream[1][1] = "bad"
  /\ Done
  /\ reject
  /\ UNCHANGED <<guestVars, vmm, slot, presents, words, park, threadVars, waiterVars>>

\* vkNotifyRingMESA
StreamNotify ==
  /\ NextOp /\ ~fatal /\ stream[1][1] = "notify"
  /\ Done
  /\ CASE slot = "gone"    -> reject /\ UNCHANGED <<notified, pc>>
       [] slot = "idle"    -> UNCHANGED <<fatal, notified, pc>>
       [] slot = "running" -> /\ ParkFree
                              /\ notified' = TRUE /\ pc' = Woken(pc)
                              /\ UNCHANGED fatal
  /\ UNCHANGED <<guestVars, vmm, slot, presents, words, started, vq_seqno, blocked_on_vq, cur,
                 pending, answer, verdict, quiet, ran, asked, waiterVars>>

\* What Park::submit leaves published.
Raised(k) == IF k > vq_seqno THEN k ELSE vq_seqno

\* vkSubmitVirtqueueSeqnoMESA: into the idle ring's body, or the thread's park.
StreamSubmit ==
  /\ NextOp /\ ~fatal /\ stream[1][1] = "submit"
  /\ Done
  /\ CASE slot = "gone"    -> reject /\ UNCHANGED <<vq_seqno, pc>>
       [] slot = "idle"    -> vq_seqno' = Raised(stream[1][2]) /\ UNCHANGED <<fatal, pc>>
       [] slot = "running" -> /\ ParkFree
                              /\ vq_seqno' = Raised(stream[1][2]) /\ pc' = Woken(pc)
                              /\ UNCHANGED fatal
  /\ UNCHANGED <<guestVars, vmm, slot, presents, words, started, notified, blocked_on_vq, cur,
                 pending, answer, verdict, quiet, ran, asked, waiterVars>>

\* vkWaitRingSeqnoMESA: refused on a ring that is not reading; otherwise the
\* ring is woken and the command ends if the head is there, or suspends: it
\* stays at the front, to be decoded again after the wait.
StreamWait ==
  /\ NextOp /\ ~fatal /\ stream[1][1] = "wait"
  /\ IF slot # "running"
     THEN Done /\ reject /\ UNCHANGED <<notified, pc, wpc, want>>
     ELSE /\ ParkFree
          /\ notified' = TRUE /\ pc' = Woken(pc)
          /\ IF seqno_ge(head, stream[1][2])
             THEN Done /\ UNCHANGED <<wpc, want>>
             ELSE /\ wpc' = [wpc EXCEPT !["stream"] = "lock"]
                  /\ want' = [want EXCEPT !["stream"] = stream[1][2]]
                  /\ UNCHANGED stream
          /\ UNCHANGED fatal
  /\ UNCHANGED <<guestVars, vmm, slot, presents, words, started, vq_seqno, blocked_on_vq, cur,
                 pending, answer, verdict, quiet, ran, asked, saw>>

\* vkDestroyRingMESA: the entry goes; a running ring's thread is stopped and
\* joined with the context locked.
StreamDestroy ==
  /\ NextOp /\ ~fatal /\ stream[1][1] = "destroy"
  /\ Done
  /\ CASE slot = "gone"    -> reject /\ UNCHANGED <<vmm, slot>>
       [] slot = "idle"    -> slot' = "gone" /\ UNCHANGED <<vmm, fatal>>
       [] slot = "running" -> vmm' = "stopping" /\ UNCHANGED <<slot, fatal>>
  /\ UNCHANGED <<guestVars, presents, words, park, threadVars, waiterVars>>

\* Vkr::context_destroy, as far as this ring goes: stop_rings.
DestroyContext ==
  /\ setting.teardown
  /\ vmm = "serve" /\ wpc["stream"] = "off" /\ slot # "gone"
  /\ IF slot = "idle" THEN slot' = "gone" /\ UNCHANGED vmm
                      ELSE vmm' = "stopping" /\ UNCHANGED slot
  /\ UNCHANGED <<guestVars, stream, presents, fatal, words, park, threadVars, waiterVars>>

\* Park::stop, under the park lock.
StopRing ==
  /\ vmm = "stopping" /\ ParkFree
  /\ started' = FALSE /\ pc' = StopWakes(pc)
  /\ vmm' = "joining"
  /\ UNCHANGED <<guestVars, stream, slot, presents, fatal, words, notified, vq_seqno,
                 blocked_on_vq, cur, pending, answer, verdict, quiet, ran, asked, waiterVars>>

JoinRing ==
  /\ vmm = "joining" /\ pc = "gone"
  /\ vmm' = "serve" /\ slot' = "gone"
  /\ UNCHANGED <<guestVars, stream, presents, fatal, words, park, threadVars, waiterVars>>

\* Vkr::promote, at the end of the batch that created the ring: the seqno the
\* idle body carries goes into the thread's park state.
CarriedSeqno == vq_seqno

Promote ==
  /\ vmm = "serve" /\ wpc["stream"] = "off" /\ slot = "idle"
  /\ slot' = "running"
  /\ started' = TRUE /\ vq_seqno' = CarriedSeqno
  /\ pc' = "top" /\ quiet' = 0
  /\ UNCHANGED <<guestVars, stream, vmm, presents, fatal, words, notified, blocked_on_vq, cur,
                 pending, answer, verdict, ran, asked, waiterVars>>

\* Vkr::present_fence: the barrier is taken against a running ring's tail.
TakeBarrier ==
  /\ vmm = "serve" /\ wpc["stream"] = "off"
  /\ slot = "running"
  /\ presents < setting.presents /\ wpc["present"] = "off"
  /\ presents' = presents + 1
  /\ wpc' = [wpc EXCEPT !["present"] = "lock"]
  /\ want' = [want EXCEPT !["present"] = tail]
  /\ UNCHANGED <<guestVars, stream, vmm, slot, fatal, words, park, threadVars, saw>>

-----------------------------------------------------------------------------
(* The waiters: RingWaiter::run, one check under the wait-ring lock        *)

\* The lock, and the first thing read under it.
CheckFatal(w) ==
  /\ wpc[w] = "lock" /\ WaitFree
  /\ wpc' = [wpc EXCEPT ![w] = IF fatal THEN "fatal" ELSE "head"]
  /\ UNCHANGED <<guestVars, vmmVars, fatal, words, park, threadVars, want, saw>>

CheckHead(w) ==
  /\ wpc[w] = "head"
  /\ wpc' = [wpc EXCEPT ![w] = IF seqno_ge(head, want[w]) THEN "reached" ELSE "stall"]
  /\ UNCHANGED <<guestVars, vmmVars, fatal, words, park, threadVars, want, saw>>

\* Park::stalled_on
stalled_on == blocked_on_vq # 0 /\ vq_seqno < blocked_on_vq

CheckStall(w) ==
  /\ wpc[w] = "stall" /\ ParkFree
  /\ wpc' = [wpc EXCEPT ![w] = IF stalled_on THEN "stalled" ELSE "drainHead"]
  /\ UNCHANGED <<guestVars, vmmVars, fatal, words, park, threadVars, want, saw>>

DrainHead(w) ==
  /\ wpc[w] = "drainHead"
  /\ saw' = [saw EXCEPT ![w] = head]
  /\ wpc' = [wpc EXCEPT ![w] = "drainTail"]
  /\ UNCHANGED <<guestVars, vmmVars, fatal, words, park, threadVars, want>>

DrainTail(w) ==
  /\ wpc[w] = "drainTail"
  /\ wpc' = [wpc EXCEPT ![w] = IF saw[w] = tail /\ ~seqno_ge(tail, want[w])
                               THEN "drained" ELSE "asleep"]
  /\ saw' = [saw EXCEPT ![w] = 0]
  /\ UNCHANGED <<guestVars, vmmVars, fatal, words, park, threadVars, want>>

Check(w) == CheckFatal(w) \/ CheckHead(w) \/ CheckStall(w) \/ DrainHead(w) \/ DrainTail(w)

\* The half-second diagnostic timeout: it looks again.
WaitTimeout(w) ==
  /\ wpc[w] = "asleep"
  /\ wpc' = [wpc EXCEPT ![w] = "lock"]
  /\ UNCHANGED <<guestVars, vmmVars, fatal, words, park, threadVars, want, saw>>

Off(w) == wpc' = [wpc EXCEPT ![w] = "off"] /\ want' = [want EXCEPT ![w] = 0]

\* RingWaiter::wait on the stream: the command is decoded again once reached.
StreamReached ==
  /\ wpc["stream"] = "reached"
  /\ Off("stream")
  /\ UNCHANGED <<guestVars, vmmVars, fatal, words, park, threadVars, saw>>

StreamFatal ==
  /\ wpc["stream"] = "fatal"
  /\ Off("stream")
  /\ Done
  /\ UNCHANGED <<guestVars, vmm, slot, presents, fatal, words, park, threadVars, saw>>

\* Either stall is a refusal: RingWaiter::die, then the submission fails.
StreamDies ==
  /\ wpc["stream"] \in {"stalled", "drained"} /\ vmm = "serve"
  /\ fatalBit' = TRUE /\ fatal' = TRUE /\ vmm' = "dying"
  /\ UNCHANGED <<guestVars, stream, slot, presents, head, idle, park, threadVars, waiterVars>>

StreamDied ==
  /\ vmm = "dying" /\ WaitFree
  /\ wpc' = [w \in Waiters |-> IF w = "stream" THEN "off"
                               ELSE IF wpc[w] = "asleep" THEN "lock" ELSE wpc[w]]
  /\ want' = [want EXCEPT !["stream"] = 0]
  /\ vmm' = "serve"
  /\ Done
  /\ UNCHANGED <<guestVars, slot, presents, fatal, words, park, threadVars, saw>>

\* BarrierWaiter::wait: reached or not, the present goes on.
BarrierOver ==
  /\ wpc["present"] \in {"reached", "fatal", "stalled", "drained"}
  /\ Off("present")
  /\ UNCHANGED <<guestVars, vmmVars, fatal, words, park, threadVars, saw>>

Stream == StreamPoisoned \/ StreamBad \/ StreamNotify \/ StreamSubmit \/ StreamWait
          \/ StreamDestroy \/ StopRing \/ JoinRing \/ Promote
          \/ StreamReached \/ StreamFatal \/ StreamDies \/ StreamDied

-----------------------------------------------------------------------------
(* The ring thread: run                                                    *)

Goto(from, to) == pc = from /\ pc' = to

\* The top of the loop: stopped, due to park, or reading.
Top ==
  /\ pc = "top"
  /\ pc' = IF ~started THEN "exit"
           ELSE IF pending = 0 /\ quiet >= setting.idle THEN "park" ELSE "read"
  /\ UNCHANGED <<guestVars, vmmVars, fatal, words, park, cur, pending, answer, verdict, quiet,
                 ran, asked, waiterVars>>

\* park_if_quiet finds a doorbell already rung and stays up for it.
TakeDoorbell ==
  /\ pc = "park" /\ notified
  /\ notified' = FALSE
  /\ pc' = IF started THEN "read" ELSE "exit"
  /\ quiet' = 0
  /\ UNCHANGED <<guestVars, vmmVars, fatal, words, started, vq_seqno, blocked_on_vq,
                 cur, pending, answer, verdict, ran, asked, waiterVars>>

\* IDLE is set, and only then is the tail loaded; the park lock is held on.
SetIdle ==
  /\ pc = "park" /\ ~notified
  /\ idle' = TRUE /\ pc' = "parkTail"
  /\ UNCHANGED <<guestVars, vmmVars, fatal, head, fatalBit, park, cur, pending, answer, verdict,
                 quiet, ran, asked, waiterVars>>

\* What the park compares with what it has read: the tail as it is now.
TailNow == tail

ParkTail ==
  /\ pc = "parkTail"
  /\ pc' = IF Pos(cur) = TailNow /\ started /\ ~notified THEN "asleep" ELSE "unpark"
  /\ UNCHANGED <<guestVars, vmmVars, fatal, words, park, cur, pending, answer, verdict, quiet,
                 ran, asked, waiterVars>>

\* Awake with the park lock again; spurious wakes included.
Rewake ==
  /\ pc \in {"asleep", "woken"}
  /\ pc' = IF started /\ ~notified THEN "asleep" ELSE "unpark"
  /\ UNCHANGED <<guestVars, vmmVars, fatal, words, park, cur, pending, answer, verdict, quiet,
                 ran, asked, waiterVars>>

Unpark ==
  /\ pc = "unpark"
  /\ idle' = FALSE
  /\ pc' = IF started THEN "read" ELSE "exit"
  /\ quiet' = 0
  /\ UNCHANGED <<guestVars, vmmVars, fatal, head, fatalBit, park, cur, pending, answer, verdict,
                 ran, asked, waiterVars>>

\* read_batch, or the batch kept from a busy or a suspended offer.
Read ==
  /\ pc = "read"
  /\ LET available == (tail - Pos(cur)) % Modulus
     IN  IF pending > 0 \/ available = 0 \/ available > Buffer
         THEN UNCHANGED pending ELSE pending' = available
  /\ pc' = IF pending > 0 THEN "offer"
           ELSE IF tail = Pos(cur) THEN "top"
           ELSE IF (tail - Pos(cur)) % Modulus > Buffer THEN "die" ELSE "offer"
  /\ UNCHANGED <<guestVars, vmmVars, fatal, words, park, cur, answer, verdict, quiet, ran, asked,
                 waiterVars>>

AnswerAfterBusy == answer

\* A lock was taken elsewhere: by another ring's batch, by another context's
\* work on the resources, or by this ring's own teardown.
Busy ==
  /\ Goto("offer", "top")
  /\ answer' = AnswerAfterBusy
  /\ UNCHANGED <<guestVars, vmmVars, fatal, words, park, cur, pending, verdict, quiet, ran, asked,
                 waiterVars>>

Batch == cur + 1 .. cur + pending

\* The commands at which a batch stops short: vkWaitVirtqueueSeqnoMESA on a
\* seqno not published, a driver wait other than the answered one at the front,
\* a command that does not decode.
StopsAt(i) ==
  \/ written[i][1] = "vqwait" /\ vq_seqno < written[i][2]
  \/ written[i][1] = "ask" /\ ~(answer /\ i = cur + 1)
  \/ written[i][1] = "bad"

\* The first such command, or the end of the batch.
StopOf == LET stops == {i \in Batch : StopsAt(i)}
          IN  IF stops = {} THEN cur + pending + 1
              ELSE CHOOSE i \in stops : \A j \in stops : i <= j

Consumed(stop) == stop - cur - 1

\* submit_on under the context lock: nothing runs in a poisoned context; a bad
\* command poisons it; a wait suspends the batch with its prefix run.
Dispatch ==
  /\ pc = "offer" /\ ContextFree
  /\ answer' = FALSE
  /\ IF fatal
     THEN pc' = "poisoned" /\ UNCHANGED <<verdict, ran, fatal>>
     ELSE LET stop == StopOf
              over == stop = cur + pending + 1
              op   == IF over THEN "ran" ELSE written[stop][1]
          IN  /\ ran' = ran \o [k \in 1..stop - cur - 1 |-> cur + k]
              /\ IF op = "bad"
                 THEN pc' = "poisoned" /\ reject /\ UNCHANGED verdict
                 ELSE /\ pc' = "publish"
                      /\ verdict' = [kind |-> op, consumed |-> Consumed(stop),
                                     seqno |-> IF op = "vqwait" THEN written[stop][2] ELSE 0]
                      /\ UNCHANGED fatal
  /\ UNCHANGED <<guestVars, vmmVars, words, park, cur, pending, quiet, asked, waiterVars>>

\* The position moves only over what ran, and is published before any sleep.
Publish ==
  /\ Goto("publish", "changed")
  /\ cur' = cur + verdict.consumed
  /\ head' = Pos(cur')
  /\ pending' = pending - verdict.consumed
  /\ UNCHANGED <<guestVars, vmmVars, fatal, idle, fatalBit, park, answer, verdict, quiet, ran,
                 asked, waiterVars>>

\* Which publishes are followed by WaitRing::changed: all of them.
Announced(kind) == TRUE

After(kind) == CASE kind = "vqwait" -> "block"
                 [] kind = "ask"    -> "driver"
                 [] OTHER           -> "top"

PublishChanged ==
  /\ pc = "changed"
  /\ IF Announced(verdict.kind) THEN WaitFree /\ changed ELSE UNCHANGED wpc
  /\ pc' = After(verdict.kind)
  /\ quiet' = IF verdict.kind = "ran" THEN 0 ELSE quiet
  /\ verdict' = IF verdict.kind = "vqwait" THEN verdict ELSE NoVerdict
  /\ UNCHANGED <<guestVars, vmmVars, fatal, words, park, cur, pending, answer, ran, asked, want,
                 saw>>

\* wait_virtqueue_seqno: say what is waited for, announce it, then sleep.
Block ==
  /\ Goto("block", "announce")
  /\ blocked_on_vq' = verdict.seqno
  /\ UNCHANGED <<guestVars, vmmVars, fatal, words, started, notified, vq_seqno, cur, pending,
                 answer, verdict, quiet, ran, asked, waiterVars>>

Announce ==
  /\ Goto("announce", "vqWait")
  /\ WaitFree /\ changed
  /\ UNCHANGED <<guestVars, vmmVars, fatal, words, park, cur, pending, answer, verdict, quiet,
                 ran, asked, want, saw>>

VqSleep ==
  /\ pc = "vqWait" /\ started /\ vq_seqno < verdict.seqno
  /\ pc' = "vqAsleep"
  /\ UNCHANGED <<guestVars, vmmVars, fatal, words, park, cur, pending, answer, verdict, quiet,
                 ran, asked, waiterVars>>

VqOver ==
  /\ pc = "vqWait" /\ ~(started /\ vq_seqno < verdict.seqno)
  /\ pc' = "unblocked"
  /\ blocked_on_vq' = 0
  /\ UNCHANGED <<guestVars, vmmVars, fatal, words, started, notified, vq_seqno, cur, pending,
                 answer, verdict, quiet, ran, asked, waiterVars>>

Unblocked ==
  /\ pc = "unblocked"
  /\ WaitFree /\ changed
  /\ pc' = IF started THEN "top" ELSE "exit"
  /\ verdict' = NoVerdict /\ quiet' = 0
  /\ UNCHANGED <<guestVars, vmmVars, fatal, words, park, cur, pending, answer, ran, asked, want,
                 saw>>

\* DriverWait::run, with nothing held: it answers, or sees that it was stopped.
Driver ==
  /\ pc = "driver"
  /\ \/ /\ answer' = TRUE /\ asked' = asked + 1
        /\ pc' = "top" /\ quiet' = 0
     \/ /\ ~started /\ pc' = "exit"
        /\ UNCHANGED <<answer, asked, quiet>>
  /\ UNCHANGED <<guestVars, vmmVars, fatal, words, park, cur, pending, verdict, ran, waiterVars>>

\* die: an overrun buffer.
Die ==
  /\ Goto("die", "dieChanged")
  /\ fatalBit' = TRUE /\ fatal' = TRUE
  /\ UNCHANGED <<guestVars, vmmVars, head, idle, park, cur, pending, answer, verdict, quiet, ran,
                 asked, waiterVars>>

DieChanged ==
  /\ Goto("dieChanged", "exit")
  /\ WaitFree /\ changed
  /\ UNCHANGED <<guestVars, vmmVars, fatal, words, park, cur, pending, answer, verdict, quiet,
                 ran, asked, want, saw>>

Poisoned ==
  /\ Goto("poisoned", "exit")
  /\ fatalBit' = TRUE
  /\ UNCHANGED <<guestVars, vmmVars, fatal, head, idle, park, cur, pending, answer, verdict,
                 quiet, ran, asked, waiterVars>>

\* Out of the loop: no longer blocked on anything, and everyone is told.
Exit ==
  /\ Goto("exit", "exitChanged")
  /\ blocked_on_vq' = 0
  /\ UNCHANGED <<guestVars, vmmVars, fatal, words, started, notified, vq_seqno, cur, pending,
                 answer, verdict, quiet, ran, asked, waiterVars>>

ExitChanged ==
  /\ Goto("exitChanged", "gone")
  /\ WaitFree /\ changed
  /\ UNCHANGED <<guestVars, vmmVars, fatal, words, park, cur, pending, answer, verdict, quiet,
                 ran, asked, want, saw>>

Awake == \/ Top \/ TakeDoorbell \/ SetIdle \/ ParkTail \/ Unpark \/ Read
         \/ (pc = "woken" /\ Rewake)
         \/ Publish \/ PublishChanged \/ Block \/ Announce \/ VqSleep \/ VqOver \/ Unblocked
         \/ Driver \/ Die \/ DieChanged \/ Poisoned \/ Exit \/ ExitChanged

SpuriousWake == \/ pc = "asleep" /\ Rewake
                \/ /\ Goto("vqAsleep", "vqWait")
                   /\ UNCHANGED <<guestVars, vmmVars, fatal, words, park, cur, pending, answer,
                                  verdict, quiet, ran, asked, waiterVars>>

Next == \/ Guest \/ Tick
        \/ Stream \/ DestroyContext \/ TakeBarrier
        \/ Awake \/ SpuriousWake \/ Busy \/ Dispatch
        \/ \E w \in Waiters : Check(w) \/ WaitTimeout(w)
        \/ BarrierOver

\* The threads run and time passes.  Strong fairness where a step needs a lock
\* somebody else keeps taking and releasing: a mutex is granted in the end (its
\* other users sleep in between), and a dispatch that keeps finding the context
\* free now and then gets it.  Nothing makes the guest write or send, nor the
\* VMM tear down; a guest that has stored its tail goes on to load the status.
Fairness == /\ SF_vars(Awake \/ Busy \/ Dispatch) /\ SF_vars(Dispatch)
            /\ SF_vars(Stream) /\ WF_vars(Tick)
            /\ WF_vars(GuestLook) /\ WF_vars(BarrierOver)
            /\ \A w \in Waiters : SF_vars(Check(w)) /\ WF_vars(WaitTimeout(w))

Spec == Init /\ [][Next]_vars /\ Fairness
-----------------------------------------------------------------------------
(* Properties                                                              *)

\* The variables have their types; the thread's counts agree with the batch.
TypeOK ==
  /\ setting \in Settings
  /\ written \in Seq({"run", "ask", "bad", "vqwait"} \X Nat) /\ tail = Pos(Len(written))
  /\ guest \in {"ready", "look"} /\ window \in 0..setting.idle /\ sent \in 0..setting.sends
  /\ stream \in Seq({"notify", "submit", "wait", "destroy", "bad"} \X Nat)
  /\ vmm \in {"serve", "stopping", "joining", "dying"} /\ slot \in {"idle", "running", "gone"}
  /\ {fatal, idle, fatalBit, started, notified, answer} \subseteq BOOLEAN
  /\ presents \in 0..setting.presents /\ {vq_seqno, blocked_on_vq} \subseteq 0..MaxVq
  /\ head = Pos(cur) /\ cur + pending \in 0..Len(written) /\ quiet \in 0..setting.idle
  /\ pc = "unborn" <=> slot = "idle" \/ (slot = "gone" /\ cur = 0 /\ pc = "unborn")
  /\ \A w \in Waiters : want[w] \in 0..Modulus - 1 /\ saw[w] \in 0..Modulus - 1

Doorbells == {i \in 1..Len(stream) : stream[i][1] = "notify"}

\* A ring asleep on work the guest has finished announcing has been, or is
\* about to be, woken: the IDLE/tail handshake and the window a doorbell opens
\* leave no write unseen (park_if_quiet).
NoLostDoorbell ==
  pc = "asleep" /\ tail # Pos(cur) /\ guest = "ready" => notified \/ Doorbells # {} \/ fatal

Over == fatal \/ slot = "gone" \/ pc = "gone"

\* Work that waits for no unpublished virtqueue seqno is all run, unless the ring or
\* its context ends: a seqno is state and not an edge, so one that came before the
\* ring slept on it counts (wait_virtqueue_seqno).
Published == \A i \in DOMAIN written : written[i][1] = "vqwait" => written[i][2] <= vq_seqno
WorkRuns == Len(ran) < Len(written) /\ Published ~> (Len(ran) = Len(written) \/ ~Published \/ Over)

\* Waits for the ring end: the stream's reached or refused, and a present's barrier
\* too, as long as nobody stops the ring (RingWaiter::run).
Waited   == \E w \in Waiters : wpc[w] # "off"
WaitsEnd == Waited ~> (~Waited \/ vmm \in {"stopping", "joining"} \/ slot = "gone")

\* A teardown's join returns wherever the ring was: asleep, waiting, in a
\* driver call, or retrying a dispatch the teardown itself keeps busy.
StopJoins == vmm \in {"stopping", "joining"} ~> slot = "gone"

\* The stream's refusal is sound: when it finds a stall the ring really sleeps
\* on an unpublished seqno short of the position, so neither could move. The
\* head and the stall are two reads (RingWaiter::check).
RefusalSound ==
  /\ TypeOK
  /\ wpc["stream"] = "stalled" => stalled_on /\ ~seqno_ge(head, want["stream"])

\* A guest that waits only for what it wrote is never told the ring drained
\* short of it, on either side of the counters' wrap.
HonestNeverDrained == setting.lies \/ \A w \in Waiters : wpc[w] # "drained"

\* No waiter sleeps through its answer: while it sleeps with the head there, or
\* with the ring stalled, the thread that changed it has yet to announce it.
NoSleepThrough ==
  \A w \in Waiters :
    wpc[w] = "asleep" /\ (seqno_ge(head, want[w]) \/ stalled_on) => pc \in {"changed", "announce"}

\* The head never passes work that has not run (Publish after Wait and Busy).
HeadHonest == cur <= Len(ran)

\* Each driver wait is asked once, and its answer is offered with the batch
\* that begins with it: both assertions of the code, across Busy retries.
AskedOnce ==
  /\ asked <= Cardinality({i \in (1..Len(ran) + 1) \cap DOMAIN written : written[i][1] = "ask"})
  /\ answer => pending > 0 /\ written[cur + 1][1] = "ask"

\* "It gives up, and the present retires unfenced": a barrier always ends.
BarrierEnds == wpc["present"] # "off" ~> wpc["present"] = "off"

CS == INSTANCE CommandStream

\* The ring is a command stream: whatever the batches, retries, suspensions and
\* stops, commands run in order, once each.
ImplementsCommandStream == CS!Spec
=============================================================================
