--------------------------- MODULE ClassicWaiter ---------------------------
(***************************************************************************)
(* src/vrend: how a classic (OpenGL) fence comes to mean that the GL work  *)
(* it fences has run.  The VMM's thread, which is the only one with GL     *)
(* contexts of the guest current, takes a sync on each command queue and   *)
(* hands the fence to the waiter's thread (waiter.rs), which waits for     *)
(* them and retires it.  Two things come back from that thread: a place    *)
(* under the bound on a context's fences, which a batch may be waiting for *)
(* (in_flight.rs), and a request for the VMM's thread to read query        *)
(* results that a fence covers before the guest is told of it (Pump).      *)
(*                                                                         *)
(* GL work is counted per command queue; a sync is such a count.  Shaders, *)
(* resources and results are data and are left out.                        *)
(***************************************************************************)
EXTENDS Integers, Sequences, FiniteSets, Functions

CONSTANTS Contexts,    \* the classic contexts
          SubsOf,      \* the command queue of each of a context's sub-contexts
          Ctx0,        \* the renderer's own command queue
          Depth,       \* fence_depth; 0 is no bound
          MaxWork,     \* bound on the pieces of work given to the GPU and the decoders
          MaxFences,   \* bound on the fences created
          MayRefuse,   \* whether the driver may refuse a sync or the wait for one
          None         \* no context

Queues == {Ctx0} \cup UNION {SubsOf[c] : c \in Contexts}

ASSUME ClassicConstants ==
  /\ \A c \in Contexts : SubsOf[c] # {} /\ Ctx0 \notin SubsOf[c]
  /\ \A c, d \in Contexts : c # d => SubsOf[c] \cap SubsOf[d] = {}
  /\ {Depth, MaxWork, MaxFences} \subseteq Nat
  /\ MayRefuse \in BOOLEAN
  /\ None \notin Contexts

VARIABLES
  given, ran,  \* pieces of work each command queue was given, and has run
  decode,      \* each context's hardware decode: none, flying or landed
  contexts,    \* Vrend::contexts
  unanswered,  \* each context's parked queries: the queue and place of their end
  inFlight,    \* each context's Gate
  jobs, stopped,             \* waiter.rs Queue
  asked, served,             \* PumpState
  subscribed, pumpStopped,
  bell,        \* whether the VMM's end of the socket is readable
  thread,      \* where the waiter's thread is
  hand,        \* the job it has
  vmm,         \* where the VMM's thread is
  want,        \* the batch it holds at the bound
  target,      \* serve's target
  made,        \* fences created
  last         \* the one retired last

gpuVars  == <<given, ran, decode>>
pumpVars == <<asked, served, subscribed, pumpStopped, bell>>
guestVars == <<contexts, unanswered>>
queueVars == <<jobs, stopped>>
vmmVars  == <<vmm, want, target>>
vars == <<gpuVars, guestVars, inFlight, queueVars, pumpVars, thread, hand, vmmVars,
          made, last>>

NoJob == [id |-> 0, on |-> None, at |-> [q \in Queues |-> 0], syncs |-> {}, pictures |-> {},
          ticket |-> None, queries |-> FALSE, covers |-> {}, refused |-> {}, let |-> FALSE]

NoBatch == [ctx |-> None, queue |-> Ctx0, does |-> "draw"]

Init ==
  /\ given = [q \in Queues |-> 0] /\ ran = [q \in Queues |-> 0]
  /\ decode = [c \in Contexts |-> "none"]
  /\ contexts = Contexts /\ unanswered = [c \in Contexts |-> {}]
  /\ inFlight = [c \in Contexts |-> 0]
  /\ jobs = <<>> /\ stopped = FALSE
  /\ asked = 0 /\ served = 0 /\ subscribed = FALSE /\ pumpStopped = FALSE /\ bell = FALSE
  /\ thread = "looking" /\ hand = NoJob
  /\ vmm = "idle" /\ want = NoBatch /\ target = 0
  /\ made = 0 /\ last = 0

-----------------------------------------------------------------------------
(* Slips the code could plausibly have, each the mutant of a definition    *)
(* below: ctx0's uploads left without a sync, rings answered that were     *)
(* made after the look, no ring while a poll is under way, a count given   *)
(* back only by a wait that succeeded, the newest fence first, a served    *)
(* ring that wakes nobody, a retired job kept in hand.                     *)

OnlySubs(c) == SubsOf[c]
AskedByNow == asked
RingUnlessServing == bell \/ vmm \notin {"looked", "checked"}
ReturnedIfRan(j) == IF j.refused = {} THEN {j.ticket} ELSE {}
PushFront(j) == <<j>> \o jobs
AskerSleepsOn == thread
HandKept == hand

-----------------------------------------------------------------------------
(* The GPU and the decoders                                                *)

Gpu(q) ==
  /\ ran[q] < given[q]
  /\ ran' = [ran EXCEPT ![q] = @ + 1]
  /\ UNCHANGED <<given, decode, guestVars, inFlight, queueVars, pumpVars, thread, hand,
                 vmmVars, made, last>>

\* Landing::land, on the codec's own thread.
Land(c) ==
  /\ decode[c] = "flying"
  /\ decode' = [decode EXCEPT ![c] = "landed"]
  /\ UNCHANGED <<given, ran, guestVars, inFlight, queueVars, pumpVars, thread, hand,
                 vmmVars, made, last>>

\* glFinish on every queue of qs: what they were given runs before it returns.
Finished(qs) == [q \in Queues |-> IF q \in qs THEN given[q] ELSE ran[q]]

\* The queues a context's work may be on (finish_contexts, decide_fence).
WorkOf(c) == SubsOf[c] \cup {Ctx0}

AllWork == {Ctx0} \cup UNION {SubsOf[c] : c \in contexts}

\* What is left of the parked queries when those whose results are ready, by
\* what has run, are answered.
AnswerParked(done) ==
  [c \in Contexts |-> {p \in unanswered[c] : done[p[1]] < p[2]}]

-----------------------------------------------------------------------------
(* Batches                                                                 *)

Total(f) == FoldFunction(LAMBDA a, b : a + b, 0, f)

MoreWork == Total(given) + Cardinality({c \in Contexts : decode[c] # "none"}) < MaxWork

Batches ==
  {b \in [ctx : contexts, queue : Queues, does : {"draw", "query", "decode"}] :
     b.queue \in SubsOf[b.ctx] /\ (b.does = "decode" => decode[b.ctx] = "none")}

\* A draw, a draw with a query ended and asked for behind it, or a hardware
\* decode begun.  A query whose result is ready at once leaves nothing behind.
RunBatch(b) ==
  LET place == given[b.queue] + 1 IN
  /\ given' = IF b.does = "decode" THEN given ELSE [given EXCEPT ![b.queue] = place]
  /\ unanswered' = IF b.does # "query" THEN unanswered
                   ELSE [unanswered EXCEPT ![b.ctx] = @ \cup {<<b.queue, place>>}]
  /\ decode' = IF b.does # "decode" THEN decode ELSE [decode EXCEPT ![b.ctx] = "flying"]

AtDepth(c) == Depth > 0 /\ inFlight[c] >= Depth

Submit(b) ==
  /\ vmm = "idle"
  /\ MoreWork
  /\ IF AtDepth(b.ctx)
     THEN vmm' = "gate" /\ want' = b /\ UNCHANGED <<given, decode, unanswered>>
     ELSE RunBatch(b) /\ UNCHANGED <<vmm, want>>
  /\ UNCHANGED <<ran, contexts, inFlight, queueVars, pumpVars, thread, hand, target, made,
                 last>>

\* wait_below returns, because the count fell or because patience ran out.
GateOver ==
  /\ vmm = "gate"
  /\ RunBatch(want)
  /\ vmm' = "idle" /\ want' = NoBatch
  /\ UNCHANGED <<ran, contexts, inFlight, queueVars, pumpVars, thread, hand, target, made,
                 last>>

\* An upload with no context named, which runs on ctx0.
Transfer ==
  /\ vmm = "idle"
  /\ MoreWork
  /\ given' = [given EXCEPT ![Ctx0] = @ + 1]
  /\ UNCHANGED <<ran, decode, guestVars, inFlight, queueVars, pumpVars, thread, hand,
                 vmmVars, made, last>>

ContextDestroy(c) ==
  /\ vmm = "idle"
  /\ c \in contexts
  /\ contexts' = contexts \ {c}
  /\ unanswered' = [unanswered EXCEPT ![c] = {}]
  /\ UNCHANGED <<gpuVars, inFlight, queueVars, pumpVars, thread, hand, vmmVars, made, last>>

-----------------------------------------------------------------------------
(* Fences                                                                  *)

\* The parked queries a fence covers: those of its context, or everyone's.
Covers(on) == UNION {unanswered[c] : c \in IF on = None THEN contexts ELSE {on}}

\* decodes_in_flight
Pictures(on) == {c \in contexts : decode[c] = "flying" /\ on \in {c, None}}

\* queries_before_fence: whether the fence waits for a poll.  Otherwise the
\* work is finished, and the queries answered, before the fence is taken.
Held(on) == Covers(on) # {} /\ on # None /\ subscribed

BeforeFence(on) == IF Covers(on) = {} \/ Held(on) THEN {}
                   ELSE IF on = None THEN AllWork ELSE WorkOf(on)

\* decide_fence: the queues to take a sync on, and those to finish instead.
Synced(c) == WorkOf(c)

Syncs(on, refusal) == IF on = None \/ refusal THEN {} ELSE Synced(on)

Drained(on, refusal) == IF on # None /\ refusal THEN WorkOf(on) ELSE {}

\* A fence as it is taken.  The place of the work it is for, and the queries,
\* are what the waiter need not know and the properties do.
NewJob(on, refusal) ==
  [NoJob EXCEPT !.id = made + 1, !.on = on,
                !.at = [q \in Queues |-> IF on # None /\ q \in WorkOf(on) THEN given[q] ELSE 0],
                !.syncs = Syncs(on, refusal), !.pictures = Pictures(on),
                !.ticket = IF Syncs(on, refusal) # {} THEN on ELSE None,
                !.queries = Held(on), !.covers = Covers(on)]

Pushed(j) == Append(jobs, j)

\* Condvar::notify_one, for the only thread that waits for jobs.
Woken == IF thread = "asleep" THEN "looking" ELSE thread

\* fence_context, present_fence and fence_global.
Fence(on, refusal) ==
  /\ vmm = "idle"
  /\ made < MaxFences
  /\ made' = made + 1
  /\ ran' = Finished(BeforeFence(on) \cup Drained(on, refusal))
  /\ unanswered' = IF BeforeFence(on) # {} THEN AnswerParked(Finished(BeforeFence(on)))
                   ELSE unanswered
  /\ jobs' = Pushed(NewJob(on, refusal))
  /\ inFlight' = IF Syncs(on, refusal) # {} THEN [inFlight EXCEPT ![on] = @ + 1] ELSE inFlight
  /\ thread' = Woken
  /\ UNCHANGED <<given, decode, contexts, stopped, pumpVars, hand, vmmVars, last>>

-----------------------------------------------------------------------------
(* run: the waiter's thread                                                *)

Pop ==
  /\ thread = "looking" /\ jobs # <<>>
  /\ hand' = Head(jobs) /\ jobs' = Tail(jobs)
  /\ thread' = "waiting"
  /\ UNCHANGED <<gpuVars, guestVars, inFlight, stopped, pumpVars, vmmVars, made, last>>

SleepOrGo ==
  /\ thread = "looking" /\ jobs = <<>>
  /\ thread' = IF stopped THEN "gone" ELSE "asleep"
  /\ UNCHANGED <<gpuVars, guestVars, inFlight, queueVars, pumpVars, hand, vmmVars, made,
                 last>>

\* Landing::wait for each picture, then wait_out for each sync: signalled, or
\* refused by the driver and passed over.
WaitOut ==
  /\ thread = "waiting"
  /\ \A c \in hand.pictures : decode[c] = "landed"
  /\ \E refused \in IF MayRefuse THEN SUBSET hand.syncs ELSE {{}} :
       /\ \A q \in hand.syncs \ refused : ran[q] >= hand.at[q]
       /\ hand' = [hand EXCEPT !.refused = refused, !.syncs = {}]
  /\ thread' = "passed"
  /\ UNCHANGED <<gpuVars, guestVars, inFlight, queueVars, pumpVars, vmmVars, made, last>>

\* The contexts whose count falls with a job.
Returned(j) == {j.ticket}

\* The ticket dropped, then the pump asked or the fence retired.
GiveBack ==
  /\ thread = "passed"
  /\ inFlight' = [c \in Contexts |-> IF c \in Returned(hand) THEN inFlight[c] - 1 ELSE inFlight[c]]
  /\ hand' = [hand EXCEPT !.ticket = None]
  /\ thread' = IF hand.queries THEN "ask" ELSE "retire"
  /\ UNCHANGED <<gpuVars, guestVars, queueVars, pumpVars, vmmVars, made, last>>

\* Pump::ask: counted, and the byte written, under the pump's lock; then the
\* wait, which gives the lock up.
Ask ==
  /\ thread = "ask"
  /\ asked' = asked + 1
  /\ thread' = "ring"
  /\ UNCHANGED <<gpuVars, guestVars, inFlight, queueVars, served, subscribed, pumpStopped,
                 bell, hand, vmmVars, made, last>>

PumpFree == thread # "ring"

\* A full buffer is a bell that is already ringing.
Rung == TRUE

Ring ==
  /\ thread = "ring"
  /\ bell' = Rung
  /\ thread' = "asking"
  /\ UNCHANGED <<gpuVars, guestVars, inFlight, queueVars, asked, served, subscribed,
                 pumpStopped, hand, vmmVars, made, last>>

Answered == served >= asked

AskLook ==
  /\ thread = "asking"
  /\ thread' = IF Answered \/ pumpStopped THEN "retire" ELSE "held"
  /\ hand' = [hand EXCEPT !.let = ~Answered /\ pumpStopped]
  /\ UNCHANGED <<gpuVars, guestVars, inFlight, queueVars, pumpVars, vmmVars, made, last>>

\* What the thread has in hand once it has called the sink.
HandAfter == NoJob

Retire ==
  /\ thread = "retire"
  /\ last' = hand.id
  /\ hand' = HandAfter
  /\ thread' = "looking"
  /\ UNCHANGED <<gpuVars, guestVars, inFlight, queueVars, pumpVars, vmmVars, made>>

Waiter == Pop \/ SleepOrGo \/ WaitOut \/ GiveBack \/ Ask \/ Ring \/ AskLook
          \/ Retire

-----------------------------------------------------------------------------
(* The pump's other half, on the VMM's thread                              *)

\* descriptor: the VMM promises to poll from here on.
Subscribe ==
  /\ vmm = "idle"
  /\ PumpFree
  /\ subscribed' = TRUE
  /\ UNCHANGED <<gpuVars, guestVars, inFlight, queueVars, asked, served, pumpStopped, bell,
                 thread, hand, vmmVars, made, last>>

\* serve: the bell is silenced without the lock, asked is read with it.
Drain ==
  /\ vmm = "idle"
  /\ bell' = FALSE
  /\ vmm' = "drained"
  /\ UNCHANGED <<gpuVars, guestVars, inFlight, queueVars, asked, served, subscribed,
                 pumpStopped, thread, hand, want, target, made, last>>

Look ==
  /\ vmm = "drained" /\ PumpFree
  /\ target' = asked
  /\ vmm' = "looked"
  /\ UNCHANGED <<gpuVars, guestVars, inFlight, queueVars, pumpVars, thread, hand, want, made,
                 last>>

\* serve's check: Vrend::answer_parked.
Check ==
  /\ vmm = "looked"
  /\ unanswered' = AnswerParked(ran)
  /\ vmm' = "checked"
  /\ UNCHANGED <<gpuVars, contexts, inFlight, queueVars, pumpVars, thread, hand, want,
                 target, made, last>>

\* The rings a serve answers: those made before it looked.
Counted == target

\* Condvar::notify_all, for the only thread that waits to be served.
Roused == IF thread = "held" THEN "asking" ELSE thread

Release ==
  /\ vmm = "checked" /\ PumpFree
  /\ served' = IF Counted > served THEN Counted ELSE served
  /\ thread' = Roused
  /\ vmm' = "idle" /\ target' = 0
  /\ UNCHANGED <<gpuVars, guestVars, inFlight, queueVars, asked, subscribed, pumpStopped,
                 bell, hand, want, made, last>>

Serve == Look \/ Check \/ Release

-----------------------------------------------------------------------------
(* Waiter::drop                                                            *)

StopQueue ==
  /\ vmm = "idle"
  /\ stopped' = TRUE
  /\ thread' = Woken
  /\ vmm' = "stopping"
  /\ UNCHANGED <<gpuVars, guestVars, inFlight, jobs, pumpVars, hand, want, target, made,
                 last>>

StopPump ==
  /\ vmm = "stopping" /\ PumpFree
  /\ pumpStopped' = TRUE
  /\ thread' = Roused
  /\ vmm' = "joining"
  /\ UNCHANGED <<gpuVars, guestVars, inFlight, queueVars, asked, served, subscribed, bell,
                 hand, want, target, made, last>>

Join ==
  /\ vmm = "joining" /\ thread = "gone"
  /\ vmm' = "over"
  /\ UNCHANGED <<gpuVars, guestVars, inFlight, queueVars, pumpVars, thread, hand, want,
                 target, made, last>>

Next ==
  \/ \E q \in Queues : Gpu(q)
  \/ \E c \in Contexts : Land(c) \/ ContextDestroy(c)
  \/ \E b \in Batches : Submit(b)
  \/ GateOver \/ Transfer
  \/ \E on \in contexts \cup {None} :
       \E refusal \in {FALSE, MayRefuse} : Fence(on, refusal)
  \/ Waiter
  \/ Subscribe \/ Drain \/ Serve
  \/ StopQueue \/ StopPump \/ Join

\* The GPU and the decoders finish what they were given, the threads run, the
\* gate's patience is finite, and the VMM polls while the bell is readable, as
\* it promised when it took the descriptor.  It owes nothing else.
Fairness ==
  /\ \A q \in Queues : WF_vars(Gpu(q))
  /\ \A c \in Contexts : WF_vars(Land(c))
  /\ WF_vars(Waiter)
  /\ WF_vars(GateOver \/ Serve \/ StopPump \/ Join)
  /\ WF_vars(subscribed /\ bell /\ Drain)

Spec == Init /\ [][Next]_vars /\ Fairness

-----------------------------------------------------------------------------
(* Properties                                                              *)

Job == [id : 0..MaxFences, on : Contexts \cup {None}, at : [Queues -> Nat],
        syncs : SUBSET Queues, pictures : SUBSET Contexts, ticket : Contexts \cup {None},
        queries : BOOLEAN, covers : SUBSET (Queues \X (Nat \ {0})), refused : SUBSET Queues,
        let : BOOLEAN]

\* The variables have their types, the thread has a job exactly while it works
\* on one, and the VMM's thread a batch while it holds one at the bound.
TypeOK ==
  /\ given \in [Queues -> Nat] /\ \A q \in Queues : ran[q] \in 0..given[q]
  /\ decode \in [Contexts -> {"none", "flying", "landed"}]
  /\ contexts \subseteq Contexts
  /\ \A c \in Contexts : unanswered[c] \subseteq SubsOf[c] \X (Nat \ {0})
  /\ inFlight \in [Contexts -> 0..MaxFences]
  /\ jobs \in Seq(Job) /\ hand \in Job /\ last \in 0..made
  /\ {stopped, subscribed, pumpStopped, bell} \subseteq BOOLEAN
  /\ served <= asked /\ asked <= MaxFences /\ made \in 0..MaxFences
  /\ thread \in {"looking", "asleep", "waiting", "passed", "ask", "ring", "asking",
                 "held", "retire", "gone"}
  /\ (hand = NoJob) <=> thread \in {"looking", "asleep", "gone"}
  /\ vmm \in {"idle", "gate", "drained", "looked", "checked", "stopping", "joining", "over"}
  /\ (want # NoBatch) <=> vmm = "gate"

\* "A classic fence has to mean the GL work it fences has run": when a fence on
\* a context is retired, what any queue of that context or ctx0 had been given
\* when it was taken has run, and its pictures have landed, unless the driver
\* refused the wait for that queue.
MeansRan ==
  thread = "retire" =>
    /\ hand.on # None => \A q \in WorkOf(hand.on) \ hand.refused : ran[q] >= hand.at[q]
    /\ \A c \in hand.pictures : decode[c] = "landed"

\* The guest reads a query's result when the fence behind it retires and never
\* asks again, so by then none of those the fence covers is unanswered
\* (get_query_result), unless the waiter was being dropped or the driver refused
\* the wait.
QueriesAnswered ==
  thread = "retire" =>
    \A p \in hand.covers :
      (\E c \in Contexts : p \in unanswered[c]) => hand.let \/ p[1] \in hand.refused

\* A ring is never lost: while the thread waits for one to be answered the bell
\* is readable, or the serve under way will count it (Pump::serve).
BellKept ==
  thread \in {"asking", "held"} /\ ~Answered /\ ~pumpStopped =>
    bell \/ vmm = "drained" \/ (vmm \in {"looked", "checked"} /\ target >= asked)

\* A batch is held only for a fence that is still to be passed: each context's
\* count is that of the fences the waiter has and has not given back (Ticket).
GateHasReason ==
  /\ TypeOK
  /\ \A c \in Contexts :
       inFlight[c] = Cardinality({i \in 1..Len(jobs) : jobs[i].ticket = c})
                     + (IF hand.ticket = c THEN 1 ELSE 0)

FO == INSTANCE FenceOrder WITH Streams <- {None}, made <- [s \in {None} |-> made],
                               seen <- [s \in {None} |-> last]

\* One queue, first in first out: classic fences of every context and of the
\* global path are answered in the order they were created, all of them.
ImplementsFenceOrder == FO!Spec

\* Dropping the waiter returns, every fence it had being retired first, a fence
\* held for a poll that will not come included.
DropReturns == (vmm = "stopping") ~> (vmm = "over" /\ last = made)

\* The bound stalls the VMM's thread "only for as long as the GPU takes to retire
\* one fence of the runaway context" (in_flight.rs): with the GPU and the
\* decoders idle, the waiter is not itself held for that thread.
OnlyGpuHolds ==
  vmm = "gate" /\ AtDepth(want.ctx) /\ given = ran /\ (\A c \in Contexts : decode[c] # "flying")
    => thread # "held"
=============================================================================
