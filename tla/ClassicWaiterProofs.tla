------------------------ MODULE ClassicWaiterProofs ------------------------
(***************************************************************************)
(* Theorems about the classic fences, for any contexts and sub-contexts,   *)
(* any bound and any driver: a retired fence means its work has run, the   *)
(* queries it covers are answered by then, a ring is never lost, the bound *)
(* counts exactly the fences still to be passed, and fences are retired in *)
(* the order they were created.                                            *)
(*                                                                         *)
(* None of the first four is inductive alone.  What carries them is Inv:   *)
(* Flow and WantKept, what the GPU, the guest's contexts and the batch     *)
(* held at the bound can be; Types; Order, the one place of each fence     *)
(* between the last retired and the last made; Counts and GivenBack, whose *)
(* the tickets are; Sound, what a fence still owes at each place of the    *)
(* waiter's loop; and Pump, what a serve that counts a ring has done for   *)
(* the fence that rang.                                                    *)
(***************************************************************************)
EXTENDS ClassicWaiter, FiniteSetTheorems, TLAPS

-----------------------------------------------------------------------------
(* The inductive invariant                                                 *)

\* The waiter has a fence in hand, which counts as one not yet retired.
InHand == thread \notin {"looking", "asleep", "gone"}
Ahead  == IF InHand THEN 1 ELSE 0

\* Nothing runs that was not given, and a parked query ends at a place given to a queue of
\* its own context (park_query).
Flow ==
  /\ given \in [Queues -> Nat] /\ ran \in [Queues -> Nat]
  /\ \A q \in Queues : ran[q] <= given[q]
  /\ decode \in [Contexts -> {"none", "flying", "landed"}]
  /\ contexts \in SUBSET Contexts
  /\ unanswered \in [Contexts -> SUBSET (Queues \X (Nat \ {0}))]
  /\ \A c \in Contexts : \A p \in unanswered[c] : p[1] \in SubsOf[c] /\ p[2] <= given[p[1]]

\* A batch is held at the bound as it was submitted: the decode it begins is still to begin.
WantKept ==
  /\ (want # NoBatch) <=> vmm = "gate"
  /\ vmm = "gate" => /\ want.ctx \in Contexts /\ want.queue \in SubsOf[want.ctx]
                     /\ want.does \in {"draw", "query", "decode"}
                     /\ want.does = "decode" => decode[want.ctx] = "none"

\* The types of the rest.
Types ==
  /\ inFlight \in [Contexts -> Nat]
  /\ jobs \in Seq(Job) /\ hand \in Job
  /\ stopped \in BOOLEAN /\ subscribed \in BOOLEAN /\ pumpStopped \in BOOLEAN /\ bell \in BOOLEAN
  /\ asked \in Nat /\ served \in Nat /\ target \in Nat
  /\ made \in 0..MaxFences /\ last \in Nat
  /\ thread \in {"looking", "asleep", "waiting", "passed", "ask", "ring", "asking",
                 "held", "retire", "gone"}
  /\ vmm \in {"idle", "gate", "drained", "looked", "checked", "stopping", "joining", "over"}

\* Fences stand in the order they were made: the last retired, the one in hand, the queue.
Order ==
  /\ made = last + Ahead + Len(jobs)
  /\ InHand => hand.id = last + 1
  /\ ~InHand => hand = NoJob
  /\ \A i \in 1..Len(jobs) : jobs[i].id = last + Ahead + i

\* Each context's count is that of the tickets not given back (Ticket, Gate).
Counts ==
  \A c \in Contexts :
    inFlight[c] = Cardinality({i \in 1..Len(jobs) : jobs[i].ticket = c})
                  + (IF hand.ticket = c THEN 1 ELSE 0)

\* Past its waits, a fence has no ticket.
GivenBack == thread \in {"ask", "ring", "asking", "held", "retire"} => hand.ticket = None

\* The queries a fence covers that are still to be answered.
Standing(j) == {p \in j.covers : \E c \in Contexts : p \in unanswered[c]}

\* What a fence carries from the moment it is taken: its queries lie at or before its syncs,
\* on the queues of its context; unless it waits for a poll they are answered already; and
\* its pictures were begun (queries_before_fence, decide_fence).
Taken(j) ==
  /\ \A p \in j.covers : p[2] <= given[p[1]]
  /\ j.on = None => j.queries = FALSE
  /\ j.on # None => \A p \in j.covers : p[1] \in WorkOf(j.on) /\ p[2] <= j.at[p[1]]
  /\ j.queries = FALSE => Standing(j) = {}
  /\ \A c \in j.pictures : decode[c] # "none"

\* A fence not yet waited for has a sync for whatever of its work has not run.
Waits(j) == j.on # None => \A q \in WorkOf(j.on) : q \in j.syncs \/ ran[q] >= j.at[q]

\* Once waited for, its work has run but for what the driver refused, and its pictures landed.
Passed(j) ==
  /\ j.on # None => \A q \in WorkOf(j.on) \ j.refused : ran[q] >= j.at[q]
  /\ \A c \in j.pictures : decode[c] = "landed"

\* A poll has answered what it could: what still stands is behind a refused sync.
Answering(j) == \A p \in Standing(j) : p[1] \in j.refused

\* Each fence, at its place, is as those say.
Sound ==
  /\ \A i \in 1..Len(jobs) : Taken(jobs[i]) /\ Waits(jobs[i])
  /\ InHand => Taken(hand)
  /\ thread = "waiting" => Waits(hand)
  /\ InHand /\ thread # "waiting" => Passed(hand)

\* A serve counts a ring only if it checked after the ring was made, and a ring is made only
\* after the fence was waited for: so the check found the queries ready (Pump::ask, serve).
Pump ==
  /\ served <= asked
  /\ vmm \in {"looked", "checked"} => target <= asked
  /\ thread \in {"ask", "ring", "asking", "held"} => hand.queries = TRUE
  /\ thread \in {"ring", "asking", "held"} /\ served = asked => Answering(hand)
  /\ thread \in {"ring", "asking", "held"} /\ vmm = "checked" /\ target = asked => Answering(hand)
  /\ thread = "retire" => hand.let = TRUE \/ Answering(hand)
  /\ asked <= last + (IF thread \in {"ring", "asking", "held", "retire"} THEN 1 ELSE 0)

\* All of it; a ring not lost is a part that is inductive as it stands.
Inv == Flow /\ WantKept /\ Types /\ Order /\ Counts /\ GivenBack /\ Sound /\ Pump /\ BellKept

-----------------------------------------------------------------------------
(* What steps do to the GPU and the guest's contexts                       *)

\* What every step gives the later parts: work and pictures only advance, and a query parked
\* by the step ends past what the queue had been given.
Grows ==
  /\ \A q \in Queues : given[q] <= given'[q] /\ ran[q] <= ran'[q]
  /\ \A c \in Contexts : /\ decode[c] # "none" => decode'[c] # "none"
                         /\ decode[c] = "landed" => decode'[c] = "landed"
  /\ \A c \in Contexts : \A p \in unanswered'[c] : p \in unanswered[c] \/ given[p[1]] < p[2]

\* The queues of a context are queues, and ctx0's is one of them.
LEMMA QueueFacts ==
  /\ \A c \in Contexts : WorkOf(c) \in SUBSET Queues /\ SubsOf[c] \in SUBSET WorkOf(c)
                         /\ WorkOf(c) # {} /\ SubsOf[c] \in SUBSET Queues
  /\ Ctx0 \in Queues
  BY DEF WorkOf, Queues

\* No job is a job by type, without a ticket.
LEMMA NoJobIs == NoJob \in Job /\ NoJob.id = 0 /\ NoJob.ticket = None
  BY ClassicConstants DEF NoJob, Job

\* A batch keeps Flow, at once or from the gate.
LEMMA BatchRuns ==
  ASSUME Flow, NEW b, b.ctx \in Contexts, b.queue \in SubsOf[b.ctx],
         b.does \in {"draw", "query", "decode"}, b.does = "decode" => decode[b.ctx] = "none",
         RunBatch(b), UNCHANGED <<ran, contexts>>
  PROVE  Flow' /\ Grows
  <1>1. b.queue \in Queues /\ given[b.queue] \in Nat
    BY QueueFacts DEF Flow
  <1>2. given' \in [Queues -> Nat] /\ \A q \in Queues : given[q] <= given'[q]
    BY <1>1 DEF Flow, RunBatch
  <1>3. \A q \in Queues : ran'[q] <= given'[q]
    BY <1>2 DEF Flow
  <1>4. /\ decode' \in [Contexts -> {"none", "flying", "landed"}]
        /\ \A c \in Contexts : decode[c] # "none" => decode'[c] = decode[c]
    BY DEF Flow, RunBatch
  <1>5. unanswered' \in [Contexts -> SUBSET (Queues \X (Nat \ {0}))]
    <2>1. <<b.queue, given[b.queue] + 1>> \in Queues \X (Nat \ {0})
      BY <1>1
    <2> QED BY <2>1 DEF Flow, RunBatch
  <1>6. ASSUME NEW c \in Contexts, NEW p \in unanswered'[c]
        PROVE  \/ p \in unanswered[c]
               \/ c = b.ctx /\ b.does = "query" /\ p = <<b.queue, given[b.queue] + 1>>
    BY <1>6 DEF Flow, RunBatch
  <1>7. ASSUME NEW c \in Contexts, NEW p \in unanswered'[c]
        PROVE  /\ p[1] \in SubsOf[c] /\ p[2] <= given'[p[1]]
               /\ p \in unanswered[c] \/ given[p[1]] < p[2]
    <2>1. CASE p \in unanswered[c]
      <3>1. p[1] \in SubsOf[c] /\ p[2] <= given[p[1]] /\ p[1] \in Queues /\ p[2] \in Nat
        BY <2>1 DEF Flow
      <3>2. given[p[1]] <= given'[p[1]] /\ given[p[1]] \in Nat /\ given'[p[1]] \in Nat
        BY <3>1, <1>2 DEF Flow
      <3> QED BY <2>1, <3>1, <3>2
    <2>2. CASE p \notin unanswered[c]
      <3>1. c = b.ctx /\ b.does = "query" /\ p = <<b.queue, given[b.queue] + 1>>
        BY <1>6, <1>7, <2>2
      <3>2. given'[b.queue] = given[b.queue] + 1
        BY <3>1, <1>1 DEF RunBatch, Flow
      <3> QED BY <3>1, <3>2, <1>1
    <2> QED BY <2>1, <2>2
  <1>8. UNCHANGED <<ran, contexts>>
    OBVIOUS
  <1>9. Flow'
    BY <1>2, <1>3, <1>4, <1>5, <1>7, <1>8 DEF Flow
  <1>10. Grows
    BY <1>2, <1>4, <1>7, <1>8 DEF Flow, Grows
  <1> QED BY <1>9, <1>10

\* Every step keeps Flow, and only advances (RunBatch, glFinish, answer_parked).
LEMMA FlowKept == Flow /\ WantKept /\ [Next]_vars => Flow' /\ Grows
  <1> SUFFICES ASSUME Flow, WantKept, [Next]_vars PROVE Flow' /\ Grows
    OBVIOUS
  <1>1. CASE UNCHANGED <<gpuVars, guestVars>>
    BY <1>1 DEF gpuVars, guestVars, Flow, Grows
  <1>2. ASSUME NEW q \in Queues, Gpu(q) PROVE Flow' /\ Grows
    BY <1>2 DEF Gpu, guestVars, Flow, Grows
  <1>3. ASSUME NEW c \in Contexts, Land(c) PROVE Flow' /\ Grows
    BY <1>3 DEF Land, guestVars, Flow, Grows
  <1>4. ASSUME NEW c \in Contexts, ContextDestroy(c) PROVE Flow' /\ Grows
    BY <1>4 DEF ContextDestroy, gpuVars, Flow, Grows
  <1>5. ASSUME NEW b \in Batches, Submit(b) PROVE Flow' /\ Grows
    <2>1. CASE AtDepth(b.ctx)
      BY <1>5, <2>1, <1>1 DEF Submit, gpuVars, guestVars
    <2>2. CASE ~AtDepth(b.ctx)
      <3>1. /\ b.ctx \in Contexts /\ b.queue \in SubsOf[b.ctx]
            /\ b.does \in {"draw", "query", "decode"}
            /\ b.does = "decode" => decode[b.ctx] = "none"
        BY DEF Batches, Flow
      <3>2. RunBatch(b) /\ UNCHANGED <<ran, contexts>>
        BY <1>5, <2>2 DEF Submit
      <3> QED BY <3>1, <3>2, BatchRuns
    <2> QED BY <2>1, <2>2
  <1>6. CASE GateOver
    <2>1. /\ want.ctx \in Contexts /\ want.queue \in SubsOf[want.ctx]
          /\ want.does \in {"draw", "query", "decode"}
          /\ want.does = "decode" => decode[want.ctx] = "none"
      BY <1>6 DEF GateOver, WantKept
    <2>2. RunBatch(want) /\ UNCHANGED <<ran, contexts>>
      BY <1>6 DEF GateOver
    <2> QED BY <2>1, <2>2, BatchRuns
  <1>7. CASE Transfer
    BY <1>7, QueueFacts DEF Transfer, guestVars, Flow, Grows
  <1>8. ASSUME NEW on \in contexts \cup {None}, NEW refusal \in {FALSE, MayRefuse},
               Fence(on, refusal)
        PROVE  Flow' /\ Grows
    <2>1. ran' \in [Queues -> Nat] /\ \A q \in Queues : ran[q] <= ran'[q] /\ ran'[q] <= given[q]
      BY <1>8 DEF Fence, Finished, Flow
    <2>2. /\ unanswered' \in [Contexts -> SUBSET (Queues \X (Nat \ {0}))]
          /\ \A c \in Contexts : \A p \in unanswered'[c] : p \in unanswered[c]
      BY <1>8 DEF Fence, AnswerParked, Flow
    <2>3. UNCHANGED <<given, decode, contexts>>
      BY <1>8 DEF Fence
    <2> QED BY <2>1, <2>2, <2>3 DEF Flow, Grows
  <1>9. CASE Check
    <2>1. /\ unanswered' \in [Contexts -> SUBSET (Queues \X (Nat \ {0}))]
          /\ \A c \in Contexts : \A p \in unanswered'[c] : p \in unanswered[c]
      BY <1>9 DEF Check, AnswerParked, Flow
    <2>3. UNCHANGED <<given, ran, decode, contexts>>
      BY <1>9 DEF Check, gpuVars
    <2> QED BY <2>1, <2>3 DEF Flow, Grows
  <1> QED BY <1>1, <1>2, <1>3, <1>4, <1>5, <1>6, <1>7, <1>8, <1>9 DEF Next, vars, Waiter, Serve,
    Pop, SleepOrGo, WaitOut, GiveBack, Ask, Ring, AskLook, Retire, Subscribe, Drain, Look, Release,
    StopQueue, StopPump, Join

\* Nothing begins the held batch's decode before it: the thread that would is held.
LEMMA WantStays == Flow /\ WantKept /\ [Next]_vars => WantKept'
  <1> SUFFICES ASSUME Flow, WantKept, [Next]_vars PROVE WantKept'
    OBVIOUS
  <1>1. CASE UNCHANGED <<decode, vmm, want>>
    BY <1>1 DEF WantKept
  <1>2. ASSUME NEW c \in Contexts, Land(c) PROVE WantKept'
    BY <1>2 DEF Land, vmmVars, WantKept, Flow
  <1>3. ASSUME NEW b \in Batches, Submit(b) PROVE WantKept'
    <2>1. CASE AtDepth(b.ctx)
      <3>1. vmm' = "gate" /\ want' = b /\ decode' = decode
        BY <1>3, <2>1 DEF Submit
      <3>2. b.ctx # None
        BY ClassicConstants DEF Batches, Flow
      <3>3. b # NoBatch
        BY <3>2 DEF NoBatch
      <3> QED BY <3>1, <3>3 DEF WantKept, Batches, Flow
    <2>2. CASE ~AtDepth(b.ctx)
      BY <1>3, <2>2 DEF Submit, WantKept
    <2> QED BY <2>1, <2>2
  <1>4. CASE GateOver
    BY <1>4 DEF GateOver, WantKept
  <1>5. CASE want' = want /\ vmm # "gate" /\ vmm' # "gate"
    BY <1>5 DEF WantKept
  <1> QED BY <1>1, <1>2, <1>3, <1>4, <1>5 DEF Next, vars, Waiter, Serve, gpuVars, vmmVars, Gpu,
    ContextDestroy, Transfer, Fence, Check, Pop, SleepOrGo, WaitOut, GiveBack, Ask, Ring, AskLook,
    Retire, Subscribe, Drain, Look, Release, StopQueue, StopPump, Join

-----------------------------------------------------------------------------
(* Types, order and counts                                                 *)

\* What a fence is made of.
LEMMA JobIs ==
  ASSUME Flow, Types, NEW on \in contexts \cup {None}, NEW refusal \in {FALSE, MayRefuse},
         made < MaxFences
  PROVE  /\ NewJob(on, refusal) \in Job
         /\ NewJob(on, refusal).id = made + 1
         /\ NewJob(on, refusal).on = on
         /\ NewJob(on, refusal).at
              = [q \in Queues |-> IF on # None /\ q \in WorkOf(on) THEN given[q] ELSE 0]
         /\ NewJob(on, refusal).syncs = Syncs(on, refusal)
         /\ NewJob(on, refusal).pictures = Pictures(on)
         /\ NewJob(on, refusal).ticket = IF Syncs(on, refusal) # {} THEN on ELSE None
         /\ NewJob(on, refusal).queries = Held(on)
         /\ NewJob(on, refusal).covers = Covers(on)
  <1>1. /\ NewJob(on, refusal).id = made + 1
        /\ NewJob(on, refusal).on = on
        /\ NewJob(on, refusal).at
              = [q \in Queues |-> IF on # None /\ q \in WorkOf(on) THEN given[q] ELSE 0]
        /\ NewJob(on, refusal).syncs = Syncs(on, refusal)
        /\ NewJob(on, refusal).pictures = Pictures(on)
        /\ NewJob(on, refusal).ticket = IF Syncs(on, refusal) # {} THEN on ELSE None
        /\ NewJob(on, refusal).queries = Held(on)
        /\ NewJob(on, refusal).covers = Covers(on)
    BY DEF NewJob, NoJob
  <1>2. made + 1 \in 0..MaxFences
    BY ClassicConstants DEF Types
  <1>3. on \in Contexts \cup {None}
    BY DEF Flow
  <1>4. [q \in Queues |-> IF on # None /\ q \in WorkOf(on) THEN given[q] ELSE 0] \in [Queues -> Nat]
    BY DEF Flow
  <1>5. Syncs(on, refusal) \in SUBSET Queues
    BY <1>3, QueueFacts DEF Syncs, Synced
  <1>6. Pictures(on) \in SUBSET Contexts
    BY DEF Pictures, Flow
  <1>7. Covers(on) \in SUBSET (Queues \X (Nat \ {0}))
    BY DEF Covers, Flow
  <1>8. Held(on) \in BOOLEAN
    BY DEF Types, Held
  <1>9. (IF Syncs(on, refusal) # {} THEN on ELSE None) \in Contexts \cup {None}
    BY <1>3
  <1>10. NewJob(on, refusal) \in Job
    BY <1>2, <1>3, <1>4, <1>5, <1>6, <1>7, <1>8, <1>9 DEF NewJob, NoJob, Job
  <1> QED BY <1>1, <1>10

\* Every step keeps the types; a fence needs the bound on those made.
LEMMA TypesKept == Flow /\ Types /\ Order /\ Counts /\ [Next]_vars => Types'
  <1> SUFFICES ASSUME Flow, Types, Order, Counts, [Next]_vars PROVE Types'
    OBVIOUS
  <1>1. CASE UNCHANGED <<inFlight, queueVars, pumpVars, thread, hand, vmm, target, made, last>>
    BY <1>1 DEF Types, queueVars, pumpVars
  <1>3. ASSUME NEW b \in Batches, Submit(b) PROVE Types'
    BY <1>3 DEF Submit, Types, queueVars, pumpVars
  <1>4. CASE GateOver
    BY <1>4 DEF GateOver, Types, queueVars, pumpVars
  <1>5. ASSUME NEW on \in contexts \cup {None}, NEW refusal \in {FALSE, MayRefuse},
               Fence(on, refusal)
        PROVE  Types'
    <2>1. made < MaxFences
      BY <1>5 DEF Fence
    <2>2. made' \in 0..MaxFences
      BY <1>5, ClassicConstants DEF Fence, Types
    <2>3. jobs' \in Seq(Job)
      <3>1. NewJob(on, refusal) \in Job
        BY <2>1, JobIs
      <3>2. jobs' = Append(jobs, NewJob(on, refusal))
        BY <1>5 DEF Fence, Pushed
      <3> QED BY <3>1, <3>2 DEF Types
    <2>4. inFlight' \in [Contexts -> Nat]
      <3>1. CASE on = None
        BY <1>5, <3>1 DEF Fence, Types, Syncs
      <3>2. CASE on # None
        <4>1. on \in Contexts
          BY <3>2 DEF Flow
        <4> QED BY <1>5, <4>1 DEF Fence, Types
      <3> QED BY <3>1, <3>2
    <2>5. UNCHANGED <<stopped, pumpVars, hand, vmm, target, last>>
      BY <1>5 DEF Fence, vmmVars
    <2>6. thread' = Woken
      BY <1>5 DEF Fence
    <2> QED BY <2>2, <2>3, <2>4, <2>5, <2>6 DEF Types, pumpVars, Woken
  <1>6. CASE Pop
    BY <1>6 DEF Pop, Types, vmmVars, pumpVars
  <1>7. CASE SleepOrGo
    BY <1>7 DEF SleepOrGo, Types, vmmVars, pumpVars, queueVars
  <1>8. CASE WaitOut
    <2>1. \E refused \in SUBSET hand.syncs : hand' = [hand EXCEPT !.refused = refused, !.syncs = {}]
      BY <1>8 DEF WaitOut
    <2>2. hand' \in Job
      BY <2>1 DEF Types, Job
    <2> QED BY <1>8, <2>2 DEF WaitOut, Types, vmmVars, pumpVars, queueVars
  <1>9. CASE GiveBack
    <2>1. ASSUME NEW c \in Contexts, c \in Returned(hand) PROVE inFlight[c] - 1 \in Nat
      <3>1. c = hand.ticket
        BY <2>1 DEF Returned
      <3>2. IsFiniteSet({i \in 1..Len(jobs) : jobs[i].ticket = c})
        <4>1. IsFiniteSet(1..Len(jobs))
          BY FS_Interval DEF Types
        <4> QED BY <4>1, FS_Subset
      <3>3. Cardinality({i \in 1..Len(jobs) : jobs[i].ticket = c}) \in Nat
        BY <3>2, FS_CardinalityType
      <3>4. inFlight[c] = Cardinality({i \in 1..Len(jobs) : jobs[i].ticket = c}) + 1
        BY <3>1 DEF Counts
      <3> QED BY <3>3, <3>4
    <2>2. inFlight' \in [Contexts -> Nat]
      BY <1>9, <2>1 DEF GiveBack, Types
    <2>3. hand' \in Job
      BY <1>9 DEF GiveBack, Types, Job
    <2> QED BY <1>9, <2>2, <2>3 DEF GiveBack, Types, vmmVars, pumpVars, queueVars
  <1>10. CASE Ask
    BY <1>10 DEF Ask, Types, vmmVars, queueVars
  <1>11. CASE Ring
    BY <1>11 DEF Ring, Rung, Types, vmmVars, queueVars
  <1>12. CASE AskLook
    <2>1. hand' \in Job
      BY <1>12 DEF AskLook, Types, Job
    <2> QED BY <1>12, <2>1 DEF AskLook, Types, vmmVars, queueVars, pumpVars
  <1>13. CASE Retire
    BY <1>13, NoJobIs DEF Retire, HandAfter, Types, vmmVars, queueVars, pumpVars, Job
  <1>14. CASE Subscribe
    BY <1>14 DEF Subscribe, Types, vmmVars, queueVars, pumpVars
  <1>15. CASE Drain
    BY <1>15 DEF Drain, Types, vmmVars, queueVars, pumpVars
  <1>16. CASE Look \/ Check
    BY <1>16 DEF Look, Check, Types, vmmVars, queueVars, pumpVars
  <1>17. CASE Release
    BY <1>17 DEF Release, Counted, Roused, Types, vmmVars, queueVars, pumpVars
  <1>18. CASE StopQueue
    BY <1>18 DEF StopQueue, Woken, Types, vmmVars, queueVars, pumpVars
  <1>19. CASE StopPump
    BY <1>19 DEF StopPump, Roused, Types, vmmVars, queueVars, pumpVars
  <1>20. CASE Join
    BY <1>20 DEF Join, Types, vmmVars, queueVars, pumpVars
  <1> QED BY <1>1, <1>3, <1>4, <1>5, <1>6, <1>7, <1>8, <1>9, <1>10, <1>11, <1>12, <1>13, <1>14,
    <1>15, <1>16, <1>17, <1>18, <1>19, <1>20 DEF Next, vars, Waiter, Serve, gpuVars, vmmVars,
    queueVars, Gpu, Land, ContextDestroy, Transfer

\* Append makes the next, Head takes the first, the sink gets the one in hand.
LEMMA OrderKept == Types /\ Order /\ [Next]_vars => Order'
  <1> SUFFICES ASSUME Types, Order, [Next]_vars PROVE Order'
    OBVIOUS
  <1>1. CASE UNCHANGED <<jobs, thread, hand, made, last>>
    BY <1>1 DEF Order, Ahead, InHand
  <1>2. ASSUME UNCHANGED <<jobs, made, last>>, InHand, InHand', hand'.id = hand.id PROVE Order'
    BY <1>2 DEF Order, Ahead, InHand
  <1>3. ASSUME UNCHANGED <<jobs, made, last, hand>>, ~InHand, ~InHand' PROVE Order'
    BY <1>3 DEF Order, Ahead, InHand
  <1>4. ASSUME NEW on \in contexts \cup {None}, NEW refusal \in {FALSE, MayRefuse},
               Fence(on, refusal)
        PROVE  Order'
    <2> DEFINE j == NewJob(on, refusal)
    <2>1. j.id = made + 1
      BY DEF NewJob, NoJob
    <2>2. /\ jobs' = Append(jobs, j) /\ made' = made + 1 /\ last' = last /\ hand' = hand
          /\ (InHand' <=> InHand)
      BY <1>4 DEF Fence, Pushed, Woken, InHand
    <2>3. Ahead' = Ahead /\ Ahead \in Nat
      BY <2>2 DEF Ahead
    <2>4. Len(jobs') = Len(jobs) + 1 /\ jobs'[Len(jobs) + 1] = j
          /\ \A i \in 1..Len(jobs) : jobs'[i] = jobs[i]
      BY <2>2 DEF Types
    <2>5. Len(jobs) \in Nat /\ last \in Nat /\ made \in Nat
      BY DEF Types
    <2> HIDE DEF j
    <2>6. made' = last' + Ahead' + Len(jobs')
      <3>1. made + 1 = last + Ahead + (Len(jobs) + 1)
        BY <2>3, <2>5 DEF Order
      <3> QED BY <3>1, <2>2, <2>3, <2>4
    <2>7. ASSUME NEW i \in 1..Len(jobs') PROVE jobs'[i].id = last' + Ahead' + i
      <3>1. CASE i = Len(jobs) + 1
        <4>1. jobs'[i].id = made + 1
          BY <2>1, <2>4, <3>1
        <4> QED BY <4>1, <3>1, <2>2, <2>3, <2>5 DEF Order
      <3>2. CASE i \in 1..Len(jobs)
        BY <3>2, <2>2, <2>3, <2>4 DEF Order
      <3> QED BY <3>1, <3>2, <2>4, <2>5
    <2> QED BY <2>2, <2>6, <2>7 DEF Order
  <1>5. CASE Pop
    <2>1. /\ hand' = Head(jobs) /\ jobs' = Tail(jobs) /\ jobs # <<>> /\ ~InHand /\ InHand'
          /\ UNCHANGED <<made, last>>
      BY <1>5 DEF Pop, InHand
    <2>2. Ahead = 0 /\ Ahead' = 1
      BY <2>1 DEF Ahead
    <2>3. /\ Len(jobs) \in Nat \ {0} /\ Len(jobs') = Len(jobs) - 1 /\ hand' = jobs[1]
          /\ \A i \in 1..Len(jobs') : jobs'[i] = jobs[i + 1] /\ i + 1 \in 1..Len(jobs)
      BY <2>1 DEF Types
    <2>4. made = last + Len(jobs) /\ last \in Nat /\ made \in Nat
      BY <2>2 DEF Order, Types
    <2>5. \A i \in 1..Len(jobs) : jobs[i].id = last + i
      BY <2>2, <2>4 DEF Order
    <2>6. hand'.id = last + 1
      BY <2>5, <2>3
    <2>7. \A i \in 1..Len(jobs') : jobs'[i].id = last + 1 + i
      BY <2>5, <2>3, <2>4
    <2>8. made = last + 1 + Len(jobs')
      BY <2>3, <2>4
    <2> QED BY <2>1, <2>2, <2>6, <2>7, <2>8 DEF Order
  <1>6. CASE Retire
    <2>1. /\ hand' = NoJob /\ last' = hand.id /\ InHand /\ ~InHand' /\ UNCHANGED <<jobs, made>>
      BY <1>6 DEF Retire, HandAfter, InHand, queueVars
    <2>2. Ahead = 1 /\ Ahead' = 0
      BY <2>1 DEF Ahead
    <2>3. last' = last + 1 /\ last \in Nat
      BY <2>1 DEF Order, Types
    <2> QED BY <2>1, <2>2, <2>3 DEF Order
  <1>7. CASE WaitOut
    <2>1. hand'.id = hand.id
      BY <1>7 DEF WaitOut, Types, Job
    <2> QED BY <1>7, <2>1, <1>2 DEF WaitOut, InHand, queueVars
  <1>8. CASE GiveBack \/ Ask \/ Ring \/ AskLook
    <2>1. hand'.id = hand.id
      BY <1>8 DEF GiveBack, Ask, Ring, AskLook, Types, Job
    <2> QED BY <1>8, <2>1, <1>2 DEF GiveBack, Ask, Ring, AskLook, InHand, queueVars
  <1>9. CASE SleepOrGo
    BY <1>9, <1>3 DEF SleepOrGo, InHand, queueVars
  <1>10. CASE Release \/ StopPump
    <2>1. UNCHANGED <<jobs, made, last, hand>> /\ (thread' = thread \/ (InHand /\ InHand'))
      BY <1>10 DEF Release, StopPump, Roused, InHand, queueVars
    <2> QED BY <2>1, <1>1, <1>2
  <1>11. CASE StopQueue
    <2>1. UNCHANGED <<jobs, made, last, hand>> /\ (thread' = thread \/ (~InHand /\ ~InHand'))
      BY <1>11 DEF StopQueue, Woken, InHand
    <2> QED BY <2>1, <1>1, <1>3
  <1> QED BY <1>1, <1>4, <1>5, <1>6, <1>7, <1>8, <1>9, <1>10, <1>11 DEF Next, vars, Waiter, Serve,
    gpuVars, vmmVars, queueVars, Gpu, Land, ContextDestroy, Transfer, Submit, GateOver, Subscribe,
    Drain, Look, Check, Join

\* One more in a queue is counted once.
LEMMA CountAppend ==
  ASSUME NEW s \in Seq(Job), NEW j \in Job, NEW c \in Contexts
  PROVE  Cardinality({i \in 1..Len(Append(s, j)) : Append(s, j)[i].ticket = c})
           = Cardinality({i \in 1..Len(s) : s[i].ticket = c}) + (IF j.ticket = c THEN 1 ELSE 0)
  <1> DEFINE O == {i \in 1..Len(s) : s[i].ticket = c}
             N == {i \in 1..Len(Append(s, j)) : Append(s, j)[i].ticket = c}
  <1>1. Len(s) \in Nat /\ Len(Append(s, j)) = Len(s) + 1 /\ Append(s, j)[Len(s) + 1] = j
        /\ \A i \in 1..Len(s) : Append(s, j)[i] = s[i]
    OBVIOUS
  <1>2. IsFiniteSet(O) /\ Cardinality(O) \in Nat /\ Len(s) + 1 \notin O
    <2>1. IsFiniteSet(1..Len(s))
      BY <1>1, FS_Interval
    <2> QED BY <2>1, <1>1, FS_Subset, FS_CardinalityType
  <1>3. CASE j.ticket = c
    <2>1. N = O \cup {Len(s) + 1}
      BY <1>1, <1>3
    <2> QED BY <2>1, <1>2, <1>3, FS_AddElement
  <1>4. CASE j.ticket # c
    <2>1. N = O
      BY <1>1, <1>4
    <2> HIDE DEF N, O
    <2>2. Cardinality(N) = Cardinality(O) + 0
      BY <2>1, <1>2
    <2>3. Cardinality(N) = Cardinality(O) + (IF j.ticket = c THEN 1 ELSE 0)
      BY <2>2, <1>4
    <2> QED BY <2>3 DEF N, O
  <1> QED BY <1>3, <1>4

\* The one taken from a queue is counted no more.
LEMMA CountTail ==
  ASSUME NEW s \in Seq(Job), s # <<>>, NEW c \in Contexts
  PROVE  Cardinality({i \in 1..Len(s) : s[i].ticket = c})
           = Cardinality({i \in 1..Len(Tail(s)) : Tail(s)[i].ticket = c})
             + (IF Head(s).ticket = c THEN 1 ELSE 0)
  <1> DEFINE O == {i \in 1..Len(s) : s[i].ticket = c}
             N == {i \in 1..Len(Tail(s)) : Tail(s)[i].ticket = c}
             f == [i \in N |-> i + 1]
  <1>1. Len(s) \in Nat \ {0} /\ Len(Tail(s)) = Len(s) - 1 /\ Head(s) = s[1]
        /\ \A i \in 1..(Len(s) - 1) : Tail(s)[i] = s[i + 1]
    OBVIOUS
  <1>2. IsFiniteSet(O) /\ IsFiniteSet(N)
    <2>1. IsFiniteSet(1..Len(s)) /\ IsFiniteSet(1..Len(Tail(s)))
      BY <1>1, FS_Interval
    <2> QED BY <2>1, FS_Subset
  <1>3. f \in Bijection(N, O \ {1})
    <2>1. ASSUME NEW i \in N PROVE i + 1 \in O \ {1} /\ i \in Nat
      BY <1>1
    <2>2. ASSUME NEW k \in O \ {1} PROVE k - 1 \in N /\ (k - 1) + 1 = k
      BY <1>1
    <2>3. f \in [N -> O \ {1}]
      BY <2>1
    <2>4. \A i, k \in N : f[i] = f[k] => i = k
      BY <2>1
    <2>5. \A k \in O \ {1} : \E i \in N : f[i] = k
      BY <2>2
    <2> QED BY <2>3, <2>4, <2>5 DEF Bijection, Injection, Surjection, IsInjective
  <1>4. Cardinality(O \ {1}) = Cardinality(N) /\ Cardinality(N) \in Nat /\ Cardinality(O) \in Nat
    <2>1. ExistsBijection(N, O \ {1})
      BY <1>3 DEF ExistsBijection
    <2> QED BY <2>1, <1>2, FS_Bijection, FS_CardinalityType
  <1>5. Cardinality(O \ {1}) = IF 1 \in O THEN Cardinality(O) - 1 ELSE Cardinality(O)
    BY <1>2, FS_RemoveElement
  <1>6. 1 \in O <=> Head(s).ticket = c
    BY <1>1
  <1>7. Cardinality(O) = Cardinality(N) + (IF Head(s).ticket = c THEN 1 ELSE 0)
    <2> HIDE DEF O, N, f
    <2> QED BY <1>4, <1>5, <1>6
  <1> QED BY <1>7

\* A ticket is counted from the fence that takes it to the waits that give it back, by
\* whichever place the fence is in (Ticket::drop).
LEMMA CountsKept ==
  Flow /\ Types /\ Order /\ Counts /\ GivenBack /\ [Next]_vars => Counts' /\ GivenBack'
  <1> SUFFICES ASSUME Flow, Types, Order, Counts, GivenBack, [Next]_vars PROVE Counts' /\ GivenBack'
    OBVIOUS
  <1>1. ASSUME UNCHANGED <<jobs, inFlight>>, hand'.ticket = hand.ticket PROVE Counts'
    BY <1>1 DEF Counts
  <1>2. CASE UNCHANGED <<jobs, inFlight, thread, hand>>
    BY <1>2, <1>1 DEF GivenBack
  <1>3. ASSUME NEW on \in contexts \cup {None}, NEW refusal \in {FALSE, MayRefuse},
               Fence(on, refusal)
        PROVE  Counts' /\ GivenBack'
    <2> DEFINE j == NewJob(on, refusal)
    <2>1. j \in Job /\ j.ticket = IF Syncs(on, refusal) # {} THEN on ELSE None
      BY <1>3, JobIs DEF Fence
    <2>2. /\ jobs' = Append(jobs, j) /\ hand' = hand
          /\ inFlight' = IF Syncs(on, refusal) # {} THEN [inFlight EXCEPT ![on] = @ + 1]
                          ELSE inFlight
      BY <1>3 DEF Fence, Pushed
    <2> HIDE DEF j
    <2>3. ASSUME NEW c \in Contexts
          PROVE  inFlight'[c] = inFlight[c] + (IF j.ticket = c THEN 1 ELSE 0) /\ inFlight[c] \in Nat
      <3>1. c # None
        BY ClassicConstants
      <3> QED BY <2>1, <2>2, <3>1 DEF Types
    <2>4. Counts'
      <3> SUFFICES ASSUME NEW c \in Contexts
                   PROVE  inFlight'[c] = Cardinality({i \in 1..Len(jobs') : jobs'[i].ticket = c})
                            + (IF hand'.ticket = c THEN 1 ELSE 0)
        BY DEF Counts
      <3>1. Cardinality({i \in 1..Len(jobs') : jobs'[i].ticket = c})
              = Cardinality({i \in 1..Len(jobs) : jobs[i].ticket = c})
                 + (IF j.ticket = c THEN 1 ELSE 0)
        <4>1. jobs \in Seq(Job)
          BY DEF Types
        <4>2. Cardinality({i \in 1..Len(Append(jobs, j)) : Append(jobs, j)[i].ticket = c})
              = Cardinality({i \in 1..Len(jobs) : jobs[i].ticket = c})
                 + (IF j.ticket = c THEN 1 ELSE 0)
          BY <2>1, <4>1, CountAppend
        <4> QED BY <4>2, <2>2
      <3>2. inFlight[c] = Cardinality({i \in 1..Len(jobs) : jobs[i].ticket = c})
                            + (IF hand.ticket = c THEN 1 ELSE 0)
        BY DEF Counts
      <3>3. Cardinality({i \in 1..Len(jobs) : jobs[i].ticket = c}) \in Nat
        <4>1. IsFiniteSet(1..Len(jobs))
          BY FS_Interval DEF Types
        <4> QED BY <4>1, FS_Subset, FS_CardinalityType
      <3> DEFINE old == Cardinality({i \in 1..Len(jobs) : jobs[i].ticket = c})
                 new == Cardinality({i \in 1..Len(jobs') : jobs'[i].ticket = c})
      <3> HIDE DEF old, new
      <3>4. new = old + (IF j.ticket = c THEN 1 ELSE 0) /\ old \in Nat
            /\ inFlight[c] = old + (IF hand.ticket = c THEN 1 ELSE 0)
        BY <3>1, <3>2, <3>3 DEF old, new
      <3>5. inFlight[c] + (IF j.ticket = c THEN 1 ELSE 0) = new + (IF hand.ticket = c THEN 1 ELSE 0)
        BY <3>4
      <3> QED BY <3>5, <2>3, <2>2 DEF new
    <2>5. GivenBack'
      BY <1>3 DEF Fence, Woken, GivenBack
    <2> QED BY <2>4, <2>5
  <1>4. CASE Pop
    <2>1. hand' = Head(jobs) /\ jobs' = Tail(jobs) /\ jobs # <<>> /\ hand = NoJob
          /\ inFlight' = inFlight /\ thread' = "waiting"
      BY <1>4 DEF Pop, Order, InHand
    <2>2. Counts'
      <3> SUFFICES ASSUME NEW c \in Contexts
                   PROVE  inFlight'[c] = Cardinality({i \in 1..Len(jobs') : jobs'[i].ticket = c})
                            + (IF hand'.ticket = c THEN 1 ELSE 0)
        BY DEF Counts
      <3>1. hand.ticket # c
        BY <2>1, NoJobIs, ClassicConstants
      <3>2. inFlight[c] = Cardinality({i \in 1..Len(jobs) : jobs[i].ticket = c}) + 0
        BY <3>1 DEF Counts
      <3>3. Cardinality({i \in 1..Len(jobs) : jobs[i].ticket = c})
              = Cardinality({i \in 1..Len(Tail(jobs)) : Tail(jobs)[i].ticket = c})
                + (IF Head(jobs).ticket = c THEN 1 ELSE 0)
        BY <2>1, CountTail DEF Types
      <3>4. inFlight[c] \in Nat
        BY DEF Types
      <3>5. Cardinality({i \in 1..Len(jobs) : jobs[i].ticket = c}) \in Nat
        <4>1. IsFiniteSet(1..Len(jobs))
          BY FS_Interval DEF Types
        <4> QED BY <4>1, FS_Subset, FS_CardinalityType
      <3> DEFINE old == Cardinality({i \in 1..Len(jobs) : jobs[i].ticket = c})
                 new == Cardinality({i \in 1..Len(Tail(jobs)) : Tail(jobs)[i].ticket = c})
      <3> HIDE DEF old, new
      <3>6. inFlight[c] = old
        BY <3>2, <3>4, <3>5 DEF old
      <3>7. inFlight[c] = new + (IF Head(jobs).ticket = c THEN 1 ELSE 0)
        BY <3>3, <3>6 DEF old, new
      <3> QED BY <3>7, <2>1 DEF new
    <2> QED BY <2>1, <2>2 DEF GivenBack
  <1>5. CASE GiveBack
    <2>1. hand'.ticket = None /\ jobs' = jobs
          /\ inFlight' = [c \in Contexts |-> IF c \in Returned(hand) THEN inFlight[c] - 1
                                          ELSE inFlight[c]]
      BY <1>5 DEF GiveBack, queueVars, Types, Job
    <2>2. Counts'
      <3> SUFFICES ASSUME NEW c \in Contexts
                   PROVE  inFlight'[c] = Cardinality({i \in 1..Len(jobs') : jobs'[i].ticket = c})
                            + (IF hand'.ticket = c THEN 1 ELSE 0)
        BY DEF Counts
      <3>1. inFlight'[c] = IF c = hand.ticket THEN inFlight[c] - 1 ELSE inFlight[c]
        BY <2>1 DEF Returned
      <3>2. inFlight[c] = Cardinality({i \in 1..Len(jobs) : jobs[i].ticket = c})
                            + (IF hand.ticket = c THEN 1 ELSE 0)
        BY DEF Counts
      <3>3. Cardinality({i \in 1..Len(jobs) : jobs[i].ticket = c}) \in Nat
        <4>1. IsFiniteSet(1..Len(jobs))
          BY FS_Interval DEF Types
        <4> QED BY <4>1, FS_Subset, FS_CardinalityType
      <3>4. c # None
        BY ClassicConstants
      <3> QED BY <3>1, <3>2, <3>3, <3>4, <2>1
    <2> QED BY <2>1, <2>2 DEF GivenBack
  <1>6. CASE WaitOut
    <2>1. hand'.ticket = hand.ticket
      BY <1>6 DEF WaitOut, Types, Job
    <2> QED BY <1>6, <2>1, <1>1 DEF WaitOut, GivenBack, queueVars
  <1>7. CASE Ask \/ Ring \/ AskLook
    <2>1. hand'.ticket = hand.ticket
      BY <1>7 DEF Ask, Ring, AskLook, Types, Job
    <2> QED BY <1>7, <2>1, <1>1 DEF Ask, Ring, AskLook, GivenBack, queueVars
  <1>8. CASE Retire
    <2>1. hand'.ticket = None /\ hand.ticket = None
      BY <1>8, NoJobIs DEF Retire, HandAfter, GivenBack
    <2> QED BY <1>8, <2>1, <1>1 DEF Retire, GivenBack, queueVars
  <1>9. CASE SleepOrGo \/ StopQueue
    <2>1. /\ UNCHANGED <<jobs, inFlight, hand>>
          /\ thread' = thread \/ thread' \in {"gone", "asleep", "looking"}
      BY <1>9 DEF SleepOrGo, StopQueue, Woken, queueVars
    <2> QED BY <2>1, <1>1 DEF GivenBack
  <1>10. CASE Release \/ StopPump
    <2>1. /\ UNCHANGED <<jobs, inFlight, hand>>
          /\ thread' = thread \/ (thread = "held" /\ thread' = "asking")
      BY <1>10 DEF Release, StopPump, Roused, queueVars
    <2> QED BY <2>1, <1>1 DEF GivenBack
  <1> QED BY <1>2, <1>3, <1>4, <1>5, <1>6, <1>7, <1>8, <1>9, <1>10 DEF Next, vars, Waiter, Serve,
    gpuVars, vmmVars, queueVars, Gpu, Land, ContextDestroy, Transfer, Submit, GateOver, Subscribe,
    Drain, Look, Check, Join

-----------------------------------------------------------------------------
(* Fences                                                                  *)

\* What is known of a fence stays known as work runs and queries are parked.
LEMMA JobsAge ==
  ASSUME Flow, Flow', Grows
  PROVE  \A j \in Job :
           /\ Taken(j) => Taken(j)'
           /\ Waits(j) => Waits(j)'
           /\ Passed(j) => Passed(j)'
           /\ Taken(j) /\ Answering(j) => Answering(j)'
  <1> SUFFICES ASSUME NEW j \in Job
               PROVE  /\ Taken(j) => Taken(j)'
                      /\ Waits(j) => Waits(j)'
                      /\ Passed(j) => Passed(j)'
                      /\ Taken(j) /\ Answering(j) => Answering(j)'
    OBVIOUS
  <1>1. \A p \in j.covers : p[1] \in Queues /\ p[2] \in Nat
    BY DEF Job
  <1>2. \A q \in Queues : /\ given[q] \in Nat /\ given'[q] \in Nat /\ given[q] <= given'[q]
                          /\ ran[q] \in Nat /\ ran'[q] \in Nat /\ ran[q] <= ran'[q]
                          /\ j.at[q] \in Nat
    BY DEF Flow, Grows, Job
  <1>3. j.on # None => j.on \in Contexts /\ WorkOf(j.on) \in SUBSET Queues
    BY QueueFacts DEF Job
  <1>4. Taken(j) => Standing(j)' \in SUBSET Standing(j)
    <2> SUFFICES ASSUME Taken(j), NEW p \in j.covers, NEW c \in Contexts, p \in unanswered'[c]
                 PROVE  p \in unanswered[c]
      BY DEF Standing
    <2>1. p[2] <= given[p[1]] /\ p[2] \in Nat /\ given[p[1]] \in Nat
      BY <1>1, <1>2 DEF Taken
    <2>2. p \in unanswered[c] \/ given[p[1]] < p[2]
      BY DEF Grows
    <2> QED BY <2>1, <2>2
  <1>5. Taken(j) => Taken(j)'
    <2> SUFFICES ASSUME Taken(j) PROVE Taken(j)'
      OBVIOUS
    <2>1. \A p \in j.covers : p[2] <= given'[p[1]]
      BY <1>1, <1>2 DEF Taken
    <2>2. \A c \in j.pictures : decode'[c] # "none"
      BY DEF Taken, Grows, Job
    <2>3. j.queries = FALSE => Standing(j)' = {}
      BY <1>4 DEF Taken
    <2> QED BY <2>1, <2>2, <2>3 DEF Taken, WorkOf
  <1>6. Waits(j) => Waits(j)'
    <2> SUFFICES ASSUME Waits(j), j.on # None, NEW q \in WorkOf(j.on), q \notin j.syncs
                 PROVE  ran'[q] >= j.at[q]
      BY DEF Waits, WorkOf
    <2>1. ran[q] >= j.at[q] /\ q \in Queues
      BY <1>3 DEF Waits
    <2> QED BY <2>1, <1>2
  <1>7. Passed(j) => Passed(j)'
    <2> SUFFICES ASSUME Passed(j) PROVE Passed(j)'
      OBVIOUS
    <2>1. ASSUME j.on # None, NEW q \in WorkOf(j.on) \ j.refused PROVE ran'[q] >= j.at[q]
      <3>1. ran[q] >= j.at[q] /\ q \in Queues
        BY <2>1, <1>3 DEF Passed
      <3> QED BY <3>1, <1>2
    <2>2. \A c \in j.pictures : decode'[c] = "landed"
      BY DEF Passed, Grows, Job
    <2> QED BY <2>1, <2>2 DEF Passed, WorkOf
  <1>8. Taken(j) /\ Answering(j) => Answering(j)'
    BY <1>4 DEF Answering
  <1> QED BY <1>5, <1>6, <1>7, <1>8

\* A fence is taken sound: work without a sync was finished first, queries not held for a
\* poll were answered first (queries_before_fence, decide_fence).
LEMMA FenceSound ==
  ASSUME Flow, Types, NEW on \in contexts \cup {None}, NEW refusal \in {FALSE, MayRefuse},
         Fence(on, refusal)
  PROVE  \A j \in Job : j = NewJob(on, refusal) => Taken(j)' /\ Waits(j)'
  <1> SUFFICES ASSUME NEW j \in Job, j = NewJob(on, refusal) PROVE Taken(j)' /\ Waits(j)'
    OBVIOUS
  <1>1. /\ j.on = on /\ j.syncs = Syncs(on, refusal)
        /\ j.at = [q \in Queues |-> IF on # None /\ q \in WorkOf(on) THEN given[q] ELSE 0]
        /\ j.pictures = Pictures(on) /\ j.queries = Held(on) /\ j.covers = Covers(on)
    BY JobIs DEF Fence
  <1>2. UNCHANGED <<given, decode>>
    BY DEF Fence
  <1>3. on # None => on \in contexts /\ on \in Contexts
    BY DEF Flow
  <1>4. ASSUME NEW p \in Covers(on)
        PROVE  \E c \in contexts : c \in Contexts /\ (on # None => c = on) /\ p \in unanswered[c]
    BY <1>3 DEF Covers, Flow
  <1>5. ASSUME NEW p \in Covers(on)
        PROVE  /\ p[2] <= given[p[1]] /\ p[1] \in Queues /\ p[2] \in Nat
               /\ on # None => p[1] \in WorkOf(on)
               /\ on = None => p[1] \in AllWork
    <2>1. PICK c \in contexts : c \in Contexts /\ (on # None => c = on) /\ p \in unanswered[c]
      BY <1>4
    <2>2. p[2] <= given[p[1]] /\ p[1] \in SubsOf[c] /\ p[1] \in Queues /\ p[2] \in Nat
      BY <2>1 DEF Flow
    <2> QED BY <2>1, <2>2 DEF WorkOf, AllWork
  <1>6. ASSUME ~Held(on) PROVE Standing(j)' = {}
    <2> SUFFICES ASSUME NEW p \in Covers(on), NEW c \in Contexts, p \in unanswered'[c] PROVE FALSE
      BY <1>1 DEF Standing
    <2>1. BeforeFence(on) = IF on = None THEN AllWork ELSE WorkOf(on)
      BY <1>6 DEF BeforeFence
    <2>2. BeforeFence(on) # {} /\ p[1] \in BeforeFence(on)
      BY <2>1, <1>5
    <2>3. unanswered' = AnswerParked(Finished(BeforeFence(on)))
      BY <2>2 DEF Fence
    <2>4. Finished(BeforeFence(on))[p[1]] = given[p[1]]
      BY <2>2, <1>5 DEF Finished
    <2>5. Finished(BeforeFence(on))[p[1]] < p[2]
      BY <2>3 DEF AnswerParked
    <2> QED BY <2>4, <2>5, <1>5 DEF Flow
  <1>7. Taken(j)'
    <2>1. \A p \in j.covers : p[2] <= given'[p[1]]
      BY <1>1, <1>2, <1>5
    <2>2. j.on = None => j.queries = FALSE
      BY <1>1 DEF Held
    <2>3. j.on # None => \A p \in j.covers : p[1] \in WorkOf(j.on) /\ p[2] <= j.at[p[1]]
      BY <1>1, <1>5
    <2>4. j.queries = FALSE => Standing(j)' = {}
      BY <1>1, <1>6
    <2>5. \A c \in j.pictures : decode'[c] # "none"
      BY <1>1, <1>2 DEF Pictures
    <2> QED BY <2>1, <2>2, <2>3, <2>4, <2>5 DEF Taken, WorkOf
  <1>8. Waits(j)'
    <2> SUFFICES ASSUME on # None, NEW q \in WorkOf(on), q \notin j.syncs
                 PROVE  ran'[q] >= j.at[q]
      BY <1>1 DEF Waits, WorkOf
    <2>1. q \in Queues /\ on \in Contexts
      BY <1>3, QueueFacts
    <2>2. q \in Drained(on, refusal)
      BY <1>1 DEF Syncs, Synced, Drained
    <2>3. ran'[q] = given[q]
      BY <2>1, <2>2 DEF Fence, Finished
    <2>4. j.at[q] = given[q] /\ given[q] \in Nat
      BY <1>1, <2>1 DEF Flow
    <2> QED BY <2>3, <2>4
  <1> QED BY <1>7, <1>8

\* Every step keeps the fences sound, in the queue and in hand (run, wait_out).
LEMMA SoundKept ==
  ASSUME Flow, Flow', Grows, Types, Types', Order, Sound, [Next]_vars
  PROVE  Sound'
  <1>1. \A i \in 1..Len(jobs') : Taken(jobs[i])' /\ Waits(jobs[i])'
    <2>1. ASSUME NEW i \in 1..Len(jobs'), NEW k \in 1..Len(jobs), jobs'[i] = jobs[k]
          PROVE  Taken(jobs[i])' /\ Waits(jobs[i])'
      <3>1. PICK j \in Job : j = jobs[k]
        BY DEF Types
      <3>2. Taken(j)' /\ Waits(j)'
        BY <3>1, JobsAge DEF Sound
      <3> QED BY <2>1, <3>1, <3>2 DEF Taken, Waits, Standing, WorkOf
    <2>2. CASE UNCHANGED jobs
      BY <2>1, <2>2
    <2>3. ASSUME NEW on \in contexts \cup {None}, NEW refusal \in {FALSE, MayRefuse},
                 Fence(on, refusal)
          PROVE  \A i \in 1..Len(jobs') : Taken(jobs[i])' /\ Waits(jobs[i])'
      <3> SUFFICES ASSUME NEW i \in 1..Len(jobs') PROVE Taken(jobs[i])' /\ Waits(jobs[i])'
        OBVIOUS
      <3>1. PICK j \in Job : j = NewJob(on, refusal)
        BY <2>3, JobIs DEF Fence
      <3>2. Taken(j)' /\ Waits(j)'
        BY <2>3, <3>1, FenceSound
      <3>3. jobs' = Append(jobs, j)
        BY <2>3, <3>1 DEF Fence, Pushed
      <3>4. CASE i \in 1..Len(jobs)
        <4>1. jobs'[i] = jobs[i]
          BY <3>3, <3>4 DEF Types
        <4> QED BY <4>1, <2>1, <3>4
      <3>5. CASE i \notin 1..Len(jobs)
        <4>1. jobs'[i] = j
          BY <3>3, <3>5 DEF Types
        <4> QED BY <4>1, <3>2 DEF Taken, Waits, Standing, WorkOf
      <3> QED BY <3>4, <3>5
    <2>4. CASE Pop
      <3> SUFFICES ASSUME NEW i \in 1..Len(jobs') PROVE Taken(jobs[i])' /\ Waits(jobs[i])'
        OBVIOUS
      <3>1. jobs'[i] = jobs[i + 1] /\ i + 1 \in 1..Len(jobs)
        BY <2>4 DEF Pop, Types
      <3> QED BY <3>1, <2>1
    <2> QED BY <2>2, <2>3, <2>4 DEF Next, vars, Waiter, Serve, gpuVars, vmmVars, queueVars, Gpu,
      Land, ContextDestroy, Transfer, Submit, GateOver, Subscribe, Drain, Look, Check, Join,
      SleepOrGo, WaitOut, GiveBack, Ask, Ring, AskLook, Retire, Release, StopQueue, StopPump
  <1> DEFINE HandSound == /\ InHand => Taken(hand)
                          /\ thread = "waiting" => Waits(hand)
                          /\ InHand /\ thread # "waiting" => Passed(hand)
  <1>2. HandSound'
    <2>1. CASE UNCHANGED <<hand, thread>>
      <3>1. PICK j \in Job : j = hand
        BY DEF Types
      <3>2. HandSound
        BY DEF Sound
      <3>3. InHand' <=> InHand
        BY <2>1 DEF InHand
      <3>4. /\ InHand => Taken(j)' /\ hand' = j
            /\ thread = "waiting" => Waits(j)'
            /\ InHand /\ thread # "waiting" => Passed(j)'
        BY <2>1, <3>1, <3>2, JobsAge
      <3> QED BY <2>1, <3>1, <3>3, <3>4 DEF Taken, Waits, Passed, Standing, WorkOf
    <2>2. ASSUME UNCHANGED hand, InHand, InHand', thread # "waiting", thread' # "waiting"
          PROVE  HandSound'
      <3>1. PICK j \in Job : j = hand
        BY DEF Types
      <3>2. Taken(j)' /\ Passed(j)' /\ hand' = j
        BY <2>2, <3>1, JobsAge DEF Sound
      <3> QED BY <2>2, <3>2 DEF Taken, Passed, Standing, WorkOf
    <2>3. CASE ~InHand'
      BY <2>3 DEF InHand
    <2>4. CASE Pop
      <3>1. PICK j \in Job : j = Head(jobs)
        BY <2>4 DEF Pop, Types
      <3>2. j = jobs[1] /\ 1 \in 1..Len(jobs)
        BY <2>4, <3>1 DEF Pop, Types
      <3>3. Taken(j)' /\ Waits(j)'
        BY <3>2, JobsAge DEF Sound
      <3>4. hand' = j /\ thread' = "waiting"
        BY <2>4, <3>1 DEF Pop
      <3> QED BY <3>3, <3>4 DEF Taken, Waits, Standing, WorkOf
    <2>5. CASE WaitOut
      <3>1. PICK refused \in SUBSET hand.syncs :
              /\ \A q \in hand.syncs \ refused : ran[q] >= hand.at[q]
              /\ hand' = [hand EXCEPT !.refused = refused, !.syncs = {}]
        BY <2>5 DEF WaitOut
      <3>2. /\ thread = "waiting" /\ thread' = "passed" /\ UNCHANGED <<gpuVars, guestVars>>
            /\ \A c \in hand.pictures : decode[c] = "landed"
        BY <2>5 DEF WaitOut
      <3>3. hand'.on = hand.on /\ hand'.at = hand.at /\ hand'.covers = hand.covers
            /\ hand'.queries = hand.queries /\ hand'.pictures = hand.pictures
            /\ hand'.refused = refused
        BY <3>1 DEF Types, Job
      <3>4. Taken(hand) /\ Waits(hand) /\ UNCHANGED <<given, ran, decode, unanswered>>
        BY <3>2 DEF Sound, InHand, gpuVars, guestVars
      <3>5. Taken(hand)'
        BY <3>3, <3>4 DEF Taken, Standing, WorkOf
      <3>6. Passed(hand)'
        BY <3>1, <3>2, <3>3, <3>4 DEF Passed, Waits, WorkOf
      <3> QED BY <3>2, <3>5, <3>6
    <2>6. CASE GiveBack \/ AskLook
      <3>1. /\ hand'.on = hand.on /\ hand'.at = hand.at /\ hand'.covers = hand.covers
            /\ hand'.queries = hand.queries /\ hand'.pictures = hand.pictures
            /\ hand'.refused = hand.refused
        BY <2>6 DEF GiveBack, AskLook, Types, Job
      <3>2. /\ InHand /\ InHand' /\ thread # "waiting" /\ thread' # "waiting"
            /\ UNCHANGED <<given, ran, decode, unanswered>>
        BY <2>6 DEF GiveBack, AskLook, InHand, gpuVars, guestVars
      <3>3. Taken(hand) /\ Passed(hand)
        BY <3>2 DEF Sound
      <3> QED BY <3>1, <3>2, <3>3 DEF Taken, Passed, Standing, WorkOf
    <2>7. CASE Ask \/ Ring
      BY <2>2, <2>7 DEF Ask, Ring, InHand
    <2>8. CASE SleepOrGo \/ Retire
      BY <2>3, <2>8 DEF SleepOrGo, Retire, InHand
    <2>9. CASE Release \/ StopPump
      <3>1. UNCHANGED hand /\ (thread' = thread \/ (thread = "held" /\ thread' = "asking"))
        BY <2>9 DEF Release, StopPump, Roused
      <3> QED BY <3>1, <2>1, <2>2 DEF InHand
    <2>10. CASE StopQueue
      <3>1. UNCHANGED hand /\ (thread' = thread \/ thread' = "looking")
        BY <2>10 DEF StopQueue, Woken
      <3> QED BY <3>1, <2>1, <2>3 DEF InHand
    <2>11. ASSUME NEW on \in contexts \cup {None}, NEW refusal \in {FALSE, MayRefuse},
                 Fence(on, refusal)
           PROVE  HandSound'
      <3>1. UNCHANGED hand /\ (thread' = thread \/ thread' = "looking")
        BY <2>11 DEF Fence, Woken
      <3> QED BY <3>1, <2>1, <2>3 DEF InHand
    <2> HIDE DEF HandSound
    <2> QED BY <2>1, <2>4, <2>5, <2>6, <2>7, <2>8, <2>9, <2>10, <2>11 DEF Next, vars, Waiter, Serve,
      gpuVars, vmmVars, queueVars, Gpu, Land, ContextDestroy, Transfer, Submit, GateOver, Subscribe,
      Drain, Look, Check, Join
  <1> QED BY <1>1, <1>2 DEF Sound

\* Where a fence that asked is, until it is let go.
AtPump == {"ring", "asking", "held"}

-----------------------------------------------------------------------------
(* The pump                                                                *)

\* Answered as far as they go, the queries of the fence in hand stay so.
LEMMA Aged ==
  ASSUME Flow, Flow', Grows, Types, Order, Sound, UNCHANGED hand, InHand, Answering(hand)
  PROVE  Answering(hand)'
  <1>1. PICK j \in Job : j = hand
    BY DEF Types
  <1>2. Answering(j)'
    BY <1>1, JobsAge DEF Sound
  <1> QED BY <1>1, <1>2 DEF Answering, Standing

\* Every step keeps the pump honest: a look taken before the ring does not count it, and a
\* look taken after it checks a queue that has run.
LEMMA PumpKept ==
  ASSUME Flow, Flow', Grows, Types, Order, Sound, Pump, [Next]_vars
  PROVE  Pump'
  <1> USE DEF AtPump
  <1>0. asked \in Nat /\ served \in Nat /\ target \in Nat /\ last \in Nat
    BY DEF Types
  <1>1. ASSUME UNCHANGED <<asked, served, target, hand, last>>,
               vmm' = vmm \/ vmm' \notin {"looked", "checked"},
               \/ thread' = thread
               \/ thread \in {"looking", "asleep"} /\ thread' \in {"looking", "asleep", "gone"}
               \/ thread \in {"held", "ring"} /\ thread' = "asking"
        PROVE  Pump'
    <2>1. thread' \in AtPump \cup {"retire"} => InHand /\ (thread' = "retire" => thread = "retire")
                                      /\ (thread' \in AtPump => thread \in AtPump)
      BY <1>1 DEF InHand
    <2>2. thread' \in AtPump \cup {"retire"} /\ Answering(hand) => Answering(hand)'
      BY <1>1, <2>1, Aged
    <2>3. thread' = "ask" => thread = "ask"
      BY <1>1
    <2>4. /\ thread' \in AtPump /\ served' = asked' => Answering(hand)'
          /\ thread' \in AtPump /\ vmm' = "checked" /\ target' = asked' => Answering(hand)'
          /\ thread' = "retire" => hand'.let = TRUE \/ Answering(hand)'
      BY <1>1, <2>1, <2>2 DEF Pump
    <2>5. asked <= last + (IF thread' \in AtPump \cup {"retire"} THEN 1 ELSE 0)
      <3>1. (thread' \in AtPump \cup {"retire"}) <=> (thread \in AtPump \cup {"retire"})
        BY <1>1
      <3> QED BY <3>1 DEF Pump
    <2>6. thread' \in {"ask", "ring", "asking", "held"} => hand'.queries = TRUE
      BY <1>1, <2>1, <2>3 DEF Pump
    <2> QED BY <1>1, <2>4, <2>5, <2>6 DEF Pump
  <1>2. CASE Ask
    <2>1. /\ thread = "ask" /\ thread' = "ring" /\ asked' = asked + 1
          /\ UNCHANGED <<served, target, hand, last, vmm>>
      BY <1>2 DEF Ask, vmmVars
    <2>2. served # asked + 1 /\ (vmm = "checked" => target # asked + 1)
      BY <1>0 DEF Pump
    <2>3. served <= asked + 1 /\ (vmm \in {"looked", "checked"} => target <= asked + 1)
      BY <1>0 DEF Pump
    <2>4. asked <= last
      BY <2>1, <1>0 DEF Pump
    <2> QED BY <2>1, <2>2, <2>3, <2>4, <1>0 DEF Pump
  <1>3. CASE GiveBack
    <2>1. /\ thread = "passed" /\ UNCHANGED <<asked, served, target, last, vmm, unanswered>>
          /\ thread' = IF hand.queries THEN "ask" ELSE "retire"
          /\ hand'.queries = hand.queries /\ hand'.covers = hand.covers
          /\ hand'.refused = hand.refused
      BY <1>3 DEF GiveBack, vmmVars, pumpVars, guestVars, Types, Job
    <2>2. hand.queries \in BOOLEAN /\ Taken(hand)
      BY <2>1 DEF Types, Job, Sound, InHand
    <2>3. thread' = "retire" => Answering(hand)'
      <3>1. hand.queries = FALSE => Standing(hand) = {}
        BY <2>2 DEF Taken
      <3>2. thread' = "retire" => Standing(hand)' = {}
        BY <2>1, <2>2, <3>1 DEF Standing
      <3> QED BY <3>2 DEF Answering
    <2>4. thread' = "ask" => hand'.queries = TRUE
      BY <2>1, <2>2
    <2>5. asked <= last
      BY <2>1, <1>0 DEF Pump
    <2>6. thread' \in {"ask", "retire"}
      BY <2>1
    <2> QED BY <2>1, <2>3, <2>4, <2>5, <2>6, <1>0 DEF Pump
  <1>4. CASE AskLook
    <2>1. /\ thread = "asking" /\ UNCHANGED <<asked, served, target, last, vmm, unanswered>>
          /\ thread' = IF served >= asked \/ pumpStopped THEN "retire" ELSE "held"
          /\ hand'.queries = hand.queries /\ hand'.covers = hand.covers
          /\ hand'.refused = hand.refused
          /\ hand'.let = (~(served >= asked) /\ pumpStopped)
      BY <1>4 DEF AskLook, Answered, vmmVars, pumpVars, guestVars, Types, Job
    <2>2. Answering(hand) => Answering(hand)'
      BY <2>1 DEF Answering, Standing
    <2>3. served = asked \/ ~(served >= asked)
      BY <1>0 DEF Pump
    <2>4. served = asked => Answering(hand)
      BY <2>1 DEF Pump
    <2>5. thread' = "retire" => hand'.let = TRUE \/ Answering(hand)'
      <3>1. CASE served = asked
        BY <3>1, <2>2, <2>4
      <3>2. CASE ~(served >= asked)
        BY <3>2, <2>1
      <3> QED BY <3>1, <3>2, <2>3
    <2>6. thread' \in {"retire", "held"} /\ hand'.queries = TRUE
      BY <2>1 DEF Pump
    <2>7. vmm' = "checked" /\ target' = asked' => Answering(hand)'
      BY <2>1, <2>2 DEF Pump
    <2>8. served' = asked' => Answering(hand)'
      BY <2>1, <2>2, <2>4
    <2> QED BY <2>1, <2>5, <2>6, <2>7, <2>8 DEF Pump
  <1>5. CASE Retire
    <2>1. thread = "retire" /\ thread' = "looking" /\ UNCHANGED <<asked, served, target, vmm>>
          /\ last' = hand.id
      BY <1>5 DEF Retire, vmmVars, pumpVars
    <2>2. hand.id = last + 1
      BY <2>1 DEF Order, InHand
    <2>3. asked <= last'
      BY <2>1, <2>2 DEF Pump
    <2>4. asked <= last' + 0
      BY <2>1, <2>2, <2>3, <1>0
    <2> QED BY <2>1, <2>4 DEF Pump
  <1>6. CASE WaitOut \/ Pop
    <2>1. /\ thread' \in {"passed", "waiting"} /\ thread \in {"waiting", "looking"}
          /\ UNCHANGED <<asked, served, target, vmm, last>>
      BY <1>6 DEF WaitOut, Pop, vmmVars, pumpVars
    <2> QED BY <2>1 DEF Pump
  <1>7. CASE Look
    <2>1. UNCHANGED <<asked, served, hand, last, thread>> /\ vmm' = "looked" /\ target' = asked
      BY <1>7 DEF Look, pumpVars
    <2>2. thread \in AtPump \cup {"retire"} /\ Answering(hand) => Answering(hand)'
      BY <2>1, Aged DEF InHand
    <2> QED BY <2>1, <2>2, <1>0 DEF Pump
  <1>8. CASE Check
    <2>1. /\ UNCHANGED <<asked, served, hand, last, thread, target>>
          /\ vmm = "looked" /\ vmm' = "checked"
          /\ unanswered' = AnswerParked(ran)
      BY <1>8 DEF Check, pumpVars
    <2>2. thread \in AtPump \cup {"retire"} /\ Answering(hand) => Answering(hand)'
      BY <2>1, Aged DEF InHand
    <2>3. thread \in AtPump => Answering(hand)'
      <3> SUFFICES ASSUME thread \in AtPump, NEW p \in hand.covers, NEW c \in Contexts,
                          p \in unanswered'[c]
                   PROVE  p[1] \in hand.refused
        BY <2>1 DEF Answering, Standing
      <3>1. hand.queries = TRUE /\ Taken(hand) /\ Passed(hand)
        BY DEF Pump, Sound, InHand
      <3>2. hand.on # None /\ p[1] \in WorkOf(hand.on) /\ p[2] <= hand.at[p[1]]
        BY <3>1 DEF Taken
      <3>3. ran[p[1]] < p[2]
        BY <2>1 DEF AnswerParked
      <3>4. p[1] \in Queues /\ p[2] \in Nat /\ hand.at[p[1]] \in Nat /\ ran[p[1]] \in Nat
        BY DEF Types, Job, Flow
      <3>5. ~(ran[p[1]] >= hand.at[p[1]])
        BY <3>2, <3>3, <3>4
      <3> QED BY <3>1, <3>2, <3>5 DEF Passed
    <2> QED BY <2>1, <2>2, <2>3 DEF Pump
  <1>9. CASE Release
    <2>1. /\ vmm = "checked" /\ vmm' = "idle" /\ thread # "ring" /\ target' = 0
          /\ UNCHANGED <<asked, hand, last>> /\ thread' = Roused
          /\ served' = (IF target > served THEN target ELSE served)
      BY <1>9 DEF Release, Counted, PumpFree
    <2>2. target <= asked /\ served <= asked
      BY <2>1 DEF Pump
    <2>3. served' <= asked /\ (served' = asked => target = asked \/ served = asked)
      BY <2>1, <2>2, <1>0
    <2>4. thread' \in AtPump => thread \in AtPump
      BY <2>1 DEF Roused
    <2>5. thread' = "retire" => thread = "retire"
      BY <2>1 DEF Roused
    <2>6. thread' \in AtPump \cup {"retire"} /\ Answering(hand) => Answering(hand)'
      BY <2>1, <2>4, <2>5, Aged DEF InHand
    <2>7. thread' \in AtPump /\ served' = asked => Answering(hand)'
      BY <2>1, <2>3, <2>4, <2>6 DEF Pump
    <2>8. asked <= last + (IF thread' \in AtPump \cup {"retire"} THEN 1 ELSE 0)
      <3>1. (thread' \in AtPump \cup {"retire"}) <=> (thread \in AtPump \cup {"retire"})
        BY <2>1 DEF Roused
      <3> QED BY <3>1 DEF Pump
    <2>9. thread' \in {"ask", "ring", "asking", "held"} => hand'.queries = TRUE
      BY <2>1 DEF Roused, Pump
    <2>10. thread' = "retire" => hand'.let = TRUE \/ Answering(hand)'
      BY <2>1, <2>5, <2>6 DEF Pump
    <2> QED BY <2>1, <2>3, <2>7, <2>8, <2>9, <2>10 DEF Pump
  <1>10. CASE StopPump
    <2>1. UNCHANGED <<asked, served, target, hand, last>> /\ vmm' = "joining"
          /\ (thread' = thread \/ (thread = "held" /\ thread' = "asking"))
      BY <1>10 DEF StopPump, Roused
    <2> QED BY <2>1, <1>1
  <1>11. CASE StopQueue
    <2>1. UNCHANGED <<asked, served, target, hand, last>> /\ vmm' = "stopping"
          /\ (thread' = thread \/ (thread = "asleep" /\ thread' = "looking"))
      BY <1>11 DEF StopQueue, Woken, pumpVars
    <2> QED BY <2>1, <1>1
  <1>12. CASE Drain
    BY <1>1, <1>12 DEF Drain
  <1>13. ASSUME NEW on \in contexts \cup {None}, NEW refusal \in {FALSE, MayRefuse},
                Fence(on, refusal)
         PROVE  Pump'
    <2>1. UNCHANGED <<asked, served, target, hand, last, vmm>>
          /\ (thread' = thread \/ (thread = "asleep" /\ thread' = "looking"))
      BY <1>13 DEF Fence, Woken, pumpVars, vmmVars
    <2> QED BY <2>1, <1>1
  <1>14. CASE SleepOrGo
    <2>1. UNCHANGED <<asked, served, target, hand, last, vmm>>
          /\ thread = "looking" /\ thread' \in {"gone", "asleep"}
      BY <1>14 DEF SleepOrGo, pumpVars, vmmVars
    <2> QED BY <2>1, <1>1
  <1>15. CASE Ring
    BY <1>1, <1>15 DEF Ring, vmmVars
  <1>16. ASSUME NEW b \in Batches, Submit(b) PROVE Pump'
    <2>1. UNCHANGED <<asked, served, target, hand, last, thread>> /\ vmm' \in {"gate", vmm}
      BY <1>16 DEF Submit, pumpVars
    <2> QED BY <2>1, <1>1
  <1>17. CASE GateOver \/ Join
    <2>1. UNCHANGED <<asked, served, target, hand, last, thread>> /\ vmm' \in {"idle", "over"}
      BY <1>17 DEF GateOver, Join, pumpVars
    <2> QED BY <2>1, <1>1
  <1>18. CASE UNCHANGED <<asked, served, target, hand, last, thread, vmm>>
    BY <1>18, <1>1
  <1> QED BY <1>2, <1>3, <1>4, <1>5, <1>6, <1>7, <1>8, <1>9, <1>10, <1>11, <1>12, <1>13, <1>14,
    <1>15, <1>16, <1>17, <1>18 DEF Next, vars, Waiter, Serve, gpuVars, vmmVars, pumpVars, Gpu, Land,
    ContextDestroy, Transfer, Subscribe

\* No step loses a ring: the byte is written after the count and read before it.
LEMMA BellStays == Types /\ BellKept /\ [Next]_vars => BellKept'
  <1> SUFFICES ASSUME Types, BellKept, [Next]_vars PROVE BellKept'
    OBVIOUS
  <1>0. asked \in Nat /\ served \in Nat /\ target \in Nat
    BY DEF Types
  <1>1. CASE /\ UNCHANGED <<asked, served, target, pumpStopped, bell, vmm>>
             /\ thread' \in {"asking", "held"} => thread \in {"asking", "held"}
    BY <1>1 DEF BellKept, Answered
  <1>2. CASE Ask
    BY <1>2 DEF Ask, BellKept
  <1>3. CASE Ring
    BY <1>3 DEF Ring, Rung, BellKept
  <1>4. CASE AskLook \/ GiveBack \/ Retire \/ Pop \/ WaitOut \/ SleepOrGo
    BY <1>1, <1>4 DEF AskLook, GiveBack, Retire, Pop, WaitOut, SleepOrGo, pumpVars, vmmVars
  <1>5. CASE Drain
    BY <1>5 DEF Drain, BellKept
  <1>6. CASE Look
    BY <1>6, <1>0 DEF Look, BellKept, pumpVars
  <1>7. CASE Check
    BY <1>7 DEF Check, BellKept, Answered, pumpVars
  <1>8. CASE Release
    <2>1. /\ vmm = "checked" /\ UNCHANGED <<asked, pumpStopped, bell>>
          /\ served' = (IF target > served THEN target ELSE served)
          /\ thread' \in {"asking", "held"} => thread \in {"asking", "held"}
      BY <1>8 DEF Release, Counted, Roused
    <2> SUFFICES ASSUME thread' \in {"asking", "held"}, ~(served' >= asked'), ~pumpStopped', ~bell'
                 PROVE  FALSE
      BY DEF BellKept, Answered
    <2>2. ~(served >= asked)
      BY <2>1, <1>0
    <2>3. target >= asked
      BY <2>1, <2>2 DEF BellKept, Answered
    <2> QED BY <2>1, <2>3, <1>0
  <1>9. CASE StopPump
    BY <1>9 DEF StopPump, BellKept
  <1>10. CASE StopQueue
    BY <1>10 DEF StopQueue, Woken, BellKept, Answered, pumpVars
  <1>11. ASSUME NEW b \in Batches, Submit(b) PROVE BellKept'
    BY <1>11 DEF Submit, BellKept, Answered, pumpVars
  <1>12. CASE GateOver \/ Join
    BY <1>12 DEF GateOver, Join, BellKept, Answered, pumpVars
  <1>13. ASSUME NEW on \in contexts \cup {None}, NEW refusal \in {FALSE, MayRefuse},
                Fence(on, refusal)
         PROVE  BellKept'
    BY <1>13, <1>1 DEF Fence, Woken, pumpVars, vmmVars
  <1> QED BY <1>1, <1>2, <1>3, <1>4, <1>5, <1>6, <1>7, <1>8, <1>9, <1>10, <1>11, <1>12, <1>13
       DEF Next, vars, Waiter, Serve, gpuVars, vmmVars, pumpVars, Gpu, Land,
       ContextDestroy, Transfer, Subscribe

-----------------------------------------------------------------------------
(* What every state keeps                                                  *)

\* The invariant holds at the start.
LEMMA Starts == Init => Inv
  <1> SUFFICES ASSUME Init PROVE Inv
    OBVIOUS
  <1> USE DEF Init
  <1>1. ~InHand /\ Ahead = 0
    BY DEF InHand, Ahead
  <1>2. Flow
    BY DEF Flow
  <1>3. WantKept
    BY DEF WantKept
  <1>4. Types
    <2>1. jobs \in Seq(Job) /\ hand \in Job /\ inFlight \in [Contexts -> Nat] /\ 0 \in 0..MaxFences
      BY NoJobIs, ClassicConstants
    <2> QED BY <2>1 DEF Types
  <1>5. Order
    BY <1>1 DEF Order
  <1>6. Counts /\ GivenBack
    <2>1. \A c \in Contexts : {i \in 1..Len(jobs) : jobs[i].ticket = c} = {} /\ hand.ticket # c
      BY NoJobIs, ClassicConstants
    <2> QED BY <2>1, FS_EmptySet DEF Counts, GivenBack
  <1>7. Sound /\ Pump /\ BellKept
    BY <1>1 DEF Sound, Pump, BellKept
  <1> QED BY <1>2, <1>3, <1>4, <1>5, <1>6, <1>7 DEF Inv

\* Every step keeps it.
LEMMA StepKeeps == Inv /\ [Next]_vars => Inv'
  <1> SUFFICES ASSUME Inv, [Next]_vars PROVE Inv'
    OBVIOUS
  <1> USE DEF Inv
  <1>1. Flow' /\ Grows /\ WantKept'
    BY FlowKept, WantStays
  <1>2. Types' /\ Order' /\ Counts' /\ GivenBack'
    BY TypesKept, OrderKept, CountsKept
  <1>3. Sound' /\ Pump' /\ BellKept'
    BY <1>1, <1>2, SoundKept, PumpKept, BellStays
  <1> QED BY <1>1, <1>2, <1>3

\* The first n numbers are n.
LEMMA UpTo == ASSUME NEW n \in Nat PROVE IsFiniteSet(1..n) /\ Cardinality(1..n) = n
  <1>1. IsFiniteSet(1..n) /\ Cardinality(1..n) = IF 1 > n THEN 0 ELSE n - 1 + 1
    BY FS_Interval
  <1> QED BY <1>1

\* It gives the types, and with Order the bounds on what is counted.
LEMMA WellTyped == Inv => TypeOK
  <1> SUFFICES ASSUME Inv PROVE TypeOK
    OBVIOUS
  <1> USE DEF Inv
  <1>1. /\ given \in [Queues -> Nat] /\ \A q \in Queues : ran[q] \in 0..given[q]
        /\ decode \in [Contexts -> {"none", "flying", "landed"}]
        /\ contexts \subseteq Contexts
        /\ \A c \in Contexts : unanswered[c] \subseteq SubsOf[c] \X (Nat \ {0})
    BY DEF Flow
  <1>2. /\ Len(jobs) \in Nat /\ made = last + Ahead + Len(jobs) /\ made \in 0..MaxFences
        /\ last \in Nat
        /\ MaxFences \in Nat /\ Ahead \in {0, 1}
    BY ClassicConstants DEF Types, Order, Ahead
  <1>3. last \in 0..made
    BY <1>2
  <1>4. (hand = NoJob) <=> thread \in {"looking", "asleep", "gone"}
    BY <1>2, NoJobIs DEF Order, InHand
  <1>5. inFlight \in [Contexts -> 0..MaxFences]
    <2> SUFFICES ASSUME NEW c \in Contexts PROVE inFlight[c] \in 0..MaxFences
      BY DEF Types
    <2> DEFINE S == {i \in 1..Len(jobs) : jobs[i].ticket = c}
    <2>1. IsFiniteSet(1..Len(jobs)) /\ Cardinality(1..Len(jobs)) = Len(jobs)
      BY <1>2, UpTo
    <2>2. Cardinality(S) \in Nat /\ Cardinality(S) <= Len(jobs)
      BY <2>1, FS_Subset, FS_CardinalityType
    <2>3. hand.ticket = c => Ahead = 1
      BY NoJobIs, ClassicConstants DEF Order, Ahead
    <2>4. inFlight[c] = Cardinality(S) + (IF hand.ticket = c THEN 1 ELSE 0)
      BY DEF Counts
    <2> HIDE DEF S
    <2> QED BY <1>2, <2>2, <2>3, <2>4
  <1>6. served <= asked /\ asked <= MaxFences
    <2>1. asked <= last + Ahead
      BY <1>2 DEF Pump, Ahead, InHand, Types
    <2> QED BY <2>1, <1>2 DEF Pump, Types
  <1> QED BY <1>1, <1>2, <1>3, <1>4, <1>5, <1>6 DEF Types, WantKept, TypeOK

\* A fence that is to be retired has been waited for.
LEMMA Means == Inv => MeansRan
  BY DEF Inv, Sound, Passed, InHand, MeansRan

\* A fence that is to be retired was let go, or its queries were checked.
LEMMA Answers == Inv => QueriesAnswered
  BY DEF Inv, Pump, Answering, Standing, QueriesAnswered

\* Every part of the invariant holds in every state (waiter.rs, in_flight.rs, Vrend).
THEOREM Invariance == Spec => []Inv
  BY Starts, StepKeeps, PTL DEF Spec

\* A classic fence means the GL work it fences has run: each queue of its context and ctx0,
\* through a sync or a glFinish, and its pictures (decide_fence, run).
THEOREM FencesMeanRan == Spec => []MeansRan
  BY Invariance, Means, PTL

\* A retired fence leaves no query it covers unanswered, unless the waiter was dropped or the
\* driver refused the wait (get_query_result, Pump::serve).
THEOREM QueriesComeFirst == Spec => []QueriesAnswered
  BY Invariance, Answers, PTL

\* A ring not answered is readable or about to be counted (Pump::ask, Pump::serve).
THEOREM RingsKept == Spec => []BellKept
  <1>1. Inv => BellKept
    BY DEF Inv
  <1> QED BY <1>1, Invariance, PTL

\* The bound counts the fences still to be passed, and the variables have their types
\* (in_flight.rs, Ticket).
THEOREM GateAlwaysHasReason == Spec => []GateHasReason
  <1>1. Inv => GateHasReason
    BY WellTyped DEF Inv, GateHasReason, Counts
  <1> QED BY <1>1, Invariance, PTL

-----------------------------------------------------------------------------
(* The order of fences                                                     *)

\* Making a fence makes the next, retiring one answers the next, nothing else counts.
LEMMA StepImplements == Inv /\ [Next]_vars => [FO!Next]_(FO!vars)
  <1> SUFFICES ASSUME Inv, [Next]_vars PROVE [FO!Next]_(FO!vars)
    OBVIOUS
  <1> USE DEF Inv
  <1>1. CASE UNCHANGED <<made, last>>
    BY <1>1 DEF FO!vars
  <1>2. ASSUME NEW on \in contexts \cup {None}, NEW refusal \in {FALSE, MayRefuse},
               Fence(on, refusal)
        PROVE  FO!Make(None)
    BY <1>2 DEF Fence, FO!Make
  <1>3. CASE Retire
    <2>1. last' = hand.id /\ hand.id = last + 1 /\ Ahead = 1 /\ made' = made
      BY <1>3 DEF Retire, Order, InHand, Ahead
    <2>2. last < made
      BY <2>1 DEF Order, Types
    <2>3. [s \in {None} |-> last]' = [[s \in {None} |-> last] EXCEPT ![None] = @ + 1]
      BY <2>1
    <2>4. FO!Answer(None)
      BY <2>1, <2>2, <2>3 DEF FO!Answer
    <2> QED BY <2>4 DEF FO!Next
  <1> QED BY <1>1, <1>2, <1>3 DEF Next, vars, Waiter, Serve, Gpu, Land, ContextDestroy, Transfer,
    Submit, GateOver, Subscribe, Drain, Look, Check, Join, SleepOrGo, WaitOut, GiveBack, Ask, Ring,
    AskLook, Pop, Release, StopQueue, StopPump, FO!Next, vmmVars

\* Fences of every context and of the global path are retired in the order they were made.
THEOREM ImplementsSafety == Spec => FO!Safety
  <1>1. Init => FO!Init
    BY DEF Init, FO!Init
  <1> QED BY <1>1, Invariance, StepImplements, PTL DEF Spec, FO!Safety
=============================================================================
