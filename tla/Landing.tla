------------------------------- MODULE Landing -------------------------------
(***************************************************************************)
(* src/vrend/video/pending.rs: pictures on their way from the codecs'      *)
(* decode threads (src/vrend/video/mod.rs) into the textures they were     *)
(* decoded for, and the barrier that has every command find a texture as   *)
(* if each decode had finished at its END_FRAME.                           *)
(*                                                                         *)
(* The render thread runs the commands.  A command on a texture is told    *)
(* here by what it leaves there: its own stamp if it writes, nothing if it *)
(* reads.  A target is one texture; a target of several planes is as many, *)
(* distinct ones (nothing refuses a target that names a plane twice, whose *)
(* second attach would wait for a job not yet sent).                       *)
(***************************************************************************)
EXTENDS Integers, Sequences, FiniteSetsExt

CONSTANTS Targets,   \* the textures decoded into
          Codecs,    \* each with its decode thread
          Depth,     \* QUEUE_DEPTH
          MaxOps     \* bound on the decodes and writes

Ops == 1..MaxOps

VARIABLES
  ops,      \* how many there have been: the stamp of the newest
  op,       \* each one's texture, and for a decode where it is and what it yields
  slot,     \* Slot: the decode pending on each texture, or 0
  counted,  \* Unsettled::pending
  holds,    \* the stamp of what each texture holds
  composite, \* the textures the decode thread writes; the rest the render thread uploads
  live,     \* the textures not destroyed
  queue,    \* each codec's jobs, oldest first
  hand,     \* the job its thread is at, or 0
  newest,   \* Decoder::newest, or 0
  render,   \* where the render thread is, at which texture, waiting for which job
  fence,    \* the job the fence waiter waits for, or 0
  asleep    \* "render" and "fence", when they sleep on a landing

jobVars    == <<ops, op, queue, hand, newest>>
slotVars   == <<slot, counted, holds, composite, live>>
waitVars   == <<render, fence, asleep>>
vars == <<jobVars, slotVars, waitVars>>

NoOp == [on |-> "none", stage |-> "none", picture |-> FALSE]
Idle == [at |-> "idle", on |-> "none", job |-> 0, codec |-> "none"]

Init ==
  /\ ops = 0 /\ op = [j \in Ops |-> NoOp]
  /\ slot = [t \in Targets |-> 0] /\ counted = 0 /\ holds = [t \in Targets |-> 0]
  /\ composite \in SUBSET Targets /\ live = Targets
  /\ queue = [c \in Codecs |-> <<>>] /\ hand = [c \in Codecs |-> 0]
  /\ newest = [c \in Codecs |-> 0]
  /\ render = Idle /\ fence = 0 /\ asleep = {}

Landed(j) == op[j].stage = "landed"

\* Slips, each the mutant of a definition below: a decode replaced and not delivered;
\* one waiter woken where there may be two.
Forgotten(j, t) == holds[t]
WakesOne(who) == IF "fence" \in who THEN {"fence"} ELSE who

-----------------------------------------------------------------------------
(* Delivery                                                                *)

\* deliver: what the texture holds once a landed decode has been delivered into it. The
\* decode thread has written a composite target itself.
Delivered(j, t) == IF op[j].picture /\ t \notin composite THEN j ELSE holds[t]

\* What it holds once a decode replaced by another has been.
Replaced(j, t) == Delivered(j, t)

\* deliver_landed, and all of settle_video's: every landed decode is delivered.
Settled == {t \in live : slot[t] # 0 /\ Landed(slot[t])}
DeliveredAll == [t \in Targets |-> IF t \in Settled THEN Delivered(slot[t], t) ELSE holds[t]]
SlotsLeft == [t \in Targets |-> IF t \in Settled THEN 0 ELSE slot[t]]

-----------------------------------------------------------------------------
(* END_FRAME, on the render thread                                         *)

\* It delivers what has landed and attaches the decode to its target: Slot::attach...
EndFrame(c, t) ==
  /\ render = Idle /\ ops < MaxOps /\ t \in live
  /\ ops' = ops + 1
  /\ op' = [op EXCEPT ![ops + 1] = [on |-> t, stage |-> "sent", picture |-> FALSE]]
  /\ holds' = DeliveredAll
  /\ slot' = [SlotsLeft EXCEPT ![t] = ops + 1]
  /\ counted' = counted - Cardinality(Settled) + 1
  /\ render' = [at |-> IF SlotsLeft[t] = 0 THEN "send" ELSE "replace", on |-> t,
                job |-> SlotsLeft[t], codec |-> c]
  /\ UNCHANGED <<composite, live, queue, hand, newest, fence, asleep>>

\* ...which first delivers the one it found there, waiting for it...
Replace ==
  /\ render.at = "replace" /\ Landed(render.job)
  /\ holds' = [holds EXCEPT ![render.on] = Replaced(render.job, render.on)]
  /\ counted' = counted - 1
  /\ render' = [render EXCEPT !.at = "send"]
  /\ UNCHANGED <<jobVars, slot, composite, live, fence, asleep>>

\* ...and the job is sent, once the codec's queue has room.
Send ==
  /\ render.at = "send" /\ Len(queue[render.codec]) < Depth
  /\ queue' = [queue EXCEPT ![render.codec] = Append(@, ops)]
  /\ newest' = [newest EXCEPT ![render.codec] = ops]
  /\ render' = Idle
  /\ UNCHANGED <<ops, op, hand, slotVars, fence, asleep>>

-----------------------------------------------------------------------------
(* Every other command                                                     *)

\* settle: the barrier is one load when nothing is unsettled anywhere. What is pending
\* is taken out before it is waited for.
Command(t) ==
  /\ render = Idle /\ t \in live
  /\ LET pending == IF counted = 0 THEN 0 ELSE slot[t] IN
       /\ slot' = IF pending = 0 THEN slot ELSE [slot EXCEPT ![t] = 0]
       /\ render' = [Idle EXCEPT !.at = IF pending = 0 THEN "use" ELSE "settle",
                                 !.on = t, !.job = pending]
  /\ UNCHANGED <<jobVars, counted, holds, composite, live, fence, asleep>>

Settle ==
  /\ render.at = "settle" /\ Landed(render.job)
  /\ holds' = [holds EXCEPT ![render.on] = Delivered(render.job, render.on)]
  /\ counted' = counted - 1
  /\ render' = [Idle EXCEPT !.at = "use", !.on = render.on]
  /\ UNCHANGED <<jobVars, slot, composite, live, fence, asleep>>

Read ==
  /\ render.at = "use"
  /\ render' = Idle
  /\ UNCHANGED <<jobVars, slotVars, fence, asleep>>

Write ==
  /\ render.at = "use" /\ ops < MaxOps
  /\ ops' = ops + 1
  /\ op' = [op EXCEPT ![ops + 1] = [on |-> render.on, stage |-> "landed", picture |-> TRUE]]
  /\ holds' = [holds EXCEPT ![render.on] = ops + 1]
  /\ render' = Idle
  /\ UNCHANGED <<queue, hand, newest, slot, counted, composite, live, fence, asleep>>

\* A texture goes with what is pending on it; the decode thread keeps what it writes.
DestroyTexture(t) ==
  /\ render = Idle /\ t \in live
  /\ live' = live \ {t}
  /\ slot' = [slot EXCEPT ![t] = 0]
  /\ counted' = IF slot[t] = 0 THEN counted ELSE counted - 1
  /\ UNCHANGED <<jobVars, holds, composite, waitVars>>

\* Decoder::drop closes the queue and joins the thread...
DestroyCodec(c) ==
  /\ render = Idle
  /\ render' = [Idle EXCEPT !.at = "join", !.codec = c]
  /\ UNCHANGED <<jobVars, slotVars, fence, asleep>>

\* ...which has run every job.
Join ==
  /\ render.at = "join" /\ queue[render.codec] = <<>> /\ hand[render.codec] = 0
  /\ newest' = [newest EXCEPT ![render.codec] = 0]
  /\ render' = Idle
  /\ UNCHANGED <<ops, op, queue, hand, slotVars, fence, asleep>>

\* settle_video: every codec's newest decode has landed, and then every texture settles.
Drain ==
  /\ render = Idle
  /\ render' = [Idle EXCEPT !.at = "drain"]
  /\ UNCHANGED <<jobVars, slotVars, fence, asleep>>

DrainAll ==
  /\ render.at = "drain" /\ \A c \in Codecs : newest[c] # 0 => Landed(newest[c])
  /\ holds' = DeliveredAll /\ slot' = SlotsLeft /\ counted' = counted - Cardinality(Settled)
  /\ render' = [Idle EXCEPT !.at = "drained"]
  /\ UNCHANGED <<jobVars, composite, live, fence, asleep>>

Drained ==
  /\ render.at = "drained"
  /\ render' = Idle
  /\ UNCHANGED <<jobVars, slotVars, fence, asleep>>

-----------------------------------------------------------------------------
(* The decode threads                                                      *)

Decode(c) ==
  /\ hand[c] = 0 /\ queue[c] # <<>>
  /\ hand' = [hand EXCEPT ![c] = Head(queue[c])]
  /\ queue' = [queue EXCEPT ![c] = Tail(@)]
  /\ UNCHANGED <<ops, op, newest, slotVars, waitVars>>

\* decode_one: the decode yields a picture or nothing; a composite target's is written
\* here.
DecodeOne(c) ==
  /\ hand[c] # 0 /\ op[hand[c]].stage = "sent"
  /\ \E picture \in BOOLEAN :
       LET t == op[hand[c]].on IN
         /\ op' = [op EXCEPT ![hand[c]].stage = "decoded", ![hand[c]].picture = picture]
         /\ holds' = IF picture /\ t \in composite THEN [holds EXCEPT ![t] = hand[c]] ELSE holds
  /\ UNCHANGED <<ops, queue, hand, newest, slot, counted, composite, live, waitVars>>

WaitsFor(who, j) == \/ who = "fence" /\ fence = j
                    \/ who = "render" /\ render.job = j

Woken(who) == who

\* Landing::land
Land(c) ==
  /\ hand[c] # 0 /\ op[hand[c]].stage = "decoded"
  /\ op' = [op EXCEPT ![hand[c]].stage = "landed"]
  /\ asleep' = asleep \ Woken({who \in asleep : WaitsFor(who, hand[c])})
  /\ hand' = [hand EXCEPT ![c] = 0]
  /\ UNCHANGED <<ops, queue, newest, slotVars, render, fence>>

-----------------------------------------------------------------------------
(* Waiting for a landing, and the fence waiter                             *)

\* landed_guard: asleep until a notify, with the stage looked at again.
Sleep(who) ==
  /\ who \notin asleep
  /\ \/ who = "fence" /\ fence # 0 /\ ~Landed(fence)
     \/ who = "render" /\ render.at \in {"replace", "settle"} /\ ~Landed(render.job)
  /\ asleep' = asleep \cup {who}
  /\ UNCHANGED <<jobVars, slotVars, render, fence>>

\* A fence made now is not retired before what a codec has in flight.
Fence(c) ==
  /\ render = Idle /\ fence = 0 /\ newest[c] # 0 /\ ~Landed(newest[c])
  /\ fence' = newest[c]
  /\ UNCHANGED <<jobVars, slotVars, render, asleep>>

Retire ==
  /\ fence # 0 /\ Landed(fence) /\ "fence" \notin asleep
  /\ fence' = 0
  /\ UNCHANGED <<jobVars, slotVars, render, asleep>>

Render == /\ "render" \notin asleep
          /\ Replace \/ Send \/ Settle \/ Read \/ Write \/ Join \/ DrainAll \/ Drained

Thread(c) == Decode(c) \/ DecodeOne(c) \/ Land(c)

Next == \/ \E c \in Codecs, t \in Targets : EndFrame(c, t)
        \/ \E t \in Targets : Command(t) \/ DestroyTexture(t)
        \/ \E c \in Codecs : DestroyCodec(c) \/ Thread(c) \/ Fence(c)
        \/ Render \/ Drain \/ Retire
        \/ \E who \in {"render", "fence"} : Sleep(who)

\* A decode takes a bounded time; the threads run.
Fairness == WF_vars(Render) /\ WF_vars(Retire) /\ \A c \in Codecs : WF_vars(Thread(c))

Spec == Init /\ [][Next]_vars /\ Fairness

-----------------------------------------------------------------------------
(* Properties                                                              *)

TypeOK ==
  /\ ops \in {0} \cup Ops
  /\ op \in [Ops -> [on : Targets \cup {"none"}, stage : {"none", "sent", "decoded", "landed"},
                     picture : BOOLEAN]]
  /\ slot \in [Targets -> {0} \cup Ops] /\ counted \in Int
  /\ holds \in [Targets -> {0} \cup Ops] /\ composite \subseteq Targets
  /\ live \subseteq Targets
  /\ queue \in [Codecs -> Seq(Ops)] /\ hand \in [Codecs -> {0} \cup Ops]
  /\ newest \in [Codecs -> {0} \cup Ops]
  /\ render.at \in {"idle", "send", "replace", "settle", "use", "join", "drain", "drained"}
  /\ fence \in {0} \cup Ops /\ asleep \subseteq {"render", "fence"}

On(t) == {j \in 1..ops : op[j].on = t}

\* The newest of what was asked of a texture that yielded something.
Latest(t) == Max({0} \cup {j \in On(t) : op[j].picture})

\* Whatever the decoders' order and delays, a command finds its texture as if every
\* decode before it had run at its END_FRAME: none of them is still on its way, and it
\* holds the newest of the pictures and the writes asked of it, a failed decode leaving
\* the one before. So does every texture once settle_video has returned.
InOrder(t) == (\A j \in On(t) : Landed(j)) /\ holds[t] = Latest(t)

ReadsLatest ==
  /\ render.at = "use" => InOrder(render.on)
  /\ render.at = "drained" => \A t \in live : InOrder(t)

\* The count is of the pending entries, so that none is passed over for it.
CountHonest ==
  counted = Cardinality({t \in Targets : slot[t] # 0})
            + (IF render.at \in {"replace", "settle"} THEN 1 ELSE 0)

\* The render thread's every wait ends, and the fence waiter's: two may sleep on one
\* landing, and both are woken.
WaitsEnd == render # Idle ~> render = Idle
FenceEnds == fence # 0 ~> fence = 0
=============================================================================
