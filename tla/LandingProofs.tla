---------------------------- MODULE LandingProofs ----------------------------
(***************************************************************************)
(* A theorem about the pictures on their way, for any textures, codecs,    *)
(* depth of their queues and number of operations: a command finds its     *)
(* texture as if every decode before it had run at its END_FRAME.          *)
(*                                                                         *)
(* What the render thread does when it comes to a texture rests on four    *)
(* facts, none of which holds alone: where each decode on its way is       *)
(* (Threads); that the one in a texture's slot is the newest asked of it,  *)
(* and that any other still on its way is the one being waited for         *)
(* (Slots); that what a texture holds is the newest of what has been       *)
(* delivered to it (Held); and that the count is of the slots, so that     *)
(* the barrier never skips one (CountHonest).                              *)
(***************************************************************************)
EXTENDS Landing, FiniteSetTheorems, SequenceTheorems, TLAPS

-----------------------------------------------------------------------------
(* The inductive invariant                                                 *)

\* What the proofs assume.
Finite == IsFiniteSet(Targets) /\ MaxOps \in Nat

Stages == {"none", "sent", "decoded", "landed"}
Places == {"idle", "send", "replace", "settle", "use", "join", "drain", "drained"}

\* The types of what the commands and the decode threads leave.
Types ==
  /\ ops \in 0..MaxOps
  /\ op \in [Ops -> [on : Targets \cup {"none"}, stage : Stages, picture : BOOLEAN]]
  /\ \A j \in 1..ops : op[j].on \in Targets /\ op[j].stage # "none"
  /\ \A j \in 1..ops : op[j].stage = "sent" => op[j].picture = FALSE
  /\ slot \in [Targets -> 0..ops] /\ counted \in Int
  /\ holds \in [Targets -> 0..ops] /\ composite \in SUBSET Targets /\ live \in SUBSET Targets
  /\ render \in [at : Places, on : Targets \cup {"none"}, job : 0..ops,
                 codec : Codecs \cup {"none"}]

\* A decode that is on its way, and one no codec has been sent yet.
Flying(j) == op[j].stage \in {"sent", "decoded"}
Unsent(j) == render.at \in {"replace", "send"} /\ j = ops

\* A codec's jobs.
At(c) == {j \in 1..ops : hand[c] = j \/ \E i \in 1..Len(queue[c]) : queue[c][i] = j}

\* Each decode on its way is at one place, and a codec's newest is the last of its jobs.
Threads ==
  /\ queue \in [Codecs -> Seq(1..ops)] /\ hand \in [Codecs -> 0..ops]
  /\ newest \in [Codecs -> 0..ops]
  /\ \A c \in Codecs : \A i \in 1..Len(queue[c]) :
       /\ op[queue[c][i]].stage = "sent" /\ ~Unsent(queue[c][i]) /\ hand[c] # queue[c][i]
       /\ \A k \in 1..Len(queue[c]) : queue[c][k] = queue[c][i] => k = i
  /\ \A c \in Codecs : hand[c] # 0 => Flying(hand[c]) /\ ~Unsent(hand[c])
  /\ \A c, d \in Codecs : c # d => At(c) \cap At(d) = {}
  /\ \A j \in 1..ops : Flying(j) => Unsent(j) \/ \E c \in Codecs : j \in At(c)
  /\ \A c \in Codecs : queue[c] # <<>> => newest[c] = queue[c][Len(queue[c])]
  /\ \A c \in Codecs : queue[c] = <<>> /\ hand[c] # 0 => newest[c] = hand[c]

\* The decodes pending on a texture: in its slot, and taken out of it to be waited for.
Taken(t)   == render.at \in {"replace", "settle"} /\ render.on = t
Pending(t) == {j \in 1..ops : j = slot[t] \/ (Taken(t) /\ j = render.job)}

\* A texture's slot has the newest of what was asked of it, and every decode on its way
\* to a texture that stands is in its slot or being waited for.
Slots ==
  /\ \A t \in Targets : slot[t] # 0 => slot[t] \in On(t) /\ \A j \in On(t) : j <= slot[t]
  /\ \A t \in live : \A j \in On(t) : Landed(j) \/ j \in Pending(t)
  /\ render.at \in {"send", "replace", "settle", "use"} => render.on \in live
  /\ render.at \in {"send", "replace"} =>
       /\ render.codec \in Codecs /\ slot[render.on] = ops /\ ops # 0
       /\ op[ops].stage = "sent" /\ op[ops].on = render.on
  /\ render.at \in {"replace", "settle"} => render.job \in On(render.on)
  /\ render.at = "replace" => \A j \in On(render.on) : j <= render.job \/ j = ops
  /\ render.at = "settle" => \A j \in On(render.on) : j <= render.job
  /\ render.at \in {"settle", "use"} => slot[render.on] = 0
  /\ render.at = "drained" => \A t \in live : slot[t] = 0

\* h is the newest of s, or 0.
IsNewest(h, s) == h \in {0} \cup s /\ \A j \in s : j <= h

\* What a texture holds is the newest picture or write of those asked of it, but for
\* those not delivered yet.
Yielded(t) == {j \in On(t) : op[j].picture = TRUE /\ (t \in composite \/ j \notin Pending(t))}
Held == \A t \in live : IsNewest(holds[t], Yielded(t))

IInv == Types /\ Threads /\ Slots /\ Held /\ CountHonest

-----------------------------------------------------------------------------
(* What the steps do                                                       *)

\* A decode thread's steps.
LEMMA ThreadSteps ==
  ASSUME NEW c \in Codecs, Thread(c) PROVE Decode(c) \/ DecodeOne(c) \/ Land(c)
  BY DEF Thread

\* What settling in passing takes out of the slots, and what it delivers (deliver_landed).
LEMMA SettledIs ==
  ASSUME Types
  PROVE  /\ Settled \in SUBSET live /\ SlotsLeft \in [Targets -> 0..ops]
         /\ DeliveredAll \in [Targets -> 0..ops]
         /\ \A t \in Targets :
              /\ t \in Settled => SlotsLeft[t] = 0 /\ DeliveredAll[t] = Delivered(slot[t], t)
              /\ t \notin Settled => SlotsLeft[t] = slot[t] /\ DeliveredAll[t] = holds[t]
         /\ \A t \in Targets : t \in Settled <=> t \in live /\ slot[t] # 0 /\ Landed(slot[t])
         /\ \A t \in Targets : \A j \in 0..ops : Delivered(j, t) \in 0..ops
  BY DEF Types, Settled, SlotsLeft, DeliveredAll, Delivered

\* Settled is finite.
LEMMA SettledCounts == Finite /\ Types => Cardinality(Settled) \in Nat
  <1> SUFFICES ASSUME Finite, Types PROVE Cardinality(Settled) \in Nat
    OBVIOUS
  <1>1. Settled \subseteq Targets
    BY SettledIs DEF Types
  <1> QED BY <1>1, FS_Subset, FS_CardinalityType DEF Finite

\* A thread's job is one of those asked for.
LEMMA HandIs ==
  ASSUME Finite, Types, Threads, NEW c \in Codecs, hand[c] # 0
  PROVE  hand[c] \in 1..ops /\ hand[c] \in Ops
  <1>1. hand[c] \in 0..ops /\ ops \in 0..MaxOps /\ MaxOps \in Nat
    BY DEF Threads, Types, Finite
  <1> QED BY <1>1 DEF Ops

\* What decode_one does to its job and its texture.
LEMMA Decoding ==
  ASSUME Finite, Types, Threads, NEW c \in Codecs, DecodeOne(c)
  PROVE  /\ hand[c] \in 1..ops /\ hand[c] \in Ops /\ op[hand[c]].on \in Targets
         /\ op[hand[c]].stage = "sent"
         /\ op' \in [Ops -> [on : Targets \cup {"none"}, stage : Stages, picture : BOOLEAN]]
         /\ op'[hand[c]].on = op[hand[c]].on /\ op'[hand[c]].stage = "decoded"
         /\ \A j \in Ops : j # hand[c] => op'[j] = op[j]
         /\ holds' \in [Targets -> 0..ops]
         /\ op'[hand[c]].picture = TRUE /\ op[hand[c]].on \in composite =>
              holds' = [holds EXCEPT ![op[hand[c]].on] = hand[c]]
         /\ op'[hand[c]].picture = FALSE \/ op[hand[c]].on \notin composite => holds' = holds
  <1>1. hand[c] \in 1..ops /\ hand[c] \in Ops /\ op[hand[c]].on \in Targets
    BY HandIs DEF DecodeOne, Types
  <1>2. PICK picture \in BOOLEAN :
          LET t == op[hand[c]].on IN
            /\ op' = [op EXCEPT ![hand[c]].stage = "decoded", ![hand[c]].picture = picture]
            /\ holds' = IF picture /\ t \in composite THEN [holds EXCEPT ![t] = hand[c]] ELSE holds
    BY DEF DecodeOne
  <1>3. /\ op' \in [Ops -> [on : Targets \cup {"none"}, stage : Stages, picture : BOOLEAN]]
        /\ op'[hand[c]].on = op[hand[c]].on /\ op'[hand[c]].stage = "decoded"
        /\ op'[hand[c]].picture = picture
        /\ \A j \in Ops : j # hand[c] => op'[j] = op[j]
    BY <1>1, <1>2 DEF Types, Stages
  <1>4. holds' \in [Targets -> 0..ops]
    BY <1>1, <1>2 DEF Types
  <1>5. op[hand[c]].stage = "sent"
    BY DEF DecodeOne
  <1> QED BY <1>1, <1>2, <1>3, <1>4, <1>5

\* What Landing::land does to its job.
LEMMA LandIs ==
  ASSUME Finite, Types, Threads, NEW c \in Codecs, Land(c)
  PROVE  /\ hand[c] \in 1..ops /\ hand[c] \in Ops
         /\ op' \in [Ops -> [on : Targets \cup {"none"}, stage : Stages, picture : BOOLEAN]]
         /\ op'[hand[c]].on = op[hand[c]].on /\ op'[hand[c]].stage = "landed"
         /\ op'[hand[c]].picture = op[hand[c]].picture
         /\ \A j \in Ops : j # hand[c] => op'[j] = op[j]
  <1>1. hand[c] \in 1..ops /\ hand[c] \in Ops
    BY HandIs DEF Land
  <1>2. op' = [op EXCEPT ![hand[c]].stage = "landed"]
    BY DEF Land
  <1> QED BY <1>1, <1>2 DEF Types, Stages

\* Every step keeps the types.
LEMMA TypesKept == Finite /\ Types /\ Threads /\ Slots /\ [Next]_vars => Types'
  <1> SUFFICES ASSUME Finite, Types, Threads, Slots, [Next]_vars PROVE Types'
    OBVIOUS
  <1>0. ops \in Nat /\ MaxOps \in Nat /\ Ops = 1..MaxOps
    BY DEF Types, Finite, Ops
  <1>1. ASSUME NEW c \in Codecs, NEW t \in Targets, EndFrame(c, t) PROVE Types'
    <2>1. ops' = ops + 1 /\ ops' \in 0..MaxOps /\ ops' \in Ops /\ 0..ops \subseteq 0..ops'
      BY <1>0, <1>1 DEF EndFrame, Types
    <2>2. /\ op' \in [Ops -> [on : Targets \cup {"none"}, stage : Stages, picture : BOOLEAN]]
          /\ \A j \in 1..ops' : op'[j].on \in Targets /\ op'[j].stage # "none"
          /\ \A j \in 1..ops' : op'[j].stage = "sent" => op'[j].picture = FALSE
      <3>1. op' = [op EXCEPT ![ops + 1] = [on |-> t, stage |-> "sent", picture |-> FALSE]]
        BY <1>1 DEF EndFrame
      <3>2. \A j \in 1..ops' : j \in Ops /\ (j \in 1..ops \/ j = ops + 1)
        BY <2>1, <1>0
      <3> QED BY <2>1, <3>1, <3>2 DEF Types, Stages
    <2>3. /\ slot' \in [Targets -> 0..ops'] /\ holds' \in [Targets -> 0..ops'] /\ counted' \in Int
          /\ UNCHANGED <<composite, live>>
      <3>1. Cardinality(Settled) \in Nat
        BY SettledCounts
      <3>2. slot' = [SlotsLeft EXCEPT ![t] = ops + 1] /\ holds' = DeliveredAll
            /\ counted' = counted - Cardinality(Settled) + 1
        BY <1>1 DEF EndFrame
      <3>3. ops + 1 \in 0..ops'
        BY <2>1, <1>0
      <3>4. slot' \in [Targets -> 0..ops']
        BY <2>1, <3>2, <3>3, SettledIs
      <3>5. holds' \in [Targets -> 0..ops']
        BY <2>1, <3>2, SettledIs
      <3>6. counted' \in Int
        BY <3>1, <3>2 DEF Types
      <3> QED BY <1>1, <3>4, <3>5, <3>6 DEF EndFrame
    <2>4. render' \in [at : Places, on : Targets \cup {"none"}, job : 0..ops',
                       codec : Codecs \cup {"none"}]
      <3>1. SlotsLeft[t] \in 0..ops'
        BY <2>1, SettledIs
      <3>2. render' = [at |-> IF SlotsLeft[t] = 0 THEN "send" ELSE "replace", on |-> t,
                       job |-> SlotsLeft[t], codec |-> c]
        BY <1>1 DEF EndFrame
      <3> QED BY <3>1, <3>2 DEF Places
    <2> QED BY <2>1, <2>2, <2>3, <2>4 DEF Types
  <1>2. ASSUME NEW t \in Targets, Command(t) PROVE Types'
    BY <1>2 DEF Command, Types, jobVars, Idle, Places
  <1>3. ASSUME NEW t \in Targets, DestroyTexture(t) PROVE Types'
    BY <1>3 DEF DestroyTexture, Types, jobVars, waitVars
  <1>4. ASSUME NEW c \in Codecs, DestroyCodec(c) PROVE Types'
    BY <1>4 DEF DestroyCodec, Types, jobVars, slotVars, Idle, Places
  <1>5. ASSUME NEW c \in Codecs, DecodeOne(c) PROVE Types'
    <2>1. /\ UNCHANGED <<ops, slot, counted, composite, live, render>>
      BY <1>5 DEF DecodeOne, waitVars
    <2>2. ops \in 0..MaxOps /\ \A j \in 1..ops : j \in Ops
      BY <1>0 DEF Types
    <2>3. \A j \in 1..ops : op'[j].on \in Targets /\ op'[j].stage # "none"
      BY <1>5, <2>2, Decoding, ZenonT(60) DEF Types
    <2>4. \A j \in 1..ops : op'[j].stage = "sent" => op'[j].picture = FALSE
      <3> SUFFICES ASSUME NEW j \in 1..ops, op'[j].stage = "sent" PROVE op'[j].picture = FALSE
        OBVIOUS
      <3>1. op'[hand[c]].stage = "decoded"
        BY <1>5, Decoding
      <3>2. j # hand[c] /\ j \in Ops
        BY <3>1, <2>2
      <3>3. op'[j] = op[j]
        BY <1>5, <3>2, Decoding
      <3> QED BY <3>3 DEF Types
    <2> QED BY <1>5, <2>1, <2>3, <2>4, Decoding DEF Types
  <1>6. ASSUME NEW c \in Codecs, Land(c) PROVE Types'
    <2>1. /\ UNCHANGED <<ops, slot, counted, composite, live, holds, render>>
      BY <1>6 DEF Land, slotVars
    <2>2. ops \in 0..MaxOps /\ \A j \in 1..ops : j \in Ops
      BY <1>0 DEF Types
    <2>3. \A j \in 1..ops : op'[j].on \in Targets /\ op'[j].stage # "none"
      BY <1>6, <2>2, LandIs DEF Types
    <2>4. \A j \in 1..ops : op'[j].stage = "sent" => op'[j].picture = FALSE
      BY <1>6, <2>2, LandIs DEF Types
    <2> QED BY <1>6, <2>1, <2>3, <2>4, LandIs DEF Types
  <1>7. ASSUME NEW c \in Codecs, Decode(c) \/ Fence(c) PROVE Types'
    BY <1>7 DEF Decode, Fence, slotVars, jobVars, waitVars, Types
  <1>8. CASE Replace
    <2>1. render.on \in Targets /\ render.job \in 0..ops
      BY <1>8 DEF Types, Slots, Replace
    <2>2. /\ holds' = [holds EXCEPT ![render.on] = Delivered(render.job, render.on)]
          /\ counted' = counted - 1 /\ render' = [render EXCEPT !.at = "send"]
          /\ UNCHANGED <<ops, op, slot, composite, live>>
      BY <1>8 DEF Replace, jobVars, Replaced
    <2>3. holds' \in [Targets -> 0..ops]
      BY <2>1, <2>2, SettledIs DEF Types
    <2> QED BY <2>2, <2>3 DEF Types, Places
  <1>9. CASE Settle
    <2>1. render.on \in Targets /\ render.job \in 0..ops /\ 0 \in 0..ops
      BY <1>9, <1>0 DEF Types, Slots, Settle
    <2>2. /\ holds' = [holds EXCEPT ![render.on] = Delivered(render.job, render.on)]
          /\ counted' = counted - 1 /\ render' = [Idle EXCEPT !.at = "use", !.on = render.on]
          /\ UNCHANGED <<ops, op, slot, composite, live>>
      BY <1>9 DEF Settle, jobVars
    <2>3. holds' \in [Targets -> 0..ops]
      BY <2>1, <2>2, SettledIs DEF Types
    <2>4. render' \in [at : Places, on : Targets \cup {"none"}, job : 0..ops,
                       codec : Codecs \cup {"none"}]
      BY <2>1, <2>2 DEF Places, Idle
    <2>5. counted' \in Int
      BY <2>2 DEF Types
    <2> QED BY <2>2, <2>3, <2>4, <2>5 DEF Types
  <1>10. CASE Send \/ Read \/ Join \/ Drained \/ Drain
    BY <1>10 DEF Send, Read, Join, Drained, Drain, jobVars, slotVars, Types, Places, Idle
  <1>11. CASE Write
    <2>1. ops' = ops + 1 /\ ops' \in 0..MaxOps /\ ops' \in Ops /\ 0..ops \subseteq 0..ops'
      BY <1>0, <1>11 DEF Write, Types
    <2>2. render.on \in Targets
      BY <1>11 DEF Slots, Write, Types
    <2>3. /\ op' \in [Ops -> [on : Targets \cup {"none"}, stage : Stages, picture : BOOLEAN]]
          /\ \A j \in 1..ops' : op'[j].on \in Targets /\ op'[j].stage # "none"
          /\ \A j \in 1..ops' : op'[j].stage = "sent" => op'[j].picture = FALSE
      <3>1. op' = [op EXCEPT ![ops + 1] = [on |-> render.on, stage |-> "landed", picture |-> TRUE]]
        BY <1>11 DEF Write
      <3>2. \A j \in 1..ops' : j \in Ops /\ (j \in 1..ops \/ j = ops + 1)
        BY <2>1, <1>0
      <3> QED BY <2>1, <2>2, <3>1, <3>2 DEF Types, Stages
    <2>4. render' = Idle /\ holds' = [holds EXCEPT ![render.on] = ops + 1]
          /\ UNCHANGED <<slot, counted, composite, live>>
      BY <1>11 DEF Write
    <2>5. Idle \in [at : Places, on : Targets \cup {"none"}, job : 0..ops',
                    codec : Codecs \cup {"none"}]
      BY <2>1 DEF Idle, Places
    <2> QED BY <2>1, <2>2, <2>3, <2>4, <2>5 DEF Types
  <1>12. CASE DrainAll
    <2>1. Cardinality(Settled) \in Nat
      BY SettledCounts
    <2>2. /\ holds' = DeliveredAll /\ slot' = SlotsLeft
          /\ counted' = counted - Cardinality(Settled) /\ render' = [Idle EXCEPT !.at = "drained"]
          /\ UNCHANGED <<ops, op, composite, live>>
      BY <1>12 DEF DrainAll, jobVars
    <2>3. counted' \in Int
      BY <2>1, <2>2 DEF Types
    <2>4. slot' \in [Targets -> 0..ops] /\ holds' \in [Targets -> 0..ops]
      BY <2>2, SettledIs
    <2> QED BY <1>0, <2>2, <2>3, <2>4 DEF Types, Places, Idle
  <1>13. CASE Retire \/ (\E who \in {"render", "fence"} : Sleep(who)) \/ UNCHANGED vars
    BY <1>13 DEF Retire, Sleep, jobVars, slotVars, waitVars, vars, Types
  <1> QED BY <1>1, <1>2, <1>3, <1>4, <1>5, <1>6, <1>7, <1>8, <1>9, <1>10, <1>11, <1>12, <1>13
       DEF Next, Render, Thread

-----------------------------------------------------------------------------
(* The decode threads                                                      *)

\* A codec's jobs are among those asked for.
LEMMA InQueue ==
  ASSUME Types, Threads
  PROVE  \A c \in Codecs :
           /\ queue[c] \in Seq(1..ops) /\ Len(queue[c]) \in Nat
           /\ \A i \in 1..Len(queue[c]) : queue[c][i] \in 1..ops /\ queue[c][i] \in At(c)
           /\ hand[c] # 0 => hand[c] \in 1..ops /\ hand[c] \in At(c)
  <1> SUFFICES ASSUME NEW c \in Codecs
               PROVE  /\ queue[c] \in Seq(1..ops) /\ Len(queue[c]) \in Nat
                      /\ \A i \in 1..Len(queue[c]) : queue[c][i] \in 1..ops /\ queue[c][i] \in At(c)
                      /\ hand[c] # 0 => hand[c] \in 1..ops /\ hand[c] \in At(c)
    OBVIOUS
  <1>1. queue[c] \in Seq(1..ops) /\ Len(queue[c]) \in Nat
    BY DEF Threads
  <1>2. \A i \in 1..Len(queue[c]) : queue[c][i] \in 1..ops
    BY <1>1, ElementOfSeq
  <1>3. hand[c] # 0 => hand[c] \in 1..ops
    <2>1. hand[c] \in 0..ops /\ ops \in Nat
      BY DEF Threads, Types
    <2> QED BY <2>1
  <1> QED BY <1>1, <1>2, <1>3 DEF At

\* A step that moves no job and changes no stage leaves the jobs where they are.
LEMMA ThreadsStay ==
  ASSUME Types, Threads, UNCHANGED <<ops, queue, hand, newest>>,
         \A j \in 1..ops : op'[j].stage = op[j].stage, \A j \in 1..ops : Unsent(j)' <=> Unsent(j)
  PROVE  Threads'
  <1>3. \A c \in Codecs : At(c)' = At(c)
    BY DEF At
  <1>4. \A j \in 1..ops : Flying(j)' <=> Flying(j)
    BY DEF Flying
  <1>5. /\ queue' \in [Codecs -> Seq(1..ops')] /\ hand' \in [Codecs -> 0..ops']
        /\ newest' \in [Codecs -> 0..ops']
    BY DEF Threads
  <1>6. \A c \in Codecs : \A i \in 1..Len(queue[c]) :
          /\ op'[queue[c][i]].stage = "sent" /\ ~Unsent(queue[c][i])'
    <2> SUFFICES ASSUME NEW c \in Codecs, NEW i \in 1..Len(queue[c])
                 PROVE  op'[queue[c][i]].stage = "sent" /\ ~Unsent(queue[c][i])'
      OBVIOUS
    <2>1. PICK j \in 1..ops : j = queue[c][i]
      BY InQueue
    <2>2. op'[j].stage = "sent" /\ ~Unsent(j)'
      BY <2>1 DEF Threads
    <2> QED BY <2>1, <2>2 DEF Unsent
  <1>7. \A c \in Codecs : hand[c] # 0 => Flying(hand[c])' /\ ~Unsent(hand[c])'
    <2> SUFFICES ASSUME NEW c \in Codecs, hand[c] # 0 PROVE Flying(hand[c])' /\ ~Unsent(hand[c])'
      OBVIOUS
    <2>1. PICK j \in 1..ops : j = hand[c]
      BY InQueue
    <2>2. Flying(j)' /\ ~Unsent(j)'
      BY <2>1, <1>4 DEF Threads
    <2> QED BY <2>1, <2>2 DEF Unsent, Flying
  <1> QED BY <1>3, <1>4, <1>5, <1>6, <1>7 DEF Threads

\* So does one more operation: a write is no codec's, and a decode waits to be sent.
LEMMA OneMoreThreads ==
  ASSUME Types, Threads, ops' = ops + 1, UNCHANGED <<queue, hand, newest>>,
         \A j \in 1..ops : op'[j].stage = op[j].stage /\ ~Unsent(j) /\ ~Unsent(j)',
         \A j \in 1..ops' : j = ops + 1 /\ Flying(j)' => Unsent(j)'
  PROVE  Threads'
  <1>0. ops \in Nat /\ \A j \in 1..ops' : j \in 1..ops \/ j = ops + 1
    BY DEF Types
  <1>1. 1..ops \subseteq 1..ops' /\ 0..ops \subseteq 0..ops'
    BY <1>0
  <1>3. \A d \in Codecs : At(d)' = At(d)
    <2> SUFFICES ASSUME NEW d \in Codecs PROVE At(d)' = At(d)
      OBVIOUS
    <2>1. hand[d] # ops + 1 /\ \A i \in 1..Len(queue[d]) : queue[d][i] # ops + 1
      BY <1>0, InQueue
    <2> QED BY <2>1, <1>0, <1>1 DEF At
  <1>4. \A j \in 1..ops : Flying(j)' <=> Flying(j)
    BY DEF Flying
  <1>5. /\ queue' \in [Codecs -> Seq(1..ops')] /\ hand' \in [Codecs -> 0..ops']
        /\ newest' \in [Codecs -> 0..ops']
    <2>1. \A d \in Codecs : queue[d] \in Seq(1..ops')
      <3> SUFFICES ASSUME NEW d \in Codecs PROVE queue[d] \in Seq(1..ops')
        OBVIOUS
      <3>1. queue[d] \in Seq(1..ops)
        BY InQueue
      <3>2. \A A, B : A \subseteq B => Seq(A) \subseteq Seq(B)
        OBVIOUS
      <3> QED BY <3>1, <3>2, <1>1
    <2> QED BY <1>1, <2>1 DEF Threads
  <1>6. \A c \in Codecs : \A i \in 1..Len(queue[c]) :
          /\ op'[queue[c][i]].stage = "sent" /\ ~Unsent(queue[c][i])'
    <2> SUFFICES ASSUME NEW c \in Codecs, NEW i \in 1..Len(queue[c])
                 PROVE  op'[queue[c][i]].stage = "sent" /\ ~Unsent(queue[c][i])'
      OBVIOUS
    <2>1. PICK j \in 1..ops : j = queue[c][i]
      BY InQueue
    <2>2. op'[j].stage = "sent" /\ ~Unsent(j)'
      BY <2>1 DEF Threads
    <2> QED BY <2>1, <2>2 DEF Unsent
  <1>7. \A c \in Codecs : hand[c] # 0 => Flying(hand[c])' /\ ~Unsent(hand[c])'
    <2> SUFFICES ASSUME NEW c \in Codecs, hand[c] # 0 PROVE Flying(hand[c])' /\ ~Unsent(hand[c])'
      OBVIOUS
    <2>1. PICK j \in 1..ops : j = hand[c]
      BY InQueue
    <2>2. Flying(j)' /\ ~Unsent(j)'
      BY <2>1, <1>4 DEF Threads
    <2> QED BY <2>1, <2>2 DEF Unsent, Flying
  <1>8. \A j \in 1..ops' : Flying(j)' => Unsent(j)' \/ \E d \in Codecs : j \in At(d)'
    BY <1>0, <1>3, <1>4, SMTT(60) DEF Threads
  <1>9. /\ \A c \in Codecs : \A i \in 1..Len(queue'[c]) :
             /\ hand'[c] # queue'[c][i]
             /\ \A k \in 1..Len(queue'[c]) : queue'[c][k] = queue'[c][i] => k = i
        /\ \A c, d \in Codecs : c # d => At(c)' \cap At(d)' = {}
        /\ \A c \in Codecs : queue'[c] # <<>> => newest'[c] = queue'[c][Len(queue'[c])]
        /\ \A c \in Codecs : queue'[c] = <<>> /\ hand'[c] # 0 => newest'[c] = hand'[c]
    BY <1>3 DEF Threads
  <1> QED BY <1>5, <1>6, <1>7, <1>8, <1>9 DEF Threads

\* A thread takes the oldest of its queue...
LEMMA DecodeThreads ==
  ASSUME Finite, Types, Threads, NEW c \in Codecs, Decode(c)
  PROVE  Threads'
  <1>0. ops \in Nat
    BY DEF Types
  <1>1. /\ hand[c] = 0 /\ queue[c] # <<>> /\ hand' = [hand EXCEPT ![c] = Head(queue[c])]
        /\ queue' = [queue EXCEPT ![c] = Tail(@)] /\ UNCHANGED <<ops, op, newest, render>>
    BY DEF Decode, waitVars
  <1> DEFINE q == queue[c]
  <1>2. q \in Seq(1..ops) /\ Len(q) \in Nat /\ Len(q) > 0 /\ Head(q) = q[1]
    BY <1>1 DEF Threads
  <1>3. /\ Tail(q) \in Seq(1..ops) /\ Len(Tail(q)) = Len(q) - 1
        /\ \A i \in 1..Len(Tail(q)) : Tail(q)[i] = q[i + 1]
    BY <1>2, <1>1, HeadTailProperties
  <1>4. q[1] \in 1..ops
    <2>1. 1 \in 1..Len(q)
      BY <1>2
    <2> QED BY <2>1, InQueue
  <1>5. /\ queue' \in [Codecs -> Seq(1..ops)] /\ hand' \in [Codecs -> 0..ops]
        /\ queue'[c] = Tail(q) /\ hand'[c] = q[1]
        /\ \A d \in Codecs : d # c => queue'[d] = queue[d] /\ hand'[d] = hand[d]
    BY <1>1, <1>2, <1>3, <1>4 DEF Threads
  <1>6. At(c)' = At(c)
    <2>1. ASSUME NEW j \in 1..ops, j \in At(c) PROVE j \in At(c)'
      <3>1. PICK i \in 1..Len(q) : q[i] = j
        BY <2>1, <1>1, <1>0 DEF At
      <3>2. CASE i = 1
        BY <3>1, <3>2, <1>5, <1>1 DEF At
      <3>3. CASE i # 1
        <4>1. i - 1 \in 1..Len(Tail(q)) /\ i - 1 + 1 = i
          BY <3>3, <1>3, <1>2
        <4>2. Tail(q)[i - 1] = j
          BY <4>1, <3>1, <1>3
        <4> QED BY <4>1, <4>2, <1>5, <1>1 DEF At
      <3> QED BY <3>2, <3>3
    <2>2. ASSUME NEW j \in 1..ops, j \in At(c)' PROVE j \in At(c)
      <3>1. CASE hand'[c] = j
        BY <3>1, <1>5, <1>2, <1>1 DEF At
      <3>2. CASE \E i \in 1..Len(Tail(q)) : Tail(q)[i] = j
        <4>1. PICK i \in 1..Len(Tail(q)) : Tail(q)[i] = j
          BY <3>2
        <4>2. i + 1 \in 1..Len(q) /\ q[i + 1] = j
          BY <4>1, <1>2, <1>3
        <4> QED BY <4>2 DEF At
      <3> QED BY <2>2, <3>1, <3>2, <1>5 DEF At
    <2>3. At(c) \subseteq 1..ops /\ At(c)' \subseteq 1..ops
      BY <1>1 DEF At
    <2> QED BY <2>1, <2>2, <2>3
  <1>7. \A d \in Codecs : At(d)' = At(d)
    <2> SUFFICES ASSUME NEW d \in Codecs, d # c PROVE At(d)' = At(d)
      BY <1>6
    <2> QED BY <1>5, <1>1 DEF At
  <1>8. \A j : (Flying(j)' <=> Flying(j)) /\ (Unsent(j)' <=> Unsent(j))
    BY <1>1 DEF Flying, Unsent
  <1>9. \A d \in Codecs : \A i \in 1..Len(queue'[d]) :
           /\ op[queue'[d][i]].stage = "sent" /\ ~Unsent(queue'[d][i]) /\ hand'[d] # queue'[d][i]
           /\ \A k \in 1..Len(queue'[d]) : queue'[d][k] = queue'[d][i] => k = i
    <2> SUFFICES ASSUME NEW i \in 1..Len(Tail(q))
                 PROVE  /\ op[Tail(q)[i]].stage = "sent" /\ ~Unsent(Tail(q)[i]) /\ q[1] # Tail(q)[i]
                        /\ \A k \in 1..Len(Tail(q)) : Tail(q)[k] = Tail(q)[i] => k = i
      BY <1>5, <1>1 DEF Threads
    <2>1. i + 1 \in 1..Len(q) /\ 1 \in 1..Len(q) /\ Tail(q)[i] = q[i + 1] /\ i + 1 # 1
      BY <1>2, <1>3
    <2>2. ASSUME NEW k \in 1..Len(Tail(q)), Tail(q)[k] = Tail(q)[i] PROVE k = i
      <3>1. k + 1 \in 1..Len(q) /\ Tail(q)[k] = q[k + 1]
        BY <1>2, <1>3
      <3>2. k + 1 = i + 1
        BY <2>1, <2>2, <3>1 DEF Threads
      <3> QED BY <3>2
    <2> QED BY <2>1, <2>2 DEF Threads
  <1>10. \A d \in Codecs : hand'[d] # 0 => Flying(hand'[d]) /\ ~Unsent(hand'[d])
    <2>1. 1 \in 1..Len(q)
      BY <1>2
    <2>2. op[q[1]].stage = "sent" /\ ~Unsent(q[1])
      BY <2>1 DEF Threads
    <2> QED BY <2>2, <1>5 DEF Threads, Flying
  <1>11. /\ queue'[c] # <<>> => newest[c] = queue'[c][Len(queue'[c])]
         /\ queue'[c] = <<>> => newest[c] = hand'[c]
    <2>0. newest[c] = q[Len(q)]
      BY <1>1 DEF Threads
    <2>1. CASE Len(q) = 1
      BY <2>0, <2>1, <1>3, <1>5
    <2>2. CASE Len(q) > 1
      <3>1. Len(Tail(q)) \in 1..Len(Tail(q)) /\ Len(Tail(q)) + 1 = Len(q)
        BY <2>2, <1>2, <1>3
      <3>2. Tail(q)[Len(Tail(q))] = q[Len(q)]
        BY <3>1, <1>3
      <3> QED BY <2>0, <3>1, <3>2, <1>5
    <2>3. \A n \in Nat : n > 0 => n = 1 \/ n > 1
      OBVIOUS
    <2>5. Len(q) = 1 \/ Len(q) > 1
      BY <1>2, <2>3
    <2> QED BY <2>1, <2>2, <2>5
  <1>12. \A d \in Codecs : d # c =>
           /\ queue'[d] # <<>> => newest[d] = queue'[d][Len(queue'[d])]
           /\ queue'[d] = <<>> /\ hand'[d] # 0 => newest[d] = hand'[d]
    BY <1>5 DEF Threads
  <1> HIDE DEF q
  <1>13. \A d, e \in Codecs : d # e => At(d)' \cap At(e)' = {}
    BY <1>7 DEF Threads
  <1>14. \A j \in 1..ops : Flying(j)' => Unsent(j)' \/ \E d \in Codecs : j \in At(d)'
    BY <1>7, <1>8 DEF Threads
  <1>15. \A d \in Codecs : \A i \in 1..Len(queue'[d]) :
           op'[queue'[d][i]].stage = "sent" /\ ~Unsent(queue[d][i])'
    BY <1>9, <1>1 DEF Unsent
  <1>16. \A d \in Codecs : hand'[d] # 0 => Flying(hand[d])' /\ ~Unsent(hand[d])'
    BY <1>10, <1>1 DEF Unsent, Flying
  <1>17. newest' \in [Codecs -> 0..ops] /\ ops' = ops
    BY <1>1 DEF Threads
  <1>18. \A d \in Codecs : queue'[d] # <<>> => newest'[d] = queue'[d][Len(queue'[d])]
    BY <1>1, <1>11, <1>12
  <1>19. \A d \in Codecs : queue'[d] = <<>> /\ hand'[d] # 0 => newest'[d] = hand'[d]
    BY <1>1, <1>11, <1>12
  <1>20. \A d \in Codecs : \A i \in 1..Len(queue'[d]) :
           /\ hand'[d] # queue'[d][i]
           /\ \A k \in 1..Len(queue'[d]) : queue'[d][k] = queue'[d][i] => k = i
    BY <1>9
  <1> QED BY <1>5, <1>13, <1>14, <1>15, <1>16, <1>17, <1>18, <1>19, <1>20 DEF Threads

\* ...decodes it...
LEMMA DecodeOneThreads ==
  ASSUME Finite, Types, Threads, NEW c \in Codecs, DecodeOne(c)
  PROVE  Threads'
  <1>0. ops \in Nat /\ ops' = ops /\ 1..ops \subseteq Ops
    BY DEF Types, DecodeOne, Finite, Ops
  <1>1. PICK h \in 1..ops : h = hand[c]
    BY Decoding
  <1>2. h \in Ops /\ op'[h].stage = "decoded" /\ \A j \in Ops : j # h => op'[j] = op[j]
    BY <1>1, Decoding
  <1>3. UNCHANGED <<ops, queue, hand, newest, render>>
    BY DEF DecodeOne, waitVars
  <1>4. \A d \in Codecs : At(d)' = At(d)
    BY <1>3 DEF At
  <1>5. \A j \in 1..ops : Flying(j)' <=> Flying(j)
    <2>1. op[h].stage = "sent"
      BY <1>1 DEF DecodeOne
    <2> QED BY <2>1, <1>0, <1>2 DEF Flying
  <1>6. \A j : Unsent(j)' <=> Unsent(j)
    BY <1>3 DEF Unsent
  <1>7. \A d \in Codecs : \A i \in 1..Len(queue[d]) :
          op'[queue[d][i]].stage = "sent" /\ ~Unsent(queue[d][i])'
    <2> SUFFICES ASSUME NEW d \in Codecs, NEW i \in 1..Len(queue[d])
                 PROVE  op'[queue[d][i]].stage = "sent" /\ ~Unsent(queue[d][i])'
      OBVIOUS
    <2>1. PICK j \in 1..ops : j = queue[d][i]
      BY InQueue
    <2>2. j # h
      <3>1. CASE d = c
        BY <2>1, <1>1, <3>1 DEF Threads
      <3>2. CASE d # c
        <4>1. j \in At(d) /\ h \in At(c)
          BY <2>1, <1>1 DEF At
        <4> QED BY <4>1, <3>2 DEF Threads
      <3> QED BY <3>1, <3>2
    <2>3. op[j].stage = "sent" /\ ~Unsent(j)
      BY <2>1 DEF Threads
    <2> QED BY <2>1, <2>2, <2>3, <1>0, <1>2, <1>3 DEF Unsent
  <1>8. \A d \in Codecs : hand[d] # 0 => Flying(hand[d])' /\ ~Unsent(hand[d])'
    <2> SUFFICES ASSUME NEW d \in Codecs, hand[d] # 0 PROVE Flying(hand[d])' /\ ~Unsent(hand[d])'
      OBVIOUS
    <2>1. PICK j \in 1..ops : j = hand[d]
      BY InQueue
    <2>2. Flying(j)' /\ ~Unsent(j)
      BY <2>1, <1>5 DEF Threads
    <2> QED BY <2>1, <2>2, <1>3 DEF Unsent, Flying
  <1>9. \A j \in 1..ops : Flying(j)' => Unsent(j)' \/ \E d \in Codecs : j \in At(d)'
    BY <1>4, <1>5, <1>6 DEF Threads
  <1> QED BY <1>3, <1>4, <1>7, <1>8, <1>9, SMTT(60) DEF Threads

\* ...and has it no more once it has landed.
LEMMA LandThreads ==
  ASSUME Finite, Types, Threads, NEW c \in Codecs, Land(c)
  PROVE  Threads'
  <1>1. PICK h \in 1..ops : h = hand[c]
    BY LandIs
  <1>0. ops \in Nat /\ ops' = ops /\ 1..ops \subseteq Ops /\ h # 0
    BY DEF Types, Land, Finite, Ops
  <1>2. h \in Ops /\ op'[h].stage = "landed" /\ \A j \in Ops : j # h => op'[j] = op[j]
    BY <1>1, LandIs
  <1>3. UNCHANGED <<ops, queue, newest, render>> /\ hand' = [hand EXCEPT ![c] = 0]
    BY DEF Land, slotVars
  <1>4. h \in At(c)
    BY <1>1 DEF At
  <1>5. \A i \in 1..Len(queue[c]) : queue[c][i] # h
    BY <1>1 DEF Threads
  <1>6. /\ hand'[c] = 0 /\ \A d \in Codecs : d # c => hand'[d] = hand[d]
        /\ hand' \in [Codecs -> 0..ops]
    BY <1>0, <1>3 DEF Threads
  <1>7. At(c)' = At(c) \ {h}
    BY <1>0, <1>1, <1>3, <1>5, <1>6 DEF At
  <1>8. \A d \in Codecs : d # c => At(d)' = At(d)
    BY <1>3, <1>6 DEF At
  <1>9. \A j \in 1..ops : Flying(j)' <=> Flying(j) /\ j # h
    BY <1>0, <1>2 DEF Flying
  <1>10. \A j : Unsent(j)' <=> Unsent(j)
    BY <1>3 DEF Unsent
  <1>11. \A d \in Codecs : \A i \in 1..Len(queue[d]) :
          op'[queue[d][i]].stage = "sent" /\ ~Unsent(queue[d][i])'
    <2> SUFFICES ASSUME NEW d \in Codecs, NEW i \in 1..Len(queue[d])
                 PROVE  op'[queue[d][i]].stage = "sent" /\ ~Unsent(queue[d][i])'
      OBVIOUS
    <2>1. PICK j \in 1..ops : j = queue[d][i]
      BY InQueue
    <2>2. j # h
      <3>1. CASE d = c
        BY <2>1, <1>5, <3>1
      <3>2. CASE d # c
        <4>1. j \in At(d)
          BY <2>1 DEF At
        <4> QED BY <4>1, <1>4, <3>2 DEF Threads
      <3> QED BY <3>1, <3>2
    <2>3. op[j].stage = "sent" /\ ~Unsent(j)
      BY <2>1 DEF Threads
    <2> QED BY <2>1, <2>2, <2>3, <1>0, <1>2, <1>3 DEF Unsent
  <1>12. \A d \in Codecs : hand'[d] # 0 => Flying(hand[d])' /\ ~Unsent(hand[d])'
    <2> SUFFICES ASSUME NEW d \in Codecs, hand'[d] # 0 PROVE Flying(hand[d])' /\ ~Unsent(hand[d])'
      OBVIOUS
    <2>0. d # c /\ hand'[d] = hand[d] /\ hand[d] # 0
      BY <1>6
    <2>1. PICK j \in 1..ops : j = hand[d]
      BY <2>0, InQueue
    <2>2. j \in At(d)
      BY <2>1 DEF At
    <2>3. j # h
      BY <2>2, <2>0, <1>4 DEF Threads
    <2>4. Flying(j)' /\ ~Unsent(j)
      BY <2>1, <2>0, <2>3, <1>9 DEF Threads
    <2> QED BY <2>0, <2>1, <2>4, <1>3 DEF Unsent, Flying
  <1>13. \A j \in 1..ops : Flying(j)' => Unsent(j)' \/ \E d \in Codecs : j \in At(d)'
    <2> SUFFICES ASSUME NEW j \in 1..ops, Flying(j)', ~Unsent(j)'
                 PROVE  \E d \in Codecs : j \in At(d)'
      OBVIOUS
    <2>1. j # h /\ \E d \in Codecs : j \in At(d)
      BY <1>9, <1>10 DEF Threads
    <2>2. PICK d \in Codecs : j \in At(d)
      BY <2>1
    <2>3. j \in At(d)'
      BY <2>1, <2>2, <1>7, <1>8
    <2> QED BY <2>3
  <1>14. \A d, e \in Codecs : d # e => At(d)' \cap At(e)' = {}
    <2>1. \A d \in Codecs : At(d)' \subseteq At(d)
      BY <1>7, <1>8
    <2> QED BY <2>1 DEF Threads
  <1>15. \A d \in Codecs : \A i \in 1..Len(queue'[d]) :
           /\ hand'[d] # queue'[d][i]
           /\ \A k \in 1..Len(queue'[d]) : queue'[d][k] = queue'[d][i] => k = i
    <2> SUFFICES ASSUME NEW d \in Codecs, NEW i \in 1..Len(queue[d]) PROVE hand'[d] # queue[d][i]
      BY <1>3 DEF Threads
    <2>1. queue[d][i] \in 1..ops /\ 0 \notin 1..ops
      BY InQueue
    <2> QED BY <2>1, <1>6 DEF Threads
  <1>16. \A d \in Codecs : queue'[d] # <<>> => newest'[d] = queue'[d][Len(queue'[d])]
    BY <1>3 DEF Threads
  <1>17. \A d \in Codecs : queue'[d] = <<>> /\ hand'[d] # 0 => newest'[d] = hand'[d]
    BY <1>3, <1>6 DEF Threads
  <1>18. newest' \in [Codecs -> 0..ops] /\ queue' \in [Codecs -> Seq(1..ops)]
    BY <1>3 DEF Threads
  <1> QED BY <1>0, <1>3, <1>6, <1>11, <1>12, <1>13, <1>14, <1>15, <1>16, <1>17, <1>18 DEF Threads

\* What a longer queue has.
LEMMA Appended ==
  ASSUME NEW S, NEW q \in Seq(S), NEW e \in S
  PROVE  /\ Append(q, e) \in Seq(S) /\ Len(Append(q, e)) = Len(q) + 1
         /\ \A i \in 1..Len(q) : Append(q, e)[i] = q[i]
         /\ Append(q, e)[Len(q) + 1] = e
  BY AppendProperties

\* A job sent is the newest of its codec, behind the rest.
LEMMA SendThreads ==
  ASSUME Finite, Types, Threads, Slots, Send
  PROVE  Threads'
  <1>1. /\ render.at = "send" /\ render'.at = "idle" /\ UNCHANGED <<ops, op, hand>>
        /\ queue' = [queue EXCEPT ![render.codec] = Append(@, ops)]
        /\ newest' = [newest EXCEPT ![render.codec] = ops]
    BY DEF Send, Idle
  <1>2. PICK c \in Codecs : c = render.codec
    BY <1>1 DEF Slots
  <1>3. ops \in 1..ops /\ op[ops].stage = "sent" /\ ops \in Nat
    BY <1>1 DEF Slots, Types
  <1>4. Unsent(ops) /\ \A j : ~Unsent(j)'
    BY <1>1 DEF Unsent
  <1>5. ops # hand[c] /\ \A i \in 1..Len(queue[c]) : queue[c][i] # ops
    BY <1>3, <1>4 DEF Threads
  <1> DEFINE q == queue[c]
             p == Append(q, ops)
  <1>6. q \in Seq(1..ops) /\ Len(q) \in Nat
    BY InQueue
  <1>7. /\ p \in Seq(1..ops) /\ p # <<>> /\ Len(p) = Len(q) + 1
        /\ \A i \in 1..Len(q) : p[i] = q[i]
        /\ p[Len(q) + 1] = ops
    <2>1. q \in Seq(1..ops) /\ ops \in 1..ops
      BY <1>3, <1>6
    <2> HIDE DEF q
    <2>2. /\ p \in Seq(1..ops) /\ Len(p) = Len(q) + 1
          /\ \A i \in 1..Len(q) : p[i] = q[i]
          /\ p[Len(q) + 1] = ops
      BY <2>1, Appended
    <2>3. p # <<>>
      BY <1>6, <2>2
    <2> QED BY <2>2, <2>3
  <1>8. /\ queue' \in [Codecs -> Seq(1..ops)] /\ newest' \in [Codecs -> 0..ops]
        /\ queue'[c] = p /\ newest'[c] = ops
        /\ \A d \in Codecs : d # c => queue'[d] = queue[d] /\ newest'[d] = newest[d]
    BY <1>1, <1>2, <1>3, <1>7, SMTT(60) DEF Threads
  <1> HIDE DEF p, q
  <1>9. \A i \in 1..Len(p) : i \in 1..Len(q) \/ i = Len(q) + 1
    BY <1>6, <1>7
  <1>10. \A i \in 1..Len(q) : i \in 1..Len(p) /\ i # Len(q) + 1
    BY <1>6, <1>7
  <1>11. Len(q) + 1 \in 1..Len(p)
    BY <1>6, <1>7
  <1>12. At(c)' = At(c) \cup {ops}
    <2>1. ASSUME NEW j \in 1..ops PROVE j \in At(c)' <=> j \in At(c) \/ j = ops
      <3>1. j \in At(c)' <=> hand[c] = j \/ \E i \in 1..Len(p) : p[i] = j
        BY <1>1, <1>8 DEF At
      <3>2. j \in At(c) <=> hand[c] = j \/ \E i \in 1..Len(q) : q[i] = j
        BY DEF At, q
      <3> QED BY <3>1, <3>2, <1>7, <1>9, <1>10, <1>11
    <2>2. At(c) \subseteq 1..ops /\ At(c)' \subseteq 1..ops
      BY <1>1 DEF At
    <2> QED BY <2>1, <2>2, <1>3
  <1>13. \A d \in Codecs : d # c => At(d)' = At(d)
    BY <1>1, <1>8 DEF At
  <1>14. \A d \in Codecs : ops \notin At(d)
    <2> SUFFICES ASSUME NEW d \in Codecs
                 PROVE  ops # hand[d] /\ \A i \in 1..Len(queue[d]) : queue[d][i] # ops
      BY DEF At
    <2>1. ops # hand[d]
      BY <1>3, <1>4 DEF Threads
    <2>2. \A i \in 1..Len(queue[d]) : queue[d][i] # ops
      BY <1>4 DEF Threads
    <2> QED BY <2>1, <2>2
  <1>15. \A d, e \in Codecs : d # e => At(d)' \cap At(e)' = {}
    <2>1. \A d, e \in Codecs : d # e => At(d) \cap At(e) = {}
      BY DEF Threads
    <2>2. ASSUME NEW d \in Codecs, d # c PROVE At(c)' \cap At(d)' = {}
      BY <2>1, <2>2, <1>12, <1>13, <1>14
    <2>3. ASSUME NEW d \in Codecs, NEW e \in Codecs, d # e, d # c, e # c
          PROVE  At(d)' \cap At(e)' = {}
      BY <2>1, <2>3, <1>13
    <2> QED BY <2>2, <2>3
  <1>16. \A j \in 1..ops : Flying(j)' => Unsent(j)' \/ \E d \in Codecs : j \in At(d)'
    <2> SUFFICES ASSUME NEW j \in 1..ops, Flying(j)
                 PROVE  \E d \in Codecs : j \in At(d)'
      BY <1>1 DEF Flying
    <2>1. Unsent(j) \/ \E d \in Codecs : j \in At(d)
      BY DEF Threads
    <2>2. Unsent(j) => j = ops
      BY DEF Unsent
    <2> QED BY <2>1, <2>2, <1>12, <1>13
  <1>17. \A d \in Codecs : \A i \in 1..Len(queue'[d]) :
           /\ op[queue'[d][i]].stage = "sent" /\ hand[d] # queue'[d][i]
           /\ \A k \in 1..Len(queue'[d]) : queue'[d][k] = queue'[d][i] => k = i
    <2>1. \A d \in Codecs : d # c => \A i \in 1..Len(queue'[d]) :
           /\ op[queue'[d][i]].stage = "sent" /\ hand[d] # queue'[d][i]
           /\ \A k \in 1..Len(queue'[d]) : queue'[d][k] = queue'[d][i] => k = i
      BY <1>8, SMTT(60) DEF Threads
    <2>2. \A i \in 1..Len(q) : /\ op[q[i]].stage = "sent" /\ hand[c] # q[i] /\ q[i] # ops
                               /\ \A k \in 1..Len(q) : q[k] = q[i] => k = i
      BY <1>5 DEF Threads, q
    <2>3. \A i \in 1..Len(p) : op[p[i]].stage = "sent" /\ hand[c] # p[i]
      BY <2>2, <1>3, <1>5, <1>7, <1>9
    <2>4. \A i, k \in 1..Len(p) : p[k] = p[i] => k = i
      BY <2>2, <1>7, <1>9
    <2>5. queue'[c] = p
      BY <1>8
    <2> SUFFICES ASSUME NEW d \in Codecs, NEW i \in 1..Len(queue'[d])
                 PROVE  /\ op[queue'[d][i]].stage = "sent" /\ hand[d] # queue'[d][i]
                        /\ \A k \in 1..Len(queue'[d]) : queue'[d][k] = queue'[d][i] => k = i
      OBVIOUS
    <2>6. CASE d = c
      BY <2>3, <2>4, <2>5, <2>6
    <2>7. CASE d # c
      BY <2>1, <2>7
    <2> QED BY <2>6, <2>7
  <1>18. \A d \in Codecs : hand'[d] # 0 => Flying(hand[d])' /\ ~Unsent(hand[d])'
    BY <1>1, <1>4 DEF Threads, Flying, Unsent
  <1>19. \A d \in Codecs : queue'[d] # <<>> => newest'[d] = queue'[d][Len(queue'[d])]
    BY <1>7, <1>8 DEF Threads
  <1>20. \A d \in Codecs : queue'[d] = <<>> /\ hand'[d] # 0 => newest'[d] = hand'[d]
    BY <1>1, <1>7, <1>8, SMTT(60) DEF Threads
  <1>21. \A d \in Codecs : \A i \in 1..Len(queue'[d]) : ~Unsent(queue[d][i])'
    BY <1>1 DEF Unsent
  <1>22. hand' \in [Codecs -> 0..ops] /\ ops' = ops
    BY <1>1 DEF Threads
  <1>23. \A d \in Codecs : \A i \in 1..Len(queue'[d]) :
           /\ op'[queue'[d][i]].stage = "sent" /\ hand'[d] # queue'[d][i]
           /\ \A k \in 1..Len(queue'[d]) : queue'[d][k] = queue'[d][i] => k = i
    BY <1>1, <1>17
  <1>24. queue' \in [Codecs -> Seq(1..ops)] /\ newest' \in [Codecs -> 0..ops]
    BY <1>8
  <1> QED BY <1>15, <1>16, <1>18, <1>19, <1>20, <1>21, <1>22, <1>23, <1>24 DEF Threads

\* Every step keeps each decode on its way at one place.
LEMMA ThreadsKept == Finite /\ Types /\ Types' /\ Threads /\ Slots /\ [Next]_vars => Threads'
  <1> SUFFICES ASSUME Finite, Types, Types', Threads, Slots, [Next]_vars PROVE Threads'
    OBVIOUS
  <1>0. ops \in Nat /\ MaxOps \in Nat /\ Ops = 1..MaxOps /\ ops <= MaxOps
    BY DEF Types, Finite, Ops
  <1>1. ASSUME NEW c \in Codecs, NEW t \in Targets, EndFrame(c, t) PROVE Threads'
    <2>1. /\ ops' = ops + 1 /\ UNCHANGED <<queue, hand, newest>> /\ render = Idle
          /\ op' = [op EXCEPT ![ops + 1] = [on |-> t, stage |-> "sent", picture |-> FALSE]]
          /\ render'.at \in {"send", "replace"}
      BY <1>1 DEF EndFrame
    <2>2. \A j \in 1..ops : op'[j].stage = op[j].stage
      BY <2>1, <1>0 DEF Types
    <2>3. \A j \in 1..ops : ~Unsent(j) /\ ~Unsent(j)'
      BY <2>1, <1>0 DEF Unsent, Idle
    <2>5. \A j \in 1..ops' : j = ops + 1 /\ Flying(j)' => Unsent(j)'
      BY <2>1 DEF Unsent
    <2> QED BY <2>1, <2>2, <2>3, <2>5, OneMoreThreads
  <1>2. CASE Write
    <2>1. /\ ops' = ops + 1 /\ UNCHANGED <<queue, hand, newest>> /\ render.at = "use"
          /\ op' = [op EXCEPT ![ops + 1] = [on |-> render.on, stage |-> "landed", picture |-> TRUE]]
          /\ render'.at = "idle"
      BY <1>2 DEF Write, Idle
    <2>2. \A j \in 1..ops : op'[j].stage = op[j].stage
      BY <2>1, <1>0 DEF Types
    <2>3. \A j : ~Unsent(j) /\ ~Unsent(j)'
      BY <2>1 DEF Unsent
    <2>4. ops + 1 \in Ops
      BY <1>0, <1>2 DEF Write
    <2>5. op'[ops + 1].stage = "landed"
      BY <2>1, <2>4 DEF Types
    <2>6. \A j \in 1..ops' : j = ops + 1 => ~Flying(j)'
      BY <2>5 DEF Flying
    <2> QED BY <2>1, <2>2, <2>3, <2>6, OneMoreThreads
  <1>3. ASSUME NEW c \in Codecs, Thread(c) PROVE Threads'
    BY <1>3, ThreadSteps, DecodeThreads, DecodeOneThreads, LandThreads
  <1>4. CASE Send
    BY <1>4, SendThreads
  <1>5. CASE Join
    <2>1. /\ queue[render.codec] = <<>> /\ hand[render.codec] = 0
          /\ UNCHANGED <<ops, op, queue, hand>>
          /\ newest' = [newest EXCEPT ![render.codec] = 0]
          /\ render.at = "join" /\ render'.at = "idle"
      BY <1>5 DEF Join, Idle
    <2>2. /\ newest' \in [Codecs -> 0..ops]
          /\ \A c \in Codecs : newest'[c] = newest[c] \/ (queue[c] = <<>> /\ hand[c] = 0)
      BY <2>1, <1>0 DEF Threads
    <2>3. \A j : ~Unsent(j) /\ ~Unsent(j)'
      BY <2>1 DEF Unsent
    <2>4. \A c \in Codecs : At(c)' = At(c)
      BY <2>1 DEF At
    <2>5. \A j : Flying(j)' <=> Flying(j)
      BY <2>1 DEF Flying
    <2>6. \A c \in Codecs : \A i \in 1..Len(queue[c]) : ~Unsent(queue[c][i])'
      BY <2>1 DEF Unsent
    <2>7. \A c \in Codecs : hand'[c] # 0 => Flying(hand[c])' /\ ~Unsent(hand[c])'
      BY <2>1 DEF Unsent, Flying, Threads
    <2> QED BY <2>1, <2>2, <2>3, <2>4, <2>5, <2>6, <2>7 DEF Threads
  <1>6. CASE UNCHANGED <<ops, op, queue, hand, newest>> /\
             (UNCHANGED render \/ (render.at = "replace" /\ render'.at = "send")
              \/ (render.at \notin {"replace", "send"} /\ render'.at \notin {"replace", "send"}))
    BY <1>6, ThreadsStay DEF Unsent
  <1>7. CASE Replace
    BY <1>6, <1>7 DEF Replace, jobVars, Types
  <1>8. CASE Settle \/ Read \/ DrainAll \/ Drained \/ Drain \/ Retire
    <2>1. UNCHANGED <<ops, op, queue, hand, newest>>
      BY <1>8 DEF Settle, Read, DrainAll, Drained, Drain, Retire, jobVars
    <2>2. CASE Retire
      BY <2>1, <2>2, <1>6 DEF Retire
    <2>3. CASE ~Retire
      <3>1. render.at \notin {"replace", "send"} /\ render'.at \notin {"replace", "send"}
        <4>1. Settle => render.at = "settle" /\ render'.at = "use"
          BY DEF Settle, Idle
        <4>2. Read => render.at = "use" /\ render'.at = "idle"
          BY DEF Read, Idle
        <4>3. DrainAll => render.at = "drain" /\ render'.at = "drained"
          BY DEF DrainAll, Idle
        <4>4. Drained => render.at = "drained" /\ render'.at = "idle"
          BY DEF Drained, Idle
        <4>5. Drain => render.at = "idle" /\ render'.at = "drain"
          BY DEF Drain, Idle
        <4> QED BY <1>8, <2>3, <4>1, <4>2, <4>3, <4>4, <4>5
      <3> QED BY <2>1, <3>1, <1>6
    <2> QED BY <2>2, <2>3
  <1>9. ASSUME NEW t \in Targets, Command(t) \/ DestroyTexture(t) PROVE Threads'
    <2>1. CASE Command(t)
      <3>1. /\ render'.at \in {"use", "settle"} /\ render.at = "idle"
            /\ UNCHANGED <<ops, op, queue, hand, newest>>
        BY <2>1 DEF Command, jobVars, Idle
      <3> QED BY <3>1, <1>6
    <2>2. CASE DestroyTexture(t)
      BY <2>2, <1>6 DEF DestroyTexture, jobVars, waitVars
    <2> QED BY <1>9, <2>1, <2>2
  <1>10. ASSUME NEW c \in Codecs, DestroyCodec(c) \/ Fence(c) PROVE Threads'
    <2>1. CASE DestroyCodec(c)
      <3>1. render'.at = "join" /\ render.at = "idle" /\ UNCHANGED <<ops, op, queue, hand, newest>>
        BY <2>1 DEF DestroyCodec, jobVars, Idle
      <3> QED BY <3>1, <1>6
    <2>2. CASE Fence(c)
      BY <2>2, <1>6 DEF Fence, jobVars
    <2> QED BY <1>10, <2>1, <2>2
  <1>11. CASE (\E who \in {"render", "fence"} : Sleep(who)) \/ UNCHANGED vars
    BY <1>6, <1>11 DEF Sleep, jobVars, waitVars, vars
  <1> QED BY <1>1, <1>2, <1>3, <1>4, <1>5, <1>7, <1>8, <1>9, <1>10, <1>11 DEF Next, Render

\* Once each codec's newest has landed, so has every decode (settle_video).
LEMMA NoneFlies ==
  ASSUME Finite, Types, Threads, render.at \notin {"replace", "send"},
         \A c \in Codecs : newest[c] # 0 => Landed(newest[c])
  PROVE  \A j \in 1..ops : Landed(j)
  <1> SUFFICES ASSUME NEW j \in 1..ops, ~Landed(j) PROVE FALSE
    OBVIOUS
  <1>1. Flying(j) /\ ~Unsent(j)
    <2>0. j \in Ops
      BY DEF Types, Finite, Ops
    <2>1. op[j].stage \in Stages
      BY <2>0 DEF Types
    <2>2. op[j].stage # "none" /\ op[j].stage \in Stages
      BY <2>1 DEF Types
    <2> QED BY <2>2 DEF Flying, Unsent, Landed, Stages
  <1>2. PICK c \in Codecs : j \in At(c)
    BY <1>1 DEF Threads
  <1>3. CASE queue[c] # <<>>
    <2>1. Len(queue[c]) \in 1..Len(queue[c])
      BY <1>3, InQueue
    <2>2. queue[c][Len(queue[c])] \in 1..ops /\ op[queue[c][Len(queue[c])]].stage = "sent"
      BY <2>1, InQueue DEF Threads
    <2>3. newest[c] = queue[c][Len(queue[c])] /\ 0 \notin 1..ops
      BY <1>3 DEF Threads
    <2> QED BY <2>2, <2>3 DEF Landed
  <1>4. CASE queue[c] = <<>>
    <2>1. hand[c] = j /\ j # 0
      BY <1>2, <1>4 DEF At
    <2>2. newest[c] = j
      BY <2>1, <1>4 DEF Threads
    <2> QED BY <2>1, <2>2
  <1> QED BY <1>3, <1>4

\* Where nothing is counted, nothing is pending: the barrier's one load (settle).
LEMMA CountZero ==
  ASSUME Finite, Types, CountHonest, render = Idle, counted = 0
  PROVE  \A t \in Targets : slot[t] = 0
  <1> DEFINE S == {t \in Targets : slot[t] # 0}
  <1>1. S \subseteq Targets
    OBVIOUS
  <1>2. IsFiniteSet(S)
    BY <1>1, FS_Subset DEF Finite
  <1>3. Cardinality(S) = 0
    BY <1>2, FS_CardinalityType DEF CountHonest, Idle
  <1>4. S = {}
    BY <1>2, <1>3, FS_EmptySet
  <1> QED BY <1>4

-----------------------------------------------------------------------------
(* The slots                                                               *)

\* A step that leaves the slots, and lands what it may, keeps what they say.
LEMMA SlotsStay ==
  ASSUME Types, Slots, UNCHANGED <<ops, slot, live, render>>,
         \A j \in 1..ops : op'[j].on = op[j].on /\ (Landed(j) => Landed(j)'),
         render.at \in {"send", "replace"} => op'[ops].stage = op[ops].stage
  PROVE  Slots'
  <1>1. \A t : On(t)' = On(t)
    BY DEF On
  <1>2. \A t : Pending(t)' = Pending(t)
    BY DEF Pending, Taken
  <1>3. \A t \in live : \A j \in On(t) : Landed(j)' \/ j \in Pending(t)
    BY DEF Slots, On
  <1>4. render.at \in {"send", "replace"} => ops \in 1..ops
    BY DEF Slots, Types
  <1> QED BY <1>1, <1>2, <1>3, <1>4 DEF Slots

\* An END_FRAME puts the newest into its target's slot, and takes out what was there.
LEMMA EndFrameSlots ==
  ASSUME Finite, Types, Types', Slots, NEW c \in Codecs, NEW t \in Targets, EndFrame(c, t)
  PROVE  Slots'
  <1>1. PICK n \in Ops : n = ops + 1 /\ n # 0
    BY DEF EndFrame, Types, Finite, Ops
  <1>2. /\ render = Idle /\ t \in live /\ ops' = n
        /\ op' = [op EXCEPT ![n] = [on |-> t, stage |-> "sent", picture |-> FALSE]]
        /\ slot' = [SlotsLeft EXCEPT ![t] = n] /\ live' = live
        /\ render'.at = (IF SlotsLeft[t] = 0 THEN "send" ELSE "replace") /\ render'.on = t
        /\ render'.job = SlotsLeft[t] /\ render'.codec = c
    BY <1>1 DEF EndFrame
  <1>3. \A j \in 1..n : j \in 1..ops \/ j = n
    BY <1>1 DEF Types
  <1>4. /\ 1..ops \subseteq 1..n /\ n \in 1..n /\ n \notin 1..ops /\ 1..ops \subseteq Ops
        /\ \A j \in 1..ops : j <= n
    BY <1>1, SMTT(60) DEF Types, Finite, Ops
  <1>5. op'[n] = [on |-> t, stage |-> "sent", picture |-> FALSE] /\ \A j \in 1..ops : op'[j] = op[j]
    BY <1>1, <1>2, <1>4 DEF Types
  <1>6. \A x : /\ x # t => On(x)' = On(x)
               /\ On(t)' = On(t) \cup {n}
    BY <1>2, <1>3, <1>4, <1>5 DEF On
  <1>7. slot'[t] = n /\ \A x \in Targets : x # t => slot'[x] = SlotsLeft[x]
    BY <1>2, SettledIs
  <1>8. \A x \in Targets : slot'[x] # 0 => slot'[x] \in On(x)' /\ \A j \in On(x)' : j <= slot'[x]
    <2> SUFFICES ASSUME NEW x \in Targets, slot'[x] # 0
                 PROVE  slot'[x] \in On(x)' /\ \A j \in On(x)' : j <= slot'[x]
      OBVIOUS
    <2>1. CASE x = t
      <3>1. \A j \in On(t) : j \in 1..ops
        BY DEF On
      <3>2. n <= n
        BY <1>1 DEF Ops
      <3> QED BY <2>1, <3>1, <3>2, <1>4, <1>6, <1>7
    <2>2. CASE x # t
      <3>1. slot'[x] = slot[x] /\ slot[x] # 0
        BY <2>2, <1>7, SettledIs
      <3> QED BY <2>2, <3>1, <1>6 DEF Slots
    <2> QED BY <2>1, <2>2
  <1>9. \A j \in 1..ops : Landed(j)' <=> Landed(j)
    BY <1>5 DEF Landed
  <1>10. \A x \in live : \A j \in On(x)' : Landed(j)' \/ j \in Pending(x)'
    <2> SUFFICES ASSUME NEW x \in live, NEW j \in On(x)', ~Landed(j)' PROVE j \in Pending(x)'
      OBVIOUS
    <2>0. x \in Targets /\ j \in 1..n
      BY <1>2 DEF Types, On
    <2>1. CASE x = t /\ j = n
      BY <2>0, <2>1, <1>2, <1>7 DEF Pending
    <2>2. CASE j \in On(x)
      <3>1. j \in 1..ops /\ j # 0 /\ ~Landed(j)
        BY <2>2, <1>9 DEF On
      <3>2. j = slot[x]
        BY <2>2, <3>1, <1>2 DEF Slots, Pending, Taken, Idle
      <3>3. SlotsLeft[x] = j
        BY <2>0, <3>1, <3>2, SettledIs
      <3>4. CASE x = t
        BY <3>1, <3>3, <3>4, <2>0, <1>2 DEF Pending, Taken
      <3>5. CASE x # t
        BY <3>3, <3>5, <2>0, <1>2, <1>7 DEF Pending
      <3> QED BY <3>4, <3>5
    <2> QED BY <2>1, <2>2, <1>6
  <1>11. render'.at = "replace" =>
           /\ render'.job \in On(t)
           /\ \A j \in On(t)' : j <= render'.job \/ j = ops'
    <2> SUFFICES ASSUME render'.at = "replace"
                 PROVE  SlotsLeft[t] \in On(t) /\ \A j \in On(t)' : j <= SlotsLeft[t] \/ j = n
      BY <1>2
    <2>1. SlotsLeft[t] = slot[t] /\ slot[t] # 0
      BY <1>2, SettledIs
    <2> QED BY <2>1, <1>6 DEF Slots
  <1>12. render'.on \in live' /\ render'.codec \in Codecs /\ slot'[render'.on] = ops' /\ ops' # 0
         /\ op'[ops'].stage = "sent" /\ op'[ops'].on = render'.on
    BY <1>1, <1>2, <1>5, <1>7
  <1>13. render'.at \in {"send", "replace"}
    BY <1>2
  <1> QED BY <1>2, <1>6, <1>8, <1>10, <1>11, <1>12, <1>13 DEF Slots

\* A write finds its texture's slot empty.
LEMMA WriteSlots ==
  ASSUME Finite, Types, Types', Slots, Write
  PROVE  Slots'
  <1>1. PICK n \in Ops : n = ops + 1 /\ n # 0
    BY DEF Write, Types, Finite, Ops
  <1>2. PICK t \in live : t = render.on
    BY DEF Write, Slots
  <1>3. /\ render.at = "use" /\ ops' = n /\ render'.at = "idle" /\ live' = live /\ slot' = slot
        /\ op' = [op EXCEPT ![n] = [on |-> t, stage |-> "landed", picture |-> TRUE]]
    BY <1>1, <1>2 DEF Write, Idle
  <1>4. /\ \A j \in 1..n : j \in 1..ops \/ j = n
        /\ 1..ops \subseteq 1..n /\ n \in 1..n /\ n \notin 1..ops /\ 1..ops \subseteq Ops
    BY <1>1, SMTT(60) DEF Types, Finite, Ops
  <1>5. /\ op'[n] = [on |-> t, stage |-> "landed", picture |-> TRUE]
        /\ \A j \in 1..ops : op'[j] = op[j]
    BY <1>1, <1>3, <1>4 DEF Types
  <1>6. \A x : /\ x # t => On(x)' = On(x)
               /\ On(t)' = On(t) \cup {n}
    BY <1>3, <1>4, <1>5 DEF On
  <1>7. slot[t] = 0
    BY <1>2, <1>3 DEF Slots
  <1>8. \A x \in Targets : slot[x] # 0 => slot[x] \in On(x)' /\ \A j \in On(x)' : j <= slot[x]
    BY <1>6, <1>7 DEF Slots
  <1>9. \A x \in live : \A j \in On(x)' : Landed(j)' \/ j \in Pending(x)'
    <2> SUFFICES ASSUME NEW x \in live, NEW j \in On(x)', ~Landed(j)' PROVE j \in Pending(x)'
      OBVIOUS
    <2>1. j # n
      BY <1>5 DEF Landed
    <2>2. j \in On(x) /\ j \in 1..ops
      BY <2>1, <1>6 DEF On
    <2>3. ~Landed(j)
      BY <2>2, <1>5 DEF Landed
    <2>4. j = slot[x]
      BY <2>2, <2>3, <1>3 DEF Slots, Pending, Taken
    <2> QED BY <2>2, <2>4, <1>3, <1>4 DEF Pending
  <1> QED BY <1>3, <1>8, <1>9 DEF Slots

\* A command takes what is pending on its texture out of the slot.
LEMMA CommandSlots ==
  ASSUME Finite, Types, Slots, CountHonest, NEW t \in Targets, Command(t)
  PROVE  Slots'
  <1>1. /\ render = Idle /\ t \in live /\ UNCHANGED <<ops, op, live>>
        /\ LET pending == IF counted = 0 THEN 0 ELSE slot[t] IN
             /\ slot' = IF pending = 0 THEN slot ELSE [slot EXCEPT ![t] = 0]
             /\ render' = [Idle EXCEPT !.at = IF pending = 0 THEN "use" ELSE "settle",
                                       !.on = t, !.job = pending]
    BY DEF Command, jobVars
  <1>2. \A x : On(x)' = On(x) /\ \A j : Landed(j)' <=> Landed(j)
    BY <1>1 DEF On, Landed
  <1>3. \A x \in live : \A j \in On(x) : Landed(j) \/ j = slot[x]
    BY <1>1 DEF Slots, Pending, Taken, Idle
  <1>4. CASE slot[t] = 0
    <2>1. slot' = slot /\ render'.at = "use" /\ render'.on = t
      BY <1>1, <1>4 DEF Idle
    <2>2. \A x \in live : \A j \in On(x) : Landed(j) \/ j \in Pending(x)'
      BY <1>1, <1>3, <2>1 DEF Pending, On
    <2> QED BY <1>1, <1>2, <1>4, <2>1, <2>2 DEF Slots
  <1>5. CASE slot[t] # 0
    <2>1. counted # 0
      BY <1>1, <1>5, CountZero
    <2>2. /\ slot' = [slot EXCEPT ![t] = 0] /\ render'.at = "settle" /\ render'.on = t
          /\ render'.job = slot[t]
      BY <1>1, <1>5, <2>1 DEF Idle
    <2>3. slot'[t] = 0 /\ \A x \in Targets : x # t => slot'[x] = slot[x]
      BY <2>2 DEF Types
    <2>4. \A x \in live : \A j \in On(x) : Landed(j) \/ j \in Pending(x)'
      <3> SUFFICES ASSUME NEW x \in live, NEW j \in On(x), j = slot[x] PROVE j \in Pending(x)'
        BY <1>3
      <3>1. x \in Targets /\ j \in 1..ops
        BY DEF Types, On
      <3> QED BY <1>1, <2>2, <2>3, <3>1 DEF Pending, Taken
    <2>5. slot[t] \in On(t) /\ \A j \in On(t) : j <= slot[t]
      BY <1>5 DEF Slots
    <2>6. \A x \in Targets : slot'[x] # 0 => slot'[x] \in On(x) /\ \A j \in On(x) : j <= slot'[x]
      BY <2>3 DEF Slots
    <2> QED BY <1>1, <1>2, <2>2, <2>3, <2>4, <2>5, <2>6 DEF Slots
  <1> QED BY <1>4, <1>5

\* A decode replaced has landed...
LEMMA ReplaceSlots ==
  ASSUME Types, Slots, Replace
  PROVE  Slots'
  <1>1. /\ render.at = "replace" /\ Landed(render.job) /\ UNCHANGED <<ops, op, slot, live>>
        /\ render' = [render EXCEPT !.at = "send"]
    BY DEF Replace, jobVars
  <1>2. \A x : On(x)' = On(x) /\ \A j : Landed(j)' <=> Landed(j)
    BY <1>1 DEF On, Landed
  <1>3. render'.at = "send" /\ render'.on = render.on /\ render'.codec = render.codec
    BY <1>1 DEF Types
  <1>4. \A x \in live : \A j \in On(x) : Landed(j) \/ j \in Pending(x)'
    BY <1>1 DEF Slots, Pending, Taken
  <1> QED BY <1>1, <1>2, <1>3, <1>4 DEF Slots

\* ...and so has one settled.
LEMMA SettleSlots ==
  ASSUME Types, Slots, Settle
  PROVE  Slots'
  <1>1. /\ render.at = "settle" /\ Landed(render.job) /\ UNCHANGED <<ops, op, slot, live>>
        /\ render'.at = "use" /\ render'.on = render.on
    BY DEF Settle, jobVars, Idle
  <1>2. \A x : On(x)' = On(x) /\ \A j : Landed(j)' <=> Landed(j)
    BY <1>1 DEF On, Landed
  <1>4. \A x \in live : \A j \in On(x) : Landed(j) \/ j \in Pending(x)'
    BY <1>1 DEF Slots, Pending, Taken
  <1> QED BY <1>1, <1>2, <1>4 DEF Slots

\* The render thread may turn to something else, waiting for no texture.
LEMMA AsideSlots ==
  ASSUME Types, Slots, UNCHANGED <<ops, op, slot, live>>,
         render.at \notin {"replace", "settle"}, render'.at \in {"idle", "join", "drain"}
  PROVE  Slots'
  <1>1. \A x : On(x)' = On(x) /\ \A j : Landed(j)' <=> Landed(j)
    BY DEF On, Landed
  <1>2. \A x \in live : \A j \in On(x) : Landed(j) \/ j \in Pending(x)'
    BY DEF Slots, Pending, Taken
  <1> QED BY <1>1, <1>2 DEF Slots

\* settle_video empties every slot.
LEMMA DrainSlots ==
  ASSUME Finite, Types, Threads, Slots, DrainAll
  PROVE  Slots'
  <1>1. /\ UNCHANGED <<ops, op, live>> /\ slot' = SlotsLeft /\ render'.at = "drained"
        /\ render.at = "drain" /\ \A c \in Codecs : newest[c] # 0 => Landed(newest[c])
    BY DEF DrainAll, jobVars, Idle
  <1>2. \A j \in 1..ops : Landed(j)
    BY <1>1, NoneFlies
  <1>3. \A x : On(x)' = On(x) /\ \A j \in On(x) : Landed(j)'
    BY <1>1, <1>2 DEF On, Landed
  <1>4. \A x \in live : SlotsLeft[x] = 0
    <2> SUFFICES ASSUME NEW x \in live, slot[x] # 0 PROVE x \in Settled
      BY SettledIs DEF Types
    <2>1. x \in Targets /\ slot[x] \in 1..ops
      BY DEF Types
    <2> QED BY <2>1, <1>2, SettledIs
  <1>5. \A x \in Targets : slot'[x] # 0 => slot'[x] = slot[x]
    BY <1>1, SettledIs
  <1> QED BY <1>1, <1>3, <1>4, <1>5 DEF Slots

\* A texture destroyed is no longer asked about.
LEMMA DestroySlots ==
  ASSUME Types, Slots, NEW t \in Targets, DestroyTexture(t)
  PROVE  Slots'
  <1>1. /\ render = Idle /\ live' = live \ {t} /\ slot' = [slot EXCEPT ![t] = 0]
        /\ UNCHANGED <<ops, op, render>>
    BY DEF DestroyTexture, jobVars, waitVars
  <1>2. \A x : On(x)' = On(x) /\ \A j : Landed(j)' <=> Landed(j)
    BY <1>1 DEF On, Landed
  <1>3. slot'[t] = 0 /\ \A x \in Targets : x # t => slot'[x] = slot[x]
    BY <1>1 DEF Types
  <1>4. \A x \in live' : \A j \in On(x) : Landed(j) \/ j \in Pending(x)'
    <2> SUFFICES ASSUME NEW x \in live, x # t, NEW j \in On(x), ~Landed(j) PROVE j \in Pending(x)'
      BY <1>1
    <2>1. j \in Pending(x) /\ x \in Targets
      BY DEF Slots, Types
    <2> QED BY <2>1, <1>1, <1>3 DEF Pending, Taken
  <1> QED BY <1>1, <1>2, <1>3, <1>4 DEF Slots, Idle

\* Every step keeps the slots' promise.
LEMMA SlotsKept ==
  Finite /\ Types /\ Types' /\ Threads /\ Slots /\ CountHonest /\ [Next]_vars => Slots'
  <1> SUFFICES ASSUME Finite, Types, Types', Threads, Slots, CountHonest, [Next]_vars PROVE Slots'
    OBVIOUS
  <1>0. 1..ops \subseteq Ops
    BY DEF Types, Finite, Ops
  <1>1. ASSUME NEW c \in Codecs, NEW t \in Targets, EndFrame(c, t) PROVE Slots'
    BY <1>1, EndFrameSlots
  <1>2. ASSUME NEW t \in Targets, Command(t) \/ DestroyTexture(t) PROVE Slots'
    BY <1>2, CommandSlots, DestroySlots
  <1>3. CASE Write \/ Replace \/ Settle \/ DrainAll
    BY <1>3, WriteSlots, ReplaceSlots, SettleSlots, DrainSlots
  <1>4. CASE Send \/ Read \/ Join \/ Drained \/ Drain
    <2>1. UNCHANGED <<ops, op, slot, live>>
      BY <1>4 DEF Send, Read, Join, Drained, Drain, jobVars, slotVars
    <2>2. render.at \notin {"replace", "settle"} /\ render'.at \in {"idle", "join", "drain"}
      BY <1>4 DEF Send, Read, Join, Drained, Drain, Idle
    <2> QED BY <2>1, <2>2, AsideSlots
  <1>5. ASSUME NEW c \in Codecs, DestroyCodec(c) PROVE Slots'
    BY <1>5, AsideSlots DEF DestroyCodec, jobVars, slotVars, Idle
  <1>6. ASSUME NEW c \in Codecs, Decode(c) \/ Fence(c) PROVE Slots'
    BY <1>6, SlotsStay DEF Decode, Fence, jobVars, slotVars, waitVars, Landed
  <1>7. ASSUME NEW c \in Codecs, DecodeOne(c) \/ Land(c) PROVE Slots'
    <2>1. UNCHANGED <<ops, slot, live, render>>
      BY <1>7 DEF DecodeOne, Land, slotVars, waitVars
    <2>2. PICK h \in 1..ops : h = hand[c] /\ h # 0
      BY <1>7, Decoding, LandIs DEF DecodeOne, Land
    <2>3. /\ op'[h].on = op[h].on
          /\ Landed(h) => Landed(h)'
          /\ \A j \in Ops : j # h => op'[j] = op[j]
      <3>1. op'[h].on = op[h].on /\ \A j \in Ops : j # h => op'[j] = op[j]
        BY <1>7, <2>2, Decoding, LandIs
      <3>2. DecodeOne(c) => ~Landed(h)
        BY <2>2 DEF DecodeOne, Landed
      <3>3. Land(c) => Landed(h)'
        BY <2>2, LandIs DEF Landed
      <3> QED BY <1>7, <3>1, <3>2, <3>3
    <2>4. render.at \in {"send", "replace"} => op'[ops].stage = op[ops].stage
      <3> SUFFICES ASSUME render.at \in {"send", "replace"} PROVE op'[ops] = op[ops]
        OBVIOUS
      <3>1. ~Unsent(h)
        BY <2>2 DEF Threads
      <3>2. h # ops
        BY <3>1 DEF Unsent
      <3>3. ops \in Ops
        BY <1>0 DEF Slots, Types
      <3> QED BY <3>2, <3>3, <2>3
    <2>5. \A j \in 1..ops : op'[j].on = op[j].on /\ (Landed(j) => Landed(j)')
      <3> SUFFICES ASSUME NEW j \in 1..ops PROVE op'[j].on = op[j].on /\ (Landed(j) => Landed(j)')
        OBVIOUS
      <3>1. CASE j = h
        BY <3>1, <2>3
      <3>2. CASE j # h
        <4>1. op'[j] = op[j]
          BY <3>2, <1>0, <2>3
        <4> QED BY <4>1 DEF Landed
      <3> QED BY <3>1, <3>2
    <2> QED BY <2>1, <2>4, <2>5, SlotsStay
  <1>8. CASE Retire \/ (\E who \in {"render", "fence"} : Sleep(who)) \/ UNCHANGED vars
    BY <1>8, SlotsStay DEF Retire, Sleep, jobVars, slotVars, waitVars, vars, Landed
  <1> QED BY <1>1, <1>2, <1>3, <1>4, <1>5, <1>6, <1>7, <1>8 DEF Next, Render, Thread

-----------------------------------------------------------------------------
(* What the textures hold                                                  *)

\* A decode delivered leaves its texture with the newest of what it had and the picture.
LEMMA Delivers ==
  ASSUME Finite, Types, NEW t \in live, IsNewest(holds[t], Yielded(t)), NEW j \in On(t),
         \A k \in Yielded(t) : k <= j
  PROVE  IsNewest(Delivered(j, t), Yielded(t) \cup {k \in {j} : op[k].picture = TRUE})
  <1>0. j \in Nat /\ j <= j
    BY DEF On, Types
  <1>1. op[j].picture \in BOOLEAN
    <2>1. j \in Ops
      BY DEF On, Types, Finite, Ops
    <2> QED BY <2>1 DEF Types
  <1>2. CASE t \in composite
    <2>1. Delivered(j, t) = holds[t] /\ {k \in {j} : op[k].picture = TRUE} \subseteq Yielded(t)
      BY <1>2 DEF Delivered, Yielded
    <2> QED BY <2>1 DEF IsNewest
  <1>3. CASE t \notin composite /\ op[j].picture = TRUE
    <2>1. Delivered(j, t) = j
      BY <1>3 DEF Delivered
    <2> QED BY <2>1, <1>0, <1>3 DEF IsNewest
  <1>4. CASE t \notin composite /\ op[j].picture # TRUE
    <2>1. op[j].picture = FALSE
      BY <1>1, <1>4
    <2>2. Delivered(j, t) = holds[t]
      BY <2>1 DEF Delivered
    <2> QED BY <2>2, <1>4 DEF IsNewest
  <1> QED BY <1>2, <1>3, <1>4

\* A step that leaves the textures and the slots keeps what they hold.
LEMMA HeldStays ==
  ASSUME Held, UNCHANGED <<ops, op, slot, holds, composite>>, live' \subseteq live,
         \A t : Taken(t)' <=> Taken(t), \A t : Taken(t) => render'.job = render.job
  PROVE  Held'
  <1>1. \A t : Pending(t)' = Pending(t)
    BY DEF Pending
  <1>2. \A t : On(t)' = On(t)
    BY DEF On
  <1>3. \A t : Yielded(t)' = Yielded(t)
    BY <1>1, <1>2 DEF Yielded
  <1> QED BY <1>3 DEF Held, IsNewest

\* A texture settled in passing: what is delivered is the newest of it.
LEMMA SettledNewest ==
  ASSUME Finite, Types, Slots, Held, NEW t \in Settled
  PROVE  /\ slot[t] \in On(t) /\ slot[t] # 0
         /\ IsNewest(DeliveredAll[t], Yielded(t) \cup {k \in {slot[t]} : op[k].picture = TRUE})
  <1>1. /\ t \in live /\ t \in Targets /\ slot[t] # 0 /\ Landed(slot[t])
        /\ DeliveredAll[t] = Delivered(slot[t], t)
    BY SettledIs DEF Types
  <1>2. slot[t] \in On(t) /\ \A k \in Yielded(t) : k <= slot[t]
    BY <1>1 DEF Slots, Yielded
  <1> QED BY <1>1, <1>2, Delivers DEF Held

\* An END_FRAME delivers what has landed, and the decode it attaches yields nothing yet.
LEMMA EndFrameHeld ==
  ASSUME Finite, Types, Slots, Held, NEW c \in Codecs, NEW t \in Targets, EndFrame(c, t)
  PROVE  Held'
  <1>1. PICK n \in Ops : n = ops + 1 /\ n # 0
    BY DEF EndFrame, Types, Finite, Ops
  <1>2. /\ render = Idle /\ t \in live /\ ops' = n /\ live' = live /\ composite' = composite
        /\ op' = [op EXCEPT ![n] = [on |-> t, stage |-> "sent", picture |-> FALSE]]
        /\ slot' = [SlotsLeft EXCEPT ![t] = n] /\ holds' = DeliveredAll
        /\ render'.at = (IF SlotsLeft[t] = 0 THEN "send" ELSE "replace") /\ render'.on = t
        /\ render'.job = SlotsLeft[t]
    BY <1>1 DEF EndFrame
  <1>3. \A j \in 1..n : j \in 1..ops \/ j = n
    BY <1>1 DEF Types
  <1>4. /\ 1..ops \subseteq 1..n /\ n \in 1..n /\ n \notin 1..ops /\ 1..ops \subseteq Ops
        /\ 0 \notin 1..ops
    BY <1>1 DEF Types, Finite, Ops
  <1>5. op'[n] = [on |-> t, stage |-> "sent", picture |-> FALSE] /\ \A j \in 1..ops : op'[j] = op[j]
    BY <1>1, <1>2, <1>4 DEF Types
  <1>6. \A x : /\ x # t => On(x)' = On(x)
               /\ On(t)' = On(t) \cup {n}
    BY <1>2, <1>3, <1>4, <1>5 DEF On
  <1>7. slot'[t] = n /\ \A x \in Targets : x # t => slot'[x] = SlotsLeft[x]
    BY <1>2, SettledIs
  <1>8. \A x : \A j \in On(x) : j \in 1..ops /\ j # n /\ op'[j] = op[j]
    BY <1>4, <1>5 DEF On
  <1>9. ASSUME NEW x \in live, x \in Settled
        PROVE  IsNewest(holds[x], Yielded(x))'
    <2>0. x \in Targets
      BY DEF Types
    <2>1. /\ slot[x] \in On(x) /\ SlotsLeft[x] = 0 /\ slot[x] # 0
          /\ IsNewest(DeliveredAll[x], Yielded(x) \cup {k \in {slot[x]} : op[k].picture = TRUE})
      BY <1>9, <2>0, SettledIs, SettledNewest
    <2>2. \A j \in On(x) : (j \in Pending(x) <=> j = slot[x]) /\ j \notin Pending(x)'
      <3>1. ~Taken(x) /\ ~Taken(x)'
        BY <2>1, <1>2 DEF Taken, Idle
      <3>2. slot'[x] = 0 \/ slot'[x] = n
        BY <2>0, <2>1, <1>7
      <3> QED BY <3>1, <3>2, <1>4, <1>8 DEF Pending
    <2>3. Yielded(x)' = Yielded(x) \cup {k \in {slot[x]} : op[k].picture = TRUE}
      <3>1. op'[n].picture = FALSE
        BY <1>5
      <3>2. \A j \in On(x) : j \in Yielded(x)' <=> op[j].picture = TRUE
        <4>1. On(x) \subseteq On(x)'
          BY <1>6
        <4> QED BY <4>1, <2>2, <1>8 DEF Yielded
      <3>3. \A j \in On(x) :
              j \in Yielded(x) <=> op[j].picture = TRUE /\ (x \in composite \/ j # slot[x])
        BY <2>2 DEF Yielded
      <3>4. Yielded(x)' \subseteq On(x)
        BY <3>1, <1>6 DEF Yielded
      <3>5. Yielded(x) \subseteq On(x)
        BY DEF Yielded
      <3> QED BY <3>2, <3>3, <3>4, <3>5, <2>1
    <2> QED BY <2>1, <2>3, <1>2 DEF IsNewest
  <1>10. ASSUME NEW x \in live, x \notin Settled
         PROVE  IsNewest(holds[x], Yielded(x))'
    <2>0. x \in Targets
      BY DEF Types
    <2>1. SlotsLeft[x] = slot[x] /\ DeliveredAll[x] = holds[x] /\ IsNewest(holds[x], Yielded(x))
      BY <1>10, <2>0, SettledIs DEF Held
    <2>2. \A j \in On(x) : j \in Pending(x)' <=> j \in Pending(x)
      <3>1. ~Taken(x)
        BY <1>2 DEF Taken, Idle
      <3>2. CASE x # t
        <4>1. slot'[x] = slot[x] /\ ~Taken(x)'
          BY <3>2, <2>0, <2>1, <1>2, <1>7 DEF Taken
        <4> QED BY <4>1, <3>1, <1>8, <1>2, <1>4 DEF Pending
      <3>3. CASE x = t /\ slot[x] = 0
        <4>1. slot'[x] = n /\ ~Taken(x)'
          BY <3>3, <2>0, <2>1, <1>2, <1>7 DEF Taken
        <4> QED BY <4>1, <3>1, <3>3, <1>8, <1>2, <1>4 DEF Pending
      <3>4. CASE x = t /\ slot[x] # 0
        <4>1. slot'[x] = n /\ Taken(x)' /\ render'.job = slot[x]
          BY <3>4, <2>0, <2>1, <1>2, <1>7 DEF Taken
        <4> QED BY <4>1, <3>1, <1>8, <1>2, <1>4 DEF Pending
      <3> QED BY <3>2, <3>3, <3>4
    <2>3. Yielded(x)' = Yielded(x)
      <3>1. op'[n].picture = FALSE
        BY <1>5
      <3>2. \A j \in On(x) : j \in Yielded(x)' <=> j \in Yielded(x)
        <4>1. On(x) \subseteq On(x)'
          BY <1>6
        <4> QED BY <4>1, <2>2, <1>2, <1>8 DEF Yielded
      <3>4. Yielded(x)' \subseteq On(x)
        BY <3>1, <1>6 DEF Yielded
      <3>5. Yielded(x) \subseteq On(x)
        BY DEF Yielded
      <3> QED BY <3>2, <3>4, <3>5
    <2> QED BY <2>1, <2>3, <1>2 DEF IsNewest
  <1> QED BY <1>2, <1>9, <1>10 DEF Held

\* A write is the newest of its texture.
LEMMA WriteHeld ==
  ASSUME Finite, Types, Slots, Held, Write
  PROVE  Held'
  <1>1. PICK n \in Ops : n = ops + 1 /\ n # 0
    BY DEF Write, Types, Finite, Ops
  <1>2. PICK t \in live : t = render.on
    BY DEF Write, Slots
  <1>3. /\ render.at = "use" /\ ops' = n /\ render'.at = "idle" /\ live' = live /\ slot' = slot
        /\ op' = [op EXCEPT ![n] = [on |-> t, stage |-> "landed", picture |-> TRUE]]
        /\ holds' = [holds EXCEPT ![t] = n] /\ composite' = composite
    BY <1>1, <1>2 DEF Write, Idle
  <1>4. /\ \A j \in 1..n : j \in 1..ops \/ j = n
        /\ 1..ops \subseteq 1..n /\ n \in 1..n /\ n \notin 1..ops /\ 1..ops \subseteq Ops
        /\ n <= n /\ \A j \in 1..ops : j <= n
    BY <1>1 DEF Types, Finite, Ops
  <1>5. /\ op'[n] = [on |-> t, stage |-> "landed", picture |-> TRUE]
        /\ \A j \in 1..ops : op'[j] = op[j]
    BY <1>1, <1>3, <1>4 DEF Types
  <1>6. \A x : /\ x # t => On(x)' = On(x)
               /\ On(t)' = On(t) \cup {n}
    BY <1>3, <1>4, <1>5 DEF On
  <1>7. \A x : \A j \in On(x) : j \in 1..ops /\ j # n /\ op'[j] = op[j]
    BY <1>4, <1>5 DEF On
  <1>8. \A x : \A j \in On(x) : j \in Pending(x)' <=> j \in Pending(x)
    BY <1>3, <1>4, <1>7 DEF Pending, Taken
  <1>9. holds'[t] = n /\ \A x \in live : x # t => holds'[x] = holds[x]
    BY <1>3 DEF Types
  <1>10. ASSUME NEW x \in live, x # t PROVE IsNewest(holds[x], Yielded(x))'
    <2>1. Yielded(x)' = Yielded(x)
      BY <1>10, <1>3, <1>6, <1>7, <1>8 DEF Yielded
    <2> QED BY <2>1, <1>9, <1>10 DEF Held, IsNewest
  <1>11. IsNewest(holds[t], Yielded(t))'
    <2>1. n \notin Pending(t)'
      <3>1. slot[t] = 0
        BY <1>2, <1>3 DEF Slots
      <3> QED BY <3>1, <1>1, <1>3 DEF Pending, Taken
    <2>2. n \in Yielded(t)'
      BY <2>1, <1>5, <1>6 DEF Yielded
    <2>3. \A j \in Yielded(t)' : j <= n
      BY <1>4, <1>6, <1>7 DEF Yielded
    <2> QED BY <2>2, <2>3, <1>9 DEF IsNewest
  <1> QED BY <1>3, <1>10, <1>11 DEF Held

\* The decode waited for is the newest of its texture but for the one not sent yet.
LEMMA DeliverHeld ==
  ASSUME Finite, Types, Slots, Held, Replace \/ Settle
  PROVE  Held'
  <1>1. /\ render.at \in {"replace", "settle"} /\ Landed(render.job)
        /\ render'.at \in {"send", "use"} /\ UNCHANGED <<ops, op, slot, live, composite>>
        /\ holds' = [holds EXCEPT ![render.on] = Delivered(render.job, render.on)]
    BY DEF Replace, Settle, Replaced, jobVars, Types, Idle
  <1>2. PICK t \in live : t = render.on
    BY <1>1 DEF Slots
  <1>3. PICK j \in On(t) : j = render.job
    BY <1>1, <1>2 DEF Slots
  <1>4. t \in Targets /\ 1..ops \subseteq Ops
    BY DEF Types, Finite, Ops
  <1>5. holds'[t] = Delivered(j, t) /\ \A x \in live : x # t => holds'[x] = holds[x]
    BY <1>1, <1>2, <1>3, <1>4 DEF Types
  <1>6. \A k \in On(t) : op[k].picture = TRUE => k <= j
    <2> SUFFICES ASSUME NEW k \in On(t), op[k].picture = TRUE PROVE k <= j
      OBVIOUS
    <2>1. CASE render.at = "settle"
      BY <2>1, <1>2, <1>3 DEF Slots
    <2>2. CASE render.at = "replace"
      <3>1. k <= j \/ k = ops
        BY <2>2, <1>2, <1>3 DEF Slots
      <3>2. k = ops => op[k].picture = FALSE
        BY <2>2 DEF Slots, Types, On
      <3> QED BY <3>1, <3>2
    <2> QED BY <1>1, <2>1, <2>2
  <1>7. \A x : On(x)' = On(x)
    BY <1>1 DEF On
  <1>8. \A x : ~Taken(x)' /\ (Taken(x) <=> x = t)
    BY <1>1, <1>2 DEF Taken
  <1>9. j # slot[t]
    <2>1. CASE render.at = "settle"
      BY <2>1, <1>2, <1>4 DEF Slots, On
    <2>2. CASE render.at = "replace"
      BY <2>2, <1>1, <1>2, <1>3 DEF Slots, Landed
    <2> QED BY <1>1, <2>1, <2>2
  <1>10. ASSUME NEW x \in live, x # t PROVE IsNewest(holds[x], Yielded(x))'
    <2>1. Pending(x)' = Pending(x)
      BY <1>1, <1>8, <1>10 DEF Pending
    <2>2. Yielded(x)' = Yielded(x)
      BY <2>1, <1>1, <1>7 DEF Yielded
    <2> QED BY <2>2, <1>5, <1>10 DEF Held, IsNewest
  <1>11. IsNewest(holds[t], Yielded(t))'
    <2>1. Pending(t)' = Pending(t) \ {j}
      BY <1>1, <1>3, <1>8, <1>9 DEF Pending
    <2>2. Yielded(t)' = Yielded(t) \cup {k \in {j} : op[k].picture = TRUE}
      BY <2>1, <1>1, <1>7 DEF Yielded
    <2>3. \A k \in Yielded(t) : k <= j
      BY <1>6 DEF Yielded
    <2>4. IsNewest(Delivered(j, t), Yielded(t) \cup {k \in {j} : op[k].picture = TRUE})
      BY <2>3, Delivers DEF Held
    <2> QED BY <2>2, <2>4, <1>5 DEF IsNewest
  <1> QED BY <1>1, <1>10, <1>11 DEF Held

\* What is taken out of a slot is pending still.
LEMMA CommandHeld ==
  ASSUME Finite, Types, Slots, Held, CountHonest, NEW t \in Targets, Command(t)
  PROVE  Held'
  <1>1. /\ render = Idle /\ t \in live /\ UNCHANGED <<ops, op, live, holds, composite>>
        /\ LET pending == IF counted = 0 THEN 0 ELSE slot[t] IN
             /\ slot' = IF pending = 0 THEN slot ELSE [slot EXCEPT ![t] = 0]
             /\ render' = [Idle EXCEPT !.at = IF pending = 0 THEN "use" ELSE "settle",
                                       !.on = t, !.job = pending]
    BY DEF Command, jobVars
  <1>2. CASE slot[t] = 0
    <2>1. slot' = slot /\ render'.at = "use"
      BY <1>1, <1>2 DEF Idle
    <2> QED BY <1>1, <2>1, HeldStays DEF Taken, Idle
  <1>3. CASE slot[t] # 0
    <2>1. counted # 0
      BY <1>1, <1>3, CountZero
    <2>2. /\ slot' = [slot EXCEPT ![t] = 0] /\ render'.at = "settle" /\ render'.on = t
          /\ render'.job = slot[t]
      BY <1>1, <1>3, <2>1 DEF Idle
    <2>3. slot'[t] = 0 /\ \A x \in Targets : x # t => slot'[x] = slot[x]
      BY <2>2 DEF Types
    <2>4. \A x \in live : Pending(x)' = Pending(x)
      <3> SUFFICES ASSUME NEW x \in live PROVE Pending(x)' = Pending(x)
        OBVIOUS
      <3>1. x \in Targets /\ ~Taken(x) /\ (Taken(x)' <=> x = t) /\ 0 \notin 1..ops
        BY <1>1, <2>2 DEF Types, Taken, Idle
      <3> QED BY <1>1, <2>2, <2>3, <3>1 DEF Pending
    <2>5. \A x \in live : Yielded(x)' = Yielded(x)
      BY <1>1, <2>4 DEF Yielded, On
    <2> QED BY <1>1, <2>5 DEF Held, IsNewest
  <1> QED BY <1>2, <1>3

\* settle_video delivers all that is pending.
LEMMA DrainHeld ==
  ASSUME Finite, Types, Threads, Slots, Held, DrainAll
  PROVE  Held'
  <1>1. /\ UNCHANGED <<ops, op, live, composite>> /\ slot' = SlotsLeft /\ render'.at = "drained"
        /\ holds' = DeliveredAll /\ render.at = "drain"
        /\ \A c \in Codecs : newest[c] # 0 => Landed(newest[c])
    BY DEF DrainAll, jobVars, Idle
  <1>2. \A j \in 1..ops : Landed(j)
    BY <1>1, NoneFlies
  <1>3. \A x : On(x)' = On(x) /\ ~Taken(x) /\ ~Taken(x)'
    BY <1>1 DEF On, Taken
  <1>4. ASSUME NEW x \in live, x \in Settled PROVE IsNewest(holds[x], Yielded(x))'
    <2>1. x \in Targets /\ 0 \notin 1..ops
      BY DEF Types
    <2>2. /\ slot[x] \in On(x) /\ SlotsLeft[x] = 0
          /\ IsNewest(DeliveredAll[x], Yielded(x) \cup {k \in {slot[x]} : op[k].picture = TRUE})
      BY <1>4, <2>1, SettledIs, SettledNewest
    <2>3. Pending(x)' = {} /\ \A j \in On(x) : j \in Pending(x) <=> j = slot[x]
      BY <1>1, <1>3, <2>1, <2>2 DEF Pending, On
    <2>4. Yielded(x)' = Yielded(x) \cup {k \in {slot[x]} : op[k].picture = TRUE}
      BY <1>1, <1>3, <2>2, <2>3 DEF Yielded
    <2> QED BY <1>1, <2>2, <2>4 DEF IsNewest
  <1>5. ASSUME NEW x \in live, x \notin Settled PROVE IsNewest(holds[x], Yielded(x))'
    <2>1. x \in Targets /\ SlotsLeft[x] = slot[x] /\ DeliveredAll[x] = holds[x]
      BY <1>5, SettledIs DEF Types
    <2>2. Pending(x)' = Pending(x)
      BY <1>1, <1>3, <2>1 DEF Pending
    <2>3. Yielded(x)' = Yielded(x)
      BY <1>1, <1>3, <2>2 DEF Yielded
    <2> QED BY <1>1, <2>1, <2>3 DEF Held, IsNewest
  <1> QED BY <1>1, <1>4, <1>5 DEF Held

\* A decode on its way to a texture that stands is the newest of it that may yield.
LEMMA FlyingNewest ==
  ASSUME Finite, Types, Slots, NEW t \in live, NEW j \in On(t), op[j].stage = "sent",
         ~Unsent(j)
  PROVE  \A k \in On(t) : op[k].picture = TRUE => k <= j
  <1>1. j \in Pending(t) /\ t \in Targets /\ 0 \notin 1..ops /\ j \in 1..ops
    BY DEF Slots, Landed, Types, On
  <1>2. CASE j = slot[t]
    BY <1>1, <1>2 DEF Slots
  <1>3. CASE Taken(t) /\ j = render.job
    <2>1. CASE render.at = "settle"
      BY <1>3, <2>1 DEF Slots, Taken
    <2>2. CASE render.at = "replace"
      <3>1. \A k \in On(t) : k <= j \/ k = ops
        BY <1>3, <2>2 DEF Slots, Taken
      <3>2. ops \in 1..ops /\ op[ops].stage = "sent"
        BY <2>2 DEF Slots, Types
      <3>3. op[ops].picture = FALSE
        BY <3>2 DEF Types
      <3> QED BY <3>1, <3>3
    <2> QED BY <1>3, <2>1, <2>2 DEF Taken
  <1> QED BY <1>1, <1>2, <1>3 DEF Pending

\* A decode thread writes a composite target itself: with the newest, so nothing newer is
\* written over.
LEMMA DecodeOneHeld ==
  ASSUME Finite, Types, Threads, Slots, Held, NEW c \in Codecs, DecodeOne(c)
  PROVE  Held'
  <1>1. PICK j \in 1..ops : j = hand[c]
    BY Decoding
  <1>2. PICK t \in Targets : t = op[j].on
    BY <1>1, Decoding
  <1>3. UNCHANGED <<ops, slot, composite, live, render>>
    BY DEF DecodeOne, slotVars, waitVars
  <1>4. /\ op'[j].on = t /\ op[j].stage = "sent" /\ \A k \in Ops : k # j => op'[k] = op[k]
        /\ op'[j].picture = TRUE /\ t \in composite => holds' = [holds EXCEPT ![t] = j]
        /\ op'[j].picture = FALSE \/ t \notin composite => holds' = holds
        /\ op'[j].picture \in BOOLEAN
    <2>1. j \in Ops
      BY <1>1 DEF Types, Finite, Ops
    <2> QED BY <1>1, <1>2, <2>1, Decoding
  <1>5. 1..ops \subseteq Ops /\ op[j].picture = FALSE
    BY <1>4 DEF Types, Finite, Ops
  <1>6. j \in On(t) /\ \A x : On(x)' = On(x)
    BY <1>2, <1>3, <1>4, <1>5 DEF On
  <1>7. \A x : Pending(x)' = Pending(x)
    BY <1>3 DEF Pending, Taken
  <1>8. ~Unsent(j)
    BY <1>1 DEF Threads
  <1>9. ASSUME NEW x \in live, x # t PROVE IsNewest(holds[x], Yielded(x))'
    <2>1. holds'[x] = holds[x]
      BY <1>4, <1>9 DEF Types
    <2>2. \A k \in On(x) : k \in Ops /\ k # j /\ op'[k] = op[k]
      BY <1>2, <1>4, <1>5, <1>9 DEF On
    <2>3. Yielded(x)' = Yielded(x)
      BY <1>3, <1>6, <1>7, <2>2 DEF Yielded
    <2> QED BY <2>1, <2>3, <1>9 DEF Held, IsNewest
  <1>10. ASSUME t \in live PROVE IsNewest(holds[t], Yielded(t))'
    <2>1. j \in Pending(t)
      BY <1>4, <1>6, <1>10 DEF Slots, Landed
    <2>2. \A k \in On(t) : k \in Ops /\ (k # j => op'[k] = op[k])
      BY <1>4, <1>5 DEF On
    <2>3. CASE op'[j].picture = TRUE /\ t \in composite
      <3>1. holds'[t] = j
        BY <2>3, <1>4 DEF Types
      <3>2. \A k \in On(t) : op[k].picture = TRUE => k <= j
        BY <1>4, <1>6, <1>8, <1>10, FlyingNewest
      <3>3. j <= j
        BY DEF Types
      <3>4. \A k \in Yielded(t)' : k <= j
        BY <1>6, <2>2, <3>2, <3>3 DEF Yielded
      <3>5. j \in Yielded(t)'
        BY <2>3, <1>3, <1>6 DEF Yielded
      <3> QED BY <3>1, <3>4, <3>5 DEF IsNewest
    <2>4. CASE op'[j].picture = FALSE \/ t \notin composite
      <3>1. holds' = holds
        BY <2>4, <1>4
      <3>2. j \notin Yielded(t) /\ j \notin Yielded(t)'
        BY <2>1, <2>4, <1>3, <1>5, <1>7 DEF Yielded
      <3>3. Yielded(t)' = Yielded(t)
        BY <1>3, <1>6, <1>7, <2>2, <3>2 DEF Yielded
      <3> QED BY <3>1, <3>3, <1>10 DEF Held, IsNewest
    <2> QED BY <1>4, <2>3, <2>4
  <1> QED BY <1>3, <1>9, <1>10 DEF Held

\* A landing delivers nothing.
LEMMA LandHeld ==
  ASSUME Finite, Types, Threads, Slots, Held, NEW c \in Codecs, Land(c)
  PROVE  Held'
  <1>1. PICK j \in 1..ops : j = hand[c]
    BY LandIs
  <1>2. UNCHANGED <<ops, slot, holds, composite, live, render>> /\ 1..ops \subseteq Ops
    BY DEF Land, slotVars, Types, Finite, Ops
  <1>3. \A k \in 1..ops : op'[k].on = op[k].on /\ op'[k].picture = op[k].picture
    <2> SUFFICES ASSUME NEW k \in 1..ops, k # j PROVE op'[k] = op[k]
      BY <1>1, LandIs
    <2> QED BY <1>1, <1>2, LandIs
  <1>4. \A x : On(x)' = On(x) /\ Pending(x)' = Pending(x)
    BY <1>2, <1>3 DEF On, Pending, Taken
  <1>5. \A x : Yielded(x)' = Yielded(x)
    <2>1. \A x : \A k \in On(x) : op'[k].picture = op[k].picture
      BY <1>3 DEF On
    <2> QED BY <1>2, <1>4, <2>1 DEF Yielded
  <1> QED BY <1>2, <1>5 DEF Held, IsNewest

\* Nor does a texture's end.
LEMMA DestroyHeld ==
  ASSUME Types, Slots, Held, NEW t \in Targets, DestroyTexture(t)
  PROVE  Held'
  <1>1. /\ render = Idle /\ live' = live \ {t} /\ slot' = [slot EXCEPT ![t] = 0]
        /\ UNCHANGED <<ops, op, render, holds, composite>>
    BY DEF DestroyTexture, jobVars, waitVars
  <1>2. \A x \in live' : x \in live /\ slot'[x] = slot[x]
    BY <1>1 DEF Types
  <1>3. \A x \in live' : Pending(x)' = Pending(x)
    BY <1>1, <1>2 DEF Pending, Taken
  <1>4. \A x \in live' : Yielded(x)' = Yielded(x)
    BY <1>1, <1>3 DEF Yielded, On
  <1> QED BY <1>1, <1>2, <1>4 DEF Held, IsNewest

\* Every step leaves the textures with the newest of what was delivered.
LEMMA HeldKept ==
  Finite /\ Types /\ Threads /\ Slots /\ Held /\ CountHonest /\ [Next]_vars => Held'
  <1> SUFFICES ASSUME Finite, Types, Threads, Slots, Held, CountHonest, [Next]_vars PROVE Held'
    OBVIOUS
  <1>1. ASSUME NEW c \in Codecs, NEW t \in Targets, EndFrame(c, t) PROVE Held'
    BY <1>1, EndFrameHeld
  <1>2. ASSUME NEW t \in Targets, Command(t) \/ DestroyTexture(t) PROVE Held'
    BY <1>2, CommandHeld, DestroyHeld
  <1>3. CASE Write \/ Replace \/ Settle \/ DrainAll
    BY <1>3, WriteHeld, DeliverHeld, DrainHeld
  <1>4. CASE Send \/ Read \/ Join \/ Drained \/ Drain
    <2>1. UNCHANGED <<ops, op, slot, holds, composite, live>>
      BY <1>4 DEF Send, Read, Join, Drained, Drain, jobVars, slotVars
    <2>2. \A t : ~Taken(t) /\ ~Taken(t)'
      BY <1>4 DEF Send, Read, Join, Drained, Drain, Idle, Taken
    <2> QED BY <2>1, <2>2, HeldStays
  <1>5. ASSUME NEW c \in Codecs, DestroyCodec(c) PROVE Held'
    <2>1. \A t : ~Taken(t) /\ ~Taken(t)'
      BY <1>5 DEF DestroyCodec, Idle, Taken
    <2> QED BY <1>5, <2>1, HeldStays DEF DestroyCodec, jobVars, slotVars
  <1>6. ASSUME NEW c \in Codecs, Decode(c) \/ Fence(c) PROVE Held'
    BY <1>6, HeldStays DEF Decode, Fence, jobVars, slotVars, waitVars, Taken
  <1>7. ASSUME NEW c \in Codecs, DecodeOne(c) \/ Land(c) PROVE Held'
    BY <1>7, DecodeOneHeld, LandHeld
  <1>8. CASE Retire \/ (\E who \in {"render", "fence"} : Sleep(who)) \/ UNCHANGED vars
    BY <1>8, HeldStays DEF Retire, Sleep, jobVars, slotVars, waitVars, vars, Taken
  <1> QED BY <1>1, <1>2, <1>3, <1>4, <1>5, <1>6, <1>7, <1>8 DEF Next, Render, Thread

-----------------------------------------------------------------------------
(* The count                                                               *)

\* The textures with a decode pending.
Full == {t \in Targets : slot[t] # 0}

\* They are finitely many.
LEMMA FullIs ==
  Finite => IsFiniteSet(Full) /\ Cardinality(Full) \in Nat
  <1> SUFFICES ASSUME Finite PROVE IsFiniteSet(Full) /\ Cardinality(Full) \in Nat
    OBVIOUS
  <1>1. Full \subseteq Targets
    BY DEF Full
  <1> QED BY <1>1, FS_Subset, FS_CardinalityType DEF Finite

\* Settling takes out of the slots what it counts.
LEMMA SettledCount ==
  ASSUME Finite, Types
  PROVE  /\ IsFiniteSet(Full \ Settled)
         /\ Cardinality(Full \ Settled) = Cardinality(Full) - Cardinality(Settled)
         /\ {t \in Targets : SlotsLeft[t] # 0} = Full \ Settled
  <1>1. Settled \subseteq Full
    BY SettledIs DEF Full, Types
  <1>2. Full \cap Settled = Settled
    BY <1>1
  <1>3. {t \in Targets : SlotsLeft[t] # 0} = Full \ Settled
    BY SettledIs DEF Full
  <1> QED BY <1>2, <1>3, FullIs, FS_Difference

\* A step that leaves the slots, the count and the wait keeps the count honest.
LEMMA CountStays ==
  ASSUME CountHonest, UNCHANGED <<slot, counted>>,
         render'.at \in {"replace", "settle"} <=> render.at \in {"replace", "settle"}
  PROVE  CountHonest'
  BY DEF CountHonest

\* An END_FRAME counts one more and those settled in passing off.
LEMMA EndFrameCount ==
  ASSUME Finite, Types, CountHonest, NEW c \in Codecs, NEW t \in Targets, EndFrame(c, t)
  PROVE  CountHonest'
  <1>1. PICK n \in Ops : n = ops + 1 /\ n # 0
    BY DEF EndFrame, Types, Finite, Ops
  <1>2. /\ render = Idle /\ slot' = [SlotsLeft EXCEPT ![t] = n]
        /\ counted' = counted - Cardinality(Settled) + 1
        /\ render'.at = (IF SlotsLeft[t] = 0 THEN "send" ELSE "replace")
    BY <1>1 DEF EndFrame
  <1>3. counted = Cardinality(Full)
    <2>1. render.at = "idle"
      BY <1>2 DEF Idle
    <2> QED BY <2>1, FullIs DEF CountHonest, Full
  <1> DEFINE left == Full \ Settled
  <1>4. /\ IsFiniteSet(left) /\ Cardinality(left) \in Nat
        /\ Cardinality(left) = counted - Cardinality(Settled)
    BY <1>3, SettledCount, FS_CardinalityType
  <1>5. left = {x \in Targets : SlotsLeft[x] # 0}
    BY SettledCount
  <1>6. slot'[t] = n /\ \A x \in Targets : x # t => slot'[x] = SlotsLeft[x]
    BY <1>2, SettledIs
  <1>7. Full' = left \cup {t}
    BY <1>1, <1>5, <1>6 DEF Full
  <1> HIDE DEF left
  <1>8. CASE t \in left
    <2>1. Full' = left /\ render'.at = "replace"
      BY <1>2, <1>5, <1>7, <1>8
    <2>2. Cardinality(Full)' = Cardinality(left)
      BY <2>1
    <2>3. counted' = Cardinality(left) + 1
      BY <1>2, <1>4
    <2> QED BY <2>1, <2>2, <2>3 DEF CountHonest, Full
  <1>9. CASE t \notin left
    <2>1. render'.at = "send"
      BY <1>2, <1>5, <1>9
    <2>2. Cardinality(Full)' = Cardinality(left) + 1
      BY <1>4, <1>7, <1>9, FS_AddElement
    <2>3. counted' = Cardinality(left) + 1
      BY <1>2, <1>4
    <2> QED BY <2>1, <2>2, <2>3, <1>4 DEF CountHonest, Full
  <1> QED BY <1>8, <1>9

\* A decode waited for is counted until it is delivered.
LEMMA DeliverCount ==
  ASSUME Finite, Types, CountHonest, Replace \/ Settle
  PROVE  CountHonest'
  <1>1. /\ render.at \in {"replace", "settle"} /\ render'.at \in {"send", "use"}
        /\ slot' = slot /\ counted' = counted - 1
    BY DEF Replace, Settle, Types, Idle
  <1>2. counted = Cardinality(Full) + 1 /\ Cardinality(Full) \in Nat
    BY <1>1, FullIs DEF CountHonest, Full
  <1>3. Cardinality(Full)' = Cardinality(Full)
    BY <1>1 DEF Full
  <1>4. counted' = Cardinality(Full)
    BY <1>1, <1>2
  <1> QED BY <1>1, <1>2, <1>3, <1>4 DEF CountHonest, Full

\* A slot emptied is one fewer.
LEMMA EmptiedFull ==
  ASSUME Finite, Types, NEW t \in Targets, slot[t] # 0, slot' = [slot EXCEPT ![t] = 0]
  PROVE  Cardinality(Full)' = Cardinality(Full) - 1 /\ Cardinality(Full)' \in Nat
  <1>1. slot'[t] = 0 /\ \A x \in Targets : x # t => slot'[x] = slot[x]
    BY DEF Types
  <1>2. Full' = Full \ {t} /\ t \in Full
    BY <1>1 DEF Full
  <1>3. IsFiniteSet(Full')
    BY <1>2, FullIs, FS_RemoveElement
  <1> QED BY <1>2, <1>3, FullIs, FS_RemoveElement, FS_CardinalityType

\* What is taken out to be waited for is counted still.
LEMMA CommandCount ==
  ASSUME Finite, Types, CountHonest, NEW t \in Targets, Command(t)
  PROVE  CountHonest'
  <1>1. /\ render = Idle /\ counted' = counted
        /\ LET pending == IF counted = 0 THEN 0 ELSE slot[t] IN
             /\ slot' = IF pending = 0 THEN slot ELSE [slot EXCEPT ![t] = 0]
             /\ render' = [Idle EXCEPT !.at = IF pending = 0 THEN "use" ELSE "settle",
                                       !.on = t, !.job = pending]
    BY DEF Command, jobVars
  <1>2. render.at = "idle"
    BY <1>1 DEF Idle
  <1>3. CASE slot[t] = 0
    BY <1>1, <1>2, <1>3, CountStays DEF Idle
  <1>4. CASE slot[t] # 0
    <2>1. counted # 0
      BY <1>1, <1>4, CountZero
    <2>2. slot' = [slot EXCEPT ![t] = 0] /\ render'.at = "settle"
      BY <1>1, <1>4, <2>1 DEF Idle
    <2>3. counted = Cardinality(Full) /\ Cardinality(Full) \in Nat
      BY <1>2, FullIs DEF CountHonest, Full
    <2>4. Cardinality(Full)' = Cardinality(Full) - 1 /\ Cardinality(Full)' \in Nat
      BY <1>4, <2>2, EmptiedFull
    <2>5. counted' = Cardinality(Full)' + 1
      BY <1>1, <2>3, <2>4
    <2> QED BY <2>2, <2>5 DEF CountHonest, Full
  <1> QED BY <1>3, <1>4

\* A texture's end counts its pending decode off.
LEMMA DestroyCount ==
  ASSUME Finite, Types, CountHonest, NEW t \in Targets, DestroyTexture(t)
  PROVE  CountHonest'
  <1>1. /\ render.at = "idle" /\ render' = render /\ slot' = [slot EXCEPT ![t] = 0]
        /\ counted' = IF slot[t] = 0 THEN counted ELSE counted - 1
    BY DEF DestroyTexture, waitVars, Idle
  <1>2. CASE slot[t] = 0
    <2>1. slot' = slot
      BY <1>1, <1>2 DEF Types
    <2> QED BY <1>1, <1>2, <2>1, CountStays
  <1>3. CASE slot[t] # 0
    <2>1. counted = Cardinality(Full) /\ Cardinality(Full) \in Nat
      BY <1>1, FullIs DEF CountHonest, Full
    <2>2. Cardinality(Full)' = Cardinality(Full) - 1 /\ Cardinality(Full)' \in Nat
      BY <1>1, <1>3, EmptiedFull
    <2>3. counted' = Cardinality(Full)'
      BY <1>1, <1>3, <2>1, <2>2
    <2> QED BY <1>1, <2>2, <2>3 DEF CountHonest, Full
  <1> QED BY <1>2, <1>3

\* settle_video counts off what it delivers.
LEMMA DrainCount ==
  ASSUME Finite, Types, CountHonest, DrainAll
  PROVE  CountHonest'
  <1>1. /\ render.at = "drain" /\ render'.at = "drained" /\ slot' = SlotsLeft
        /\ counted' = counted - Cardinality(Settled)
    BY DEF DrainAll, Idle
  <1>2. counted = Cardinality(Full) /\ Cardinality(Full) \in Nat
    BY <1>1, FullIs DEF CountHonest, Full
  <1>3. Full' = Full \ Settled
    BY <1>1, SettledCount DEF Full
  <1>4. Cardinality(Full)' = Cardinality(Full) - Cardinality(Settled) /\ Cardinality(Full)' \in Nat
    BY <1>3, SettledCount, FS_CardinalityType
  <1>5. counted' = Cardinality(Full)'
    BY <1>1, <1>2, <1>4
  <1> QED BY <1>1, <1>4, <1>5 DEF CountHonest, Full

\* Every step keeps the count that of the decodes pending (Unsettled).
LEMMA CountKept ==
  Finite /\ Types /\ CountHonest /\ [Next]_vars => CountHonest'
  <1> SUFFICES ASSUME Finite, Types, CountHonest, [Next]_vars PROVE CountHonest'
    OBVIOUS
  <1>1. ASSUME NEW c \in Codecs, NEW t \in Targets, EndFrame(c, t) PROVE CountHonest'
    BY <1>1, EndFrameCount
  <1>2. ASSUME NEW t \in Targets, Command(t) \/ DestroyTexture(t) PROVE CountHonest'
    BY <1>2, CommandCount, DestroyCount
  <1>3. CASE Replace \/ Settle \/ DrainAll
    BY <1>3, DeliverCount, DrainCount
  <1>4. CASE Write \/ Send \/ Read \/ Join \/ Drained \/ Drain
    BY <1>4, CountStays DEF Write, Send, Read, Join, Drained, Drain, Idle, slotVars
  <1>5. ASSUME NEW c \in Codecs, DestroyCodec(c) \/ Thread(c) \/ Fence(c) PROVE CountHonest'
    <2>1. CASE Thread(c) \/ Fence(c)
      <3>1. UNCHANGED <<slot, counted, render>>
        BY <2>1, ThreadSteps DEF Decode, DecodeOne, Land, Fence, slotVars, waitVars
      <3> QED BY <3>1, CountStays
    <2>2. CASE DestroyCodec(c)
      BY <2>2, CountStays DEF DestroyCodec, Idle, slotVars
    <2> QED BY <1>5, <2>1, <2>2
  <1>6. CASE Retire \/ (\E who \in {"render", "fence"} : Sleep(who)) \/ UNCHANGED vars
    BY <1>6, CountStays DEF Retire, Sleep, slotVars, waitVars, vars
  <1> QED BY <1>1, <1>2, <1>3, <1>4, <1>5, <1>6 DEF Next, Render

-----------------------------------------------------------------------------
(* The theorem                                                             *)

\* All of it holds when the renderer starts...
LEMMA Starts == Finite /\ Init => IInv
  <1> SUFFICES ASSUME Finite, Init PROVE IInv
    OBVIOUS
  <1>1. 0 \in 0..MaxOps /\ 1..0 = {} /\ 0 \in 0..0
    BY DEF Finite
  <1>2. Types
    <2>1. op \in [Ops -> [on : Targets \cup {"none"}, stage : Stages, picture : BOOLEAN]]
      BY DEF Init, NoOp, Stages
    <2>2. render \in [at : Places, on : Targets \cup {"none"}, job : 0..ops,
                      codec : Codecs \cup {"none"}]
      BY <1>1 DEF Init, Idle, Places
    <2> QED BY <1>1, <2>1, <2>2 DEF Init, Types
  <1>3. Threads
    <2>1. /\ queue \in [Codecs -> Seq(1..ops)]
          /\ \A c \in Codecs : queue[c] = <<>> /\ Len(queue[c]) = 0
      BY DEF Init
    <2>2. \A c \in Codecs : At(c) = {} /\ hand[c] = 0
      BY <1>1 DEF Init, At
    <2> QED BY <1>1, <2>1, <2>2 DEF Init, Threads
  <1>4. \A t : On(t) = {}
    BY <1>1 DEF Init, On
  <1>5. Slots
    BY <1>4 DEF Init, Slots, Idle
  <1>6. Held
    BY <1>4 DEF Init, Held, IsNewest, Yielded
  <1>7. CountHonest
    <2>1. {t \in Targets : slot[t] # 0} = {}
      BY DEF Init
    <2>2. Cardinality({t \in Targets : slot[t] # 0}) = 0
      BY <2>1, FS_EmptySet
    <2> QED BY <2>2 DEF Init, CountHonest, Idle
  <1> QED BY <1>2, <1>3, <1>5, <1>6, <1>7 DEF IInv

\* ...and every step keeps it.
LEMMA StepKeeps == Finite /\ IInv /\ [Next]_vars => IInv'
  BY TypesKept, ThreadsKept, SlotsKept, HeldKept, CountKept DEF IInv

\* The newest of what a texture yielded is Latest.
LEMMA LatestIs ==
  ASSUME NEW t, Types, NEW h \in Nat,
         IsNewest(h, {j \in On(t) : op[j].picture = TRUE})
  PROVE  h = Latest(t)
  <1> DEFINE S == {0} \cup {j \in On(t) : op[j].picture = TRUE}
  <1>1. h \in S /\ (\A j \in S : j <= h) /\ S \subseteq Nat
    BY DEF IsNewest, On, Types
  <1>2. \A j \in S : h >= j
    BY <1>1
  <1>3. Max(S) \in S /\ \A j \in S : Max(S) >= j
    BY <1>1, <1>2 DEF Max
  <1>4. Max(S) = h
    BY <1>1, <1>2, <1>3
  <1>5. S = {0} \cup {j \in On(t) : op[j].picture}
    OBVIOUS
  <1> QED BY <1>4, <1>5 DEF Latest

\* A texture with nothing pending is in order.
LEMMA InOrderIs ==
  ASSUME Types, Slots, Held, NEW t \in live, Pending(t) = {}
  PROVE  InOrder(t)
  <1>1. \A j \in On(t) : Landed(j)
    BY DEF Slots
  <1>2. Yielded(t) = {j \in On(t) : op[j].picture = TRUE}
    BY DEF Yielded
  <1>3. holds[t] \in Nat
    BY DEF Types
  <1>4. holds[t] = Latest(t)
    BY <1>2, <1>3, LatestIs DEF Held
  <1> QED BY <1>1, <1>4 DEF InOrder

\* So a command that has passed the barrier finds it so, and so does settle_video's caller.
LEMMA Reads == IInv => ReadsLatest
  <1> SUFFICES ASSUME IInv PROVE ReadsLatest
    OBVIOUS
  <1>1. 0 \notin 1..ops
    OBVIOUS
  <1>2. ASSUME render.at = "use" PROVE InOrder(render.on)
    <2>1. render.on \in live /\ slot[render.on] = 0
      BY <1>2 DEF IInv, Slots
    <2>2. Pending(render.on) = {}
      BY <1>1, <1>2, <2>1 DEF Pending, Taken
    <2> QED BY <2>1, <2>2, InOrderIs DEF IInv
  <1>3. ASSUME render.at = "drained", NEW t \in live PROVE InOrder(t)
    <2>1. Pending(t) = {}
      BY <1>1, <1>3 DEF IInv, Slots, Pending, Taken
    <2> QED BY <2>1, InOrderIs DEF IInv
  <1> QED BY <1>2, <1>3 DEF ReadsLatest

\* Whatever the decoders' order and delays, a command finds its texture with the newest of
\* the pictures and writes asked of it, none of them still on its way, and so does every
\* texture once settle_video has returned (vrend/video/pending.rs settle).
THEOREM ReadsInOrder == ASSUME Finite PROVE Spec => []ReadsLatest
  <1>1. Init => IInv
    BY Starts
  <1>2. IInv /\ [Next]_vars => IInv'
    BY StepKeeps
  <1>3. IInv => ReadsLatest
    BY Reads
  <1> QED BY <1>1, <1>2, <1>3, PTL DEF Spec

-----------------------------------------------------------------------------
(* The types of what nothing above speaks of                               *)

\* The fence waiter waits for a job there was, and two threads may sleep.
Waiting == fence \in 0..ops /\ asleep \in SUBSET {"render", "fence"}

\* Every step keeps these types.
LEMMA WaitingKept == /\ Finite /\ Init => Waiting
                     /\ IInv /\ Waiting /\ [Next]_vars => Waiting'
  <1>1. Finite /\ Init => Waiting
    BY DEF Init, Waiting
  <1>2. ASSUME IInv, Waiting, [Next]_vars PROVE Waiting'
    <2>1. ops \in Nat /\ newest \in [Codecs -> 0..ops]
      BY <1>2 DEF IInv, Types, Threads
    <2>2. ops' = ops \/ ops' = ops + 1
      BY <1>2 DEF Next, vars, jobVars, slotVars, waitVars, EndFrame, Command, DestroyTexture,
        DestroyCodec, Thread, Decode, DecodeOne, Land, Fence, Render, Replace, Send, Settle, Read,
        Write, Join, DrainAll, Drained, Drain, Retire, Sleep
    <2>3. fence' \in {0, fence} \/ \E c \in Codecs : fence' = newest[c]
      BY <1>2 DEF Next, vars, jobVars, slotVars, waitVars, EndFrame, Command, DestroyTexture,
        DestroyCodec, Thread, Decode, DecodeOne, Land, Fence, Render, Replace, Send, Settle, Read,
        Write, Join, DrainAll, Drained, Drain, Retire, Sleep
    <2>4. asleep' \subseteq asleep \cup {"render", "fence"}
      BY <1>2 DEF Next, vars, jobVars, slotVars, waitVars, EndFrame, Command, DestroyTexture,
        DestroyCodec, Thread, Decode, DecodeOne, Land, Fence, Render, Replace, Send, Settle, Read,
        Write, Join, DrainAll, Drained, Drain, Retire, Sleep
    <2>5. fence' \in 0..ops
      BY <1>2, <2>1, <2>3 DEF Waiting
    <2> QED BY <1>2, <2>1, <2>2, <2>4, <2>5 DEF Waiting
  <1> QED BY <1>1, <1>2

\* With the invariant they are the module's.
LEMMA Typed == Finite /\ IInv /\ Waiting => TypeOK
  <1> SUFFICES ASSUME Finite, IInv, Waiting PROVE TypeOK
    OBVIOUS
  <1>1. ops \in Nat /\ MaxOps \in Nat /\ ops <= MaxOps
    BY DEF IInv, Types, Finite
  <1>2. 0..ops \subseteq {0} \cup Ops /\ 1..ops \subseteq Ops
    BY <1>1 DEF Ops
  <1>3. queue \in [Codecs -> Seq(Ops)] /\ hand \in [Codecs -> {0} \cup Ops]
        /\ newest \in [Codecs -> {0} \cup Ops]
    <2>1. \A c \in Codecs : queue[c] \in Seq(1..ops)
      BY DEF IInv, Threads
    <2>2. ASSUME NEW s \in Seq(1..ops) PROVE s \in Seq(Ops)
      <3>1. Len(s) \in Nat /\ s = [i \in 1..Len(s) |-> s[i]] /\ \A i \in 1..Len(s) : s[i] \in 1..ops
        BY ElementOfSeq, LenProperties
      <3> QED BY <1>2, <3>1, IsASeq
    <2> QED BY <1>2, <2>2 DEF IInv, Threads
  <1>4. /\ slot \in [Targets -> {0} \cup Ops] /\ holds \in [Targets -> {0} \cup Ops]
        /\ ops \in {0} \cup Ops /\ fence \in {0} \cup Ops
    BY <1>1, <1>2 DEF IInv, Types, Waiting
  <1>5. render.at \in Places
    BY DEF IInv, Types
  <1> QED BY <1>3, <1>4, <1>5 DEF TypeOK, IInv, Types, Waiting, Stages, Places
=============================================================================
