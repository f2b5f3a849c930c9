----------------------------- MODULE RingProofs -----------------------------
(***************************************************************************)
(* Theorems about one command ring, for any buffer, any wrap of its        *)
(* counters, any number of commands and seqnos and any mix of guests: no   *)
(* doorbell is lost, no waiter sleeps through its answer, a refusal is     *)
(* sound, the head never passes work that has not run, a driver wait is    *)
(* asked once, and the ring runs its commands in order, once each.         *)
(*                                                                         *)
(* None of these is inductive alone.  What carries them is Inv: the types; *)
(* Life, who may run in which stage of the ring's life; Positions, how far *)
(* the wrapping words lie from the counts they stand for; Progress, what   *)
(* has run at each place of the thread's loop; Bell, where a doorbell is   *)
(* between the guest that rang it and the thread that sleeps; Blocked,     *)
(* what the thread has said it waits for; Sleepers, what a waiter has seen *)
(* in the check it is in; Refused, and AskedRight, its answers.            *)
(***************************************************************************)
EXTENDS Ring, FiniteSetTheorems, SequenceTheorems, WellFoundedInduction, TLAPS

-----------------------------------------------------------------------------
(* The inductive invariant                                                 *)

\* What the guest may write to the ring, and send on its stream.
Commands == ({"run", "ask", "bad"} \X {0}) \cup ({"vqwait"} \X (1..MaxVq))
Sent == ({"notify", "destroy", "bad"} \X {0}) \cup ({"submit"} \X (1..MaxVq))
        \cup ({"wait"} \X (0..Modulus - 1))

\* Places of the thread: out of the loop for good, inside a park, waiting on a virtqueue.
Ended == {"poisoned", "exit", "exitChanged", "gone"}
Parked == {"parkTail", "asleep", "woken", "unpark"}
Blocks == {"announce", "vqWait", "vqAsleep"}
Places == {"unborn", "top", "park", "read", "offer", "publish", "changed", "block", "unblocked",
           "driver", "die", "dieChanged"} \cup Ended \cup Parked \cup Blocks
Checks == {"off", "lock", "head", "stall", "drainHead", "drainTail", "asleep", "reached", "fatal",
           "stalled", "drained"}

\* The types of each actor's variables.
GuestTypes ==
  /\ setting \in Settings /\ written \in Seq(Commands) /\ tail \in 0..Modulus - 1
  /\ guest \in {"ready", "look"} /\ window \in 0..setting.idle /\ sent \in 0..setting.sends
VmmTypes ==
  /\ stream \in Seq(Sent) /\ vmm \in {"serve", "stopping", "joining", "dying"}
  /\ slot \in {"idle", "running", "gone"} /\ presents \in 0..setting.presents
WordTypes ==
  /\ head \in 0..Modulus - 1 /\ vq_seqno \in 0..MaxVq /\ blocked_on_vq \in 0..MaxVq
Flags ==
  /\ fatal \in BOOLEAN /\ idle \in BOOLEAN /\ fatalBit \in BOOLEAN /\ started \in BOOLEAN
  /\ notified \in BOOLEAN /\ answer \in BOOLEAN
ThreadTypes ==
  /\ pc \in Places /\ cur \in Nat /\ pending \in Nat
  /\ verdict \in [kind : {"none", "ran", "ask", "vqwait"}, consumed : Nat, seqno : 0..MaxVq]
  /\ quiet \in 0..setting.idle /\ ran \in Seq(Nat) /\ asked \in Nat
WaiterTypes ==
  /\ wpc \in [Waiters -> Checks]
  /\ want \in [Waiters -> 0..Modulus - 1] /\ saw \in [Waiters -> 0..Modulus - 1]
Types == GuestTypes /\ VmmTypes /\ WordTypes /\ Flags /\ ThreadTypes /\ WaiterTypes

\* Who runs in which stage of the ring: no thread before Promote or after the join, a
\* started one until the stop, and a wait at the front of the stream while it is waited on.
Life ==
  /\ slot = "idle" => pc = "unborn" /\ ~started /\ ~idle /\ vmm = "serve"
  /\ pc = "unborn" => slot # "running" /\ cur = 0 /\ pending = 0
  /\ slot = "gone" => pc \in {"unborn", "gone"} /\ vmm = "serve"
  /\ slot = "running" => pc # "unborn"
  /\ slot = "running" /\ vmm # "joining" => started
  /\ wpc["stream"] # "off" => slot = "running" /\ vmm \in {"serve", "dying"}
  /\ vmm = "dying" => wpc["stream"] \in {"stalled", "drained"}
  /\ wpc["stream"] # "off" => stream # <<>> /\ stream[1][1] = "wait"

\* The words are the wrapped counts, and the guest is never more than one past the buffer.
Positions ==
  /\ tail = Pos(Len(written)) /\ head = Pos(cur)
  /\ cur + pending <= Len(written) /\ Len(written) <= cur + Buffer + 1

\* The thread's count trails what ran only between a dispatch and its publish.
Progress ==
  /\ cur <= Len(ran) /\ Len(ran) <= cur + pending
  /\ pc = "publish" => Len(ran) = cur + verdict.consumed
  /\ pc \notin Ended \cup {"publish"} => Len(ran) = cur

\* A doorbell is with the thread or on its way to it, or nothing runs any more.
Rung == notified \/ Doorbells # {} \/ fatal
\* IDLE stands exactly while the thread parks.  Unless a doorbell is coming, the guest's last
\* one is at least as long ago as the thread's last work, so the window that holds a guest off
\* is over by the time the thread may sleep; and a sleeper with finished work is rung.
Bell ==
  /\ pc \in Parked => idle
  /\ idle => pc \in Parked
  /\ pc \in Parked \cup {"park"} => quiet = setting.idle
  /\ slot = "idle" => Doorbells = {}
  /\ quiet <= window \/ Rung
  /\ pc \in {"asleep", "woken"} /\ tail # Pos(cur) /\ guest = "ready" => Rung

\* What the thread says it waits on is what it waits on, and only while it does.
Blocked ==
  /\ pc \in Blocks => blocked_on_vq = verdict.seqno
  /\ blocked_on_vq # 0 => pc \in Blocks

\* What a waiter that has looked at the head, and at the stall, still knows of them: only a
\* thread that is about to announce it can have changed either.
Past(w) == wpc[w] \in {"drainHead", "drainTail", "asleep"}
Sleepers ==
  \A w \in Waiters :
    /\ wpc[w] = "stall" \/ Past(w) => (seqno_ge(head, want[w]) => pc = "changed")
    /\ Past(w) => (stalled_on => pc = "announce")

\* A stall once found stays one: the ring cannot move until the stream does.
Refused ==
  wpc["stream"] = "stalled" => stalled_on /\ ~seqno_ge(head, want["stream"])

\* The driver waits among the first n commands.
Asks(n) == {i \in (1..n) \cap DOMAIN written : written[i][1] = "ask"}
\* Answers: one for each ask run, and at most one more, held for the ask at the front.
AskedRight ==
  /\ asked <= Cardinality(Asks(Len(ran) + 1))
  /\ ~answer /\ pc \notin Ended => asked <= Cardinality(Asks(Len(ran)))
  /\ answer => pending > 0 /\ written[cur + 1][1] = "ask" /\ cur = Len(ran) /\ pc # "driver"
  /\ (pc \in {"publish", "changed"} /\ verdict.kind = "ask") \/ pc = "driver" => 
        ~answer /\ Len(ran) < cur + pending /\ written[Len(ran) + 1][1] = "ask"

\* The position of a command already written, or of the next.
Written(p) == \E n \in 0..Len(written) : p = Pos(n)
\* A guest that does not lie waits for what it wrote; kept beside Inv, under an assumption.
HonestWaits ==
  ~setting.lies =>
    /\ Len(written) <= MaxWrites
    /\ \A i \in 1..Len(stream) : stream[i][1] = "wait" => Written(stream[i][2])
    /\ \A w \in Waiters : wpc[w] # "off" => Written(want[w])
    /\ \A w \in Waiters : wpc[w] # "drained"

-----------------------------------------------------------------------------
(* Positions: words that wrap                                              *)

\* The remainder is the only one that fits.
LEMMA ModUnique ==
  ASSUME NEW a \in Int, NEW n \in Nat, n > 0, NEW r \in 0..n-1, NEW q \in Int, a = n*q + r
  PROVE  a % n = r
  OBVIOUS

\* A number is its quotient and its remainder.
LEMMA DivMod ==
  ASSUME NEW a \in Int, NEW n \in Nat, n > 0
  PROVE  a \div n \in Int /\ a % n \in 0..n-1 /\ a = n * (a \div n) + (a % n)
  OBVIOUS

\* Multiplication distributes.
LEMMA Distributes ==
  ASSUME NEW n \in Nat, NEW x \in Int, NEW y \in Int
  PROVE  n * (x + y) = n * x + n * y
  OBVIOUS

\* A remainder may be taken before an addition or after it.
LEMMA ModPlus ==
  ASSUME NEW a \in Int, NEW k \in Int, NEW n \in Nat, n > 0
  PROVE  ((a % n) + k) % n = (a + k) % n
  <1>1. ASSUME NEW x \in Int, NEW y \in Int, NEW r \in Int, NEW s \in 0..n-1,
               a = n * x + r, r + k = n * y + s
        PROVE  (a + k) % n = s
    <2>1. n * x \in Int /\ n * y \in Int /\ x + y \in Int /\ a + k \in Int
      OBVIOUS
    <2>2. a + k = n * (x + y) + s
      BY <1>1, <2>1, Distributes
    <2> QED BY <2>1, <2>2, ModUnique
  <1>2. /\ a \div n \in Int /\ a % n \in Int /\ a = n * (a \div n) + (a % n)
    BY DivMod
  <1>3. (a % n) + k \in Int
    BY <1>2
  <1>4. /\ ((a % n) + k) \div n \in Int /\ ((a % n) + k) % n \in 0..n-1
        /\ (a % n) + k = n * (((a % n) + k) \div n) + (((a % n) + k) % n)
    BY <1>3, DivMod
  <1> QED BY <1>1, <1>2, <1>4

\* Advancing a word advances the position it stands for, past the wrap too (wrapping_add).
LEMMA PosAdd == ASSUME NEW i \in Nat, NEW k \in Nat PROVE (Pos(i) + k) % Modulus = Pos(i + k)
  <1>1. Start + i \in Int /\ Start + (i + k) = (Start + i) + k /\ Modulus \in Nat /\ Modulus > 0
    BY RingConstants
  <1>2. (((Start + i) % Modulus) + k) % Modulus = ((Start + i) + k) % Modulus
    BY <1>1, ModPlus
  <1> QED BY <1>1, <1>2 DEF Pos

\* The wrapped difference of two positions less than a whole range apart (wrapping_sub).
LEMMA PosDiff == ASSUME NEW i \in Nat, NEW k \in Nat, k < Modulus PROVE (Pos(i + k) - Pos(i)) % Modulus = k
  <1>1. /\ Start + (i + k) \in Int /\ Pos(i) \in Int /\ 0 - Pos(i) \in Int /\ Modulus \in Nat /\ Modulus > 0
        /\ Start + i \in Int /\ Pos(i + k) \in Int
    BY RingConstants, DivMod DEF Pos
  <1>2. (Pos(i + k) + (0 - Pos(i))) % Modulus = (Start + (i + k) + (0 - Pos(i))) % Modulus
    BY <1>1, ModPlus DEF Pos
  <1>3. /\ Start + i = Modulus * ((Start + i) \div Modulus) + Pos(i)
        /\ (Start + i) \div Modulus \in Int
    BY <1>1, DivMod DEF Pos
  <1>4. ASSUME NEW q \in Int, Start + i = Modulus * q + Pos(i)
        PROVE  (Start + (i + k) + (0 - Pos(i))) % Modulus = k
    <2>1. Modulus * q \in Int /\ Start \in Int
      BY <1>1, RingConstants
    <2>2. Start + (i + k) + (0 - Pos(i)) = Modulus * q + k
      BY <1>1, <1>4, <2>1
    <2>3. Modulus * q + k \in Int /\ k \in 0..Modulus - 1
      BY <1>1, <2>1
    <2>4. (Modulus * q + k) % Modulus = k
      BY <1>1, <2>3, ModUnique
    <2> QED BY <2>2, <2>4
  <1>5. Pos(i + k) - Pos(i) = Pos(i + k) + (0 - Pos(i))
    BY <1>1
  <1> QED BY <1>2, <1>3, <1>4, <1>5

\* What a setting of Settings holds.
LEMMA SettingTypes ==
  ASSUME setting \in Settings
  PROVE  /\ setting.cmds \subseteq Commands /\ setting.ops \subseteq {"submit", "wait", "destroy", "bad"}
         /\ setting.sends \in Nat /\ setting.presents \in Nat /\ setting.idle \in Nat
         /\ setting.lies \in BOOLEAN
  BY RingConstants DEF Setting, Commands

\* A position is a word.
LEMMA PosType == ASSUME NEW i \in Nat PROVE Pos(i) \in 0..Modulus - 1
  BY RingConstants DEF Pos

\* What the constants are.
LEMMA SeqnoTypes == Modulus \in Nat /\ MaxVq \in Nat /\ Buffer \in Nat /\ MaxWrites \in Nat /\ Modulus > 2
  BY RingConstants

-----------------------------------------------------------------------------
(* Types                                                                   *)

\* The initial state is well typed.
LEMMA TypesStart == Init => Types
  <1> SUFFICES ASSUME Init PROVE Types
    OBVIOUS
  <1>0. /\ setting \in Settings /\ setting.idle \in Nat /\ setting.sends \in Nat /\ setting.presents \in Nat
    BY SettingTypes DEF Init
  <1>1. Pos(0) \in 0..Modulus - 1
    BY PosType
  <1>2. GuestTypes
    BY <1>0, <1>1 DEF Init, GuestTypes
  <1>3. VmmTypes
    BY <1>0 DEF Init, VmmTypes
  <1>4. WordTypes
    <2>1. 0 \in 0..MaxVq
      BY SeqnoTypes
    <2> QED BY <1>1, <2>1 DEF Init, WordTypes
  <1>5. ThreadTypes
    <2>1. 0 \in 0..MaxVq /\ 0 \in 0..setting.idle
      BY <1>0, SeqnoTypes
    <2>2. NoVerdict \in [kind : {"none", "ran", "ask", "vqwait"}, consumed : Nat, seqno : 0..MaxVq]
      BY <2>1 DEF NoVerdict
    <2>3. << >> \in Seq(Nat) /\ 0 \in Nat
      OBVIOUS
    <2> QED BY <2>1, <2>2, <2>3 DEF Init, ThreadTypes, Places
  <1>6. WaiterTypes
    BY SeqnoTypes DEF Init, WaiterTypes, Checks
  <1>7. Flags
    BY DEF Init, Flags
  <1> QED BY <1>2, <1>3, <1>4, <1>5, <1>6, <1>7 DEF Types

\* Only the guest, and time, touch what is the guest's.
LEMMA GuestFrame == Next => Guest \/ Tick \/ UNCHANGED guestVars
  BY DEF Next, Stream, StreamPoisoned, StreamBad, StreamNotify, StreamSubmit, StreamWait,
    StreamDestroy, StopRing, JoinRing, Promote, StreamReached, StreamFatal, StreamDies, StreamDied,
    DestroyContext, TakeBarrier, Awake, Top, TakeDoorbell, SetIdle, ParkTail, Unpark, Read, Rewake,
    Publish, PublishChanged, Block, Announce, VqSleep, VqOver, Unblocked, Driver, Die, DieChanged,
    Poisoned, Exit, ExitChanged, SpuriousWake, Busy, Dispatch, Check, CheckFatal, CheckHead,
    CheckStall, DrainHead, DrainTail, WaitTimeout, BarrierOver

\* Steps keep the guest's types.
LEMMA GuestTyped == ASSUME Types, Next PROVE GuestTypes'
  <1>0. /\ setting \in Settings /\ setting.idle \in Nat /\ setting.sends \in Nat /\ setting.cmds \subseteq Commands
    BY SettingTypes DEF Types, GuestTypes
  <1> USE <1>0 DEF GuestTypes
  <1>1. CASE GuestWrite
    <2>1. (tail + 1) % Modulus \in 0..Modulus - 1
      BY SeqnoTypes, DivMod DEF Types
    <2> QED BY <1>1, <2>1 DEF Types, GuestWrite
  <1>2. CASE GuestLook
    BY <1>2 DEF Types, GuestLook
  <1>3. CASE GuestSend
    BY <1>3 DEF Types, GuestSend
  <1>4. CASE GuestOverrun
    <2>1. (head + Buffer + 1) % Modulus \in 0..Modulus - 1 /\ (tail - head) % Modulus \in Nat
      <3>1. head + Buffer + 1 \in Int /\ tail - head \in Int
        BY SeqnoTypes DEF Types, WordTypes
      <3> QED BY <3>1, SeqnoTypes, DivMod
    <2>2. \A n \in Int : [k \in 1..n |-> <<"run", 0>>] \in Seq(Commands)
      <3> SUFFICES ASSUME NEW n \in Int PROVE [k \in 1..n |-> <<"run", 0>>] \in Seq(Commands)
        OBVIOUS
      <3>1. CASE n <= 0
        BY <3>1
      <3>2. CASE n > 0
        BY <3>2 DEF Commands
      <3> QED BY <3>1, <3>2
    <2>3. written' \in Seq(Commands)
      <3>1. Buffer + 1 - ((tail - head) % Modulus) \in Int
        BY <2>1, SeqnoTypes
      <3>2. [k \in 1..Buffer + 1 - ((tail - head) % Modulus) |-> <<"run", 0>>] \in Seq(Commands)
        BY <2>2, <3>1
      <3>3. written' = written \o [k \in 1..Buffer + 1 - ((tail - head) % Modulus) |-> <<"run", 0>>]
        BY <1>4 DEF GuestOverrun
      <3> QED BY <3>2, <3>3, ConcatProperties DEF Types
    <2> QED BY <1>4, <2>1, <2>3 DEF Types, GuestOverrun
  <1>5. CASE Tick
    BY <1>5 DEF Types, Tick, ThreadTypes
  <1>6. CASE UNCHANGED guestVars
    BY <1>6 DEF Types, guestVars
  <1> QED BY <1>1, <1>2, <1>3, <1>4, <1>5, <1>6, GuestFrame DEF Guest

\* Who touches the stream, the slot and the VMM thread.
LEMMA VmmFrame ==
  Next => GuestLook \/ GuestSend \/ Stream \/ DestroyContext \/ TakeBarrier \/ UNCHANGED vmmVars
  BY DEF Next, Guest, GuestWrite, GuestOverrun, Tick, Awake, Top, TakeDoorbell, SetIdle, ParkTail,
    Unpark, Read, Rewake, Publish, PublishChanged, Block, Announce, VqSleep, VqOver, Unblocked,
    Driver, Die, DieChanged, Poisoned, Exit, ExitChanged, SpuriousWake, Busy, Dispatch, Check,
    CheckFatal, CheckHead, CheckStall, DrainHead, DrainTail, WaitTimeout, BarrierOver, vmmVars

\* What the guest adds to its stream: a doorbell when it reads IDLE, or a command of its own.
LEMMA GuestSays ==
  ASSUME Types, Next, ~Stream
  PROVE  \/ stream' = stream
         \/ GuestLook /\ idle /\ stream' = Append(stream, <<"notify", 0>>)
         \/ GuestSend /\ \E c \in Sent : /\ c[1] # "notify" /\ (c[1] = "wait" => c[2] \in Targets)
                                       /\ stream' = Append(stream, c)
  <1>1. CASE GuestSend
    <2>1. Targets \subseteq 0..Modulus - 1
      BY DivMod, SeqnoTypes DEF Targets, Types, GuestTypes
    <2>2. PICK op \in setting.ops : \E c \in StreamCommands[op] : stream' = Append(stream, c)
      BY <1>1 DEF GuestSend
    <2>3. PICK c \in StreamCommands[op] : stream' = Append(stream, c)
      BY <2>2
    <2>4. op \in {"submit", "wait", "destroy", "bad"}
      BY <2>2, SettingTypes DEF Types, GuestTypes
    <2>5. c \in Sent /\ c[1] # "notify" /\ (c[1] = "wait" => c[2] \in Targets)
      <3>1. CASE op = "submit"
        BY <2>3, <3>1 DEF StreamCommands, Sent
      <3>2. CASE op = "wait"
        BY <2>1, <2>3, <3>2 DEF StreamCommands, Sent
      <3>3. CASE op = "destroy"
        BY <2>3, <3>3 DEF StreamCommands, Sent
      <3>4. CASE op = "bad"
        BY <2>3, <3>4 DEF StreamCommands, Sent
      <3> QED BY <2>4, <3>1, <3>2, <3>3, <3>4
    <2> QED BY <1>1, <2>3, <2>5
  <1>2. CASE GuestLook
    BY <1>2 DEF GuestLook
  <1>3. CASE ~GuestSend /\ ~GuestLook
    BY <1>3, VmmFrame DEF DestroyContext, TakeBarrier, vmmVars
  <1> QED BY <1>1, <1>2, <1>3

\* Steps keep the types of the stream and of the VMM thread.
LEMMA VmmTyped == ASSUME Types, Life, Next PROVE VmmTypes'
  <1>0. /\ setting \in Settings /\ setting.presents \in Nat /\ setting' = setting
    BY SettingTypes, GuestFrame DEF Guest, GuestWrite, GuestLook, GuestSend, GuestOverrun, Tick,
      guestVars, Types, GuestTypes
  <1> USE <1>0 DEF VmmTypes
  <1>1. CASE Stream
    <2>1. stream # << >> => Tail(stream) \in Seq(Sent)
      BY DEF Types
    <2> QED BY <1>1, <2>1 DEF Types, Life, Stream, StreamPoisoned, StreamBad, StreamNotify,
      StreamSubmit, StreamWait, StreamDestroy, StopRing, JoinRing, Promote, StreamReached,
      StreamFatal, StreamDies, StreamDied, NextOp, Done, vmmVars
  <1>2. CASE ~Stream
    <2>1. stream' \in Seq(Sent)
      <3>1. <<"notify", 0>> \in Sent /\ stream \in Seq(Sent)
        BY DEF Sent, Types
      <3>2. stream' = stream \/ \E c \in Sent : stream' = Append(stream, c)
        BY <1>2, <3>1, GuestSays
      <3> QED BY <3>1, <3>2, AppendProperties
    <2>2. vmm' \in {"serve", "stopping", "joining", "dying"} /\ slot' \in {"idle", "running", "gone"} /\ presents' \in 0..setting.presents
      BY <1>2, VmmFrame DEF Types, GuestLook, GuestSend, DestroyContext, TakeBarrier, vmmVars
    <2> QED BY <2>1, <2>2
  <1> QED BY <1>1, <1>2

\* Steps keep the types of the shared words.
LEMMA WordTyped == ASSUME Types, Positions, Next PROVE WordTypes'
  <1>1. stream # << >> => stream[1] \in Sent
    BY DEF Types, VmmTypes
  <1>2. CASE StreamSubmit
    <2>1. stream[1][2] \in 0..MaxVq
      BY <1>1, <1>2 DEF StreamSubmit, NextOp, Sent
    <2>2. Raised(stream[1][2]) \in 0..MaxVq
      BY <2>1 DEF Types, WordTypes, Raised
    <2>3. vq_seqno' = vq_seqno \/ vq_seqno' = Raised(stream[1][2])
      BY <1>2 DEF StreamSubmit, Types, VmmTypes
    <2> QED BY <1>2, <2>2, <2>3 DEF Types, WordTypes, StreamSubmit, words
  <1>3. CASE Publish
    <2>1. cur + verdict.consumed \in Nat
      BY DEF Types, ThreadTypes
    <2>2. head' \in 0..Modulus - 1
      BY <1>3, <2>1, PosType DEF Publish
    <2> QED BY <1>3, <2>2 DEF Types, WordTypes, Publish, park
  <1>4. CASE Block \/ VqOver \/ Exit
    BY <1>4, SeqnoTypes DEF Types, WordTypes, ThreadTypes, Block, VqOver, Exit, words
  <1>5. CASE UNCHANGED <<head, vq_seqno, blocked_on_vq>>
    BY <1>5 DEF Types, WordTypes
  <1>6. Next => \/ StreamSubmit \/ Publish \/ Block \/ VqOver \/ Exit \/ UNCHANGED <<head, vq_seqno, blocked_on_vq>>
    BY DEF Next, Guest, GuestWrite, GuestLook, GuestSend, GuestOverrun, Tick, Stream,
      StreamPoisoned, StreamBad, StreamNotify, StreamWait, StreamDestroy, StopRing, JoinRing,
      Promote, StreamReached, StreamFatal, StreamDies, StreamDied, DestroyContext, TakeBarrier,
      Awake, Top, TakeDoorbell, SetIdle, ParkTail, Unpark, Read, Rewake, PublishChanged, Announce,
      VqSleep, Unblocked, Driver, Die, DieChanged, Poisoned, ExitChanged, SpuriousWake, Busy,
      Dispatch, Check, CheckFatal, CheckHead, CheckStall, DrainHead, DrainTail, WaitTimeout,
      BarrierOver, CarriedSeqno, words, park
  <1> QED BY <1>2, <1>3, <1>4, <1>5, <1>6

\* Steps keep the flags Boolean.
LEMMA FlagsTyped == ASSUME Types, Next PROVE Flags'
  <1>1. CASE Guest \/ Tick \/ DestroyContext \/ TakeBarrier \/ BarrierOver \/ \E w \in Waiters : Check(w) \/ WaitTimeout(w)
    BY <1>1 DEF Types, Flags, Guest, GuestWrite, GuestLook, GuestSend, GuestOverrun, Tick,
      DestroyContext, TakeBarrier, BarrierOver, Check, CheckFatal, CheckHead, CheckStall, DrainHead,
      DrainTail, WaitTimeout, words, park, threadVars
  <1>2. CASE Stream
    <2>1. CASE StreamPoisoned \/ StreamBad \/ StopRing \/ JoinRing \/ Promote \/ StreamReached \/ StreamFatal
               \/ StreamDies \/ StreamDied
      BY <2>1 DEF Types, Flags, StreamPoisoned, StreamBad, StopRing, JoinRing, Promote,
        StreamReached, StreamFatal, StreamDies, StreamDied, reject, words, park, threadVars
    <2>2. CASE StreamNotify \/ StreamSubmit
      BY <2>2 DEF Types, Flags, VmmTypes, StreamNotify, StreamSubmit, reject, words
    <2>3. CASE StreamWait \/ StreamDestroy
      BY <2>3 DEF Types, Flags, VmmTypes, StreamWait, StreamDestroy, reject, words, park, threadVars
    <2> QED BY <1>2, <2>1, <2>2, <2>3 DEF Stream
  <1>3. CASE Awake \/ SpuriousWake \/ Busy \/ Dispatch
    BY <1>3, ZenonT(60) DEF Types, Flags, Awake, Top, TakeDoorbell, SetIdle, ParkTail, Unpark, Read, Rewake,
      Publish, PublishChanged, Block, Announce, VqSleep, VqOver, Unblocked, Driver, Die, DieChanged,
      Poisoned, Exit, ExitChanged, SpuriousWake, Busy, Dispatch, AnswerAfterBusy, reject, words,
      park, threadVars
  <1> QED BY <1>1, <1>2, <1>3 DEF Next

\* StopOf is the first of a batch's commands to stop at, or what comes after the batch.
LEMMA StopIsFirst ==
  ASSUME cur \in Nat, pending \in Nat
  PROVE  /\ StopOf \in cur + 1 .. cur + pending + 1
         /\ StopOf # cur + pending + 1 => StopsAt(StopOf)
  <1> DEFINE stops == {i \in Batch : StopsAt(i)}
  <1>1. CASE stops = {}
    BY <1>1 DEF StopOf
  <1>2. CASE stops # {}
    <2>1. stops \subseteq Nat
      BY DEF Batch
    <2>2. OpToRel(<, Nat) = {ss \in Nat \X Nat : ss[1] < ss[2]}
      BY Zenon DEF OpToRel
    <2>3. \E i \in stops : \A j \in stops : i <= j
      <3>1. PICK i \in stops : \A j \in stops : ~(<<j, i>> \in OpToRel(<, Nat))
        BY <1>2, <2>1, NatLessThanWellFounded, WFMin
      <3>2. \A j \in stops : ~(j < i)
        BY <2>1, <2>2, <3>1
      <3> QED BY <2>1, <3>2
    <2>4. StopOf = CHOOSE i \in stops : \A j \in stops : i <= j
      BY <1>2 DEF StopOf
    <2>5. StopOf \in stops
      BY <2>3, <2>4
    <2> QED BY <2>5 DEF Batch
  <1> QED BY <1>1, <1>2

\* Who touches what is the ring thread's.
LEMMA ThreadFrame ==
  Next => \/ Stream \/ Tick \/ Awake \/ SpuriousWake \/ Busy \/ Dispatch
          \/ UNCHANGED threadVars
  BY DEF Next, Guest, GuestWrite, GuestLook, GuestSend, GuestOverrun, DestroyContext, TakeBarrier,
    Check, CheckFatal, CheckHead, CheckStall, DrainHead, DrainTail, WaitTimeout, BarrierOver

\* Steps keep the ring thread's types; a batch's count needs where the positions lie.
LEMMA ThreadTyped == ASSUME Types, Life, Positions, Progress, Next PROVE ThreadTypes'
  <1>0. /\ setting \in Settings /\ setting.idle \in Nat /\ setting' = setting
    BY SettingTypes, GuestFrame DEF Types, GuestTypes, Guest, GuestWrite, GuestLook, GuestSend,
      GuestOverrun, Tick, guestVars
  <1> USE <1>0 DEF ThreadTypes
  <1>1. CASE Stream
    <2>1. pc' \in Places
      BY <1>1 DEF Types, Stream, StreamPoisoned, StreamBad, StreamNotify, StreamSubmit, StreamWait,
        StreamDestroy, StopRing, JoinRing, Promote, StreamReached, StreamFatal, StreamDies,
        StreamDied, threadVars, Woken, StopWakes, Places, Parked, Blocks, VmmTypes
    <2>2. UNCHANGED <<cur, pending, verdict, ran, asked>> /\ quiet' \in {0, quiet}
      BY <1>1 DEF Types, Stream, StreamPoisoned, StreamBad, StreamNotify, StreamSubmit, StreamWait,
        StreamDestroy, StopRing, JoinRing, Promote, StreamReached, StreamFatal, StreamDies,
        StreamDied, threadVars
    <2> QED BY <2>1, <2>2 DEF Types
  <1>2. CASE Tick
    BY <1>2 DEF Types, Tick
  <1>3. CASE Awake \/ SpuriousWake \/ Busy
    <2>1. pc' \in Places
      BY <1>3 DEF Awake, SpuriousWake, Busy, Top, TakeDoorbell, SetIdle, ParkTail, Unpark, Read,
        Rewake, Publish, PublishChanged, Block, Announce, VqSleep, VqOver, Unblocked, Driver, Die,
        DieChanged, Poisoned, Exit, ExitChanged, Goto, After, Places, Parked, Blocks, Ended
    <2>2. CASE Read
      <3>1. (tail - Pos(cur)) % Modulus \in Nat
        <4>1. tail - Pos(cur) \in Int
          BY PosType, SeqnoTypes DEF Types, GuestTypes
        <4> QED BY <4>1, SeqnoTypes, DivMod
      <3> QED BY <2>1, <2>2, <3>1 DEF Types, Read
    <2>3. CASE Publish
      BY <2>1, <2>3, <1>0 DEF Types, Publish, Progress, Goto
    <2>4. CASE PublishChanged \/ Unblocked
      BY <2>1, <2>4, SeqnoTypes DEF Types, PublishChanged, Unblocked, NoVerdict
    <2>5. CASE Driver
      BY <2>1, <2>5 DEF Types, Driver
    <2>6. CASE ~Read /\ ~Publish /\ ~PublishChanged /\ ~Unblocked /\ ~Driver
      <3>1. UNCHANGED <<cur, pending, verdict, ran, asked>> /\ quiet' \in {0, quiet}
        BY <1>3, <2>6 DEF Awake, SpuriousWake, Busy, Top, TakeDoorbell, SetIdle, ParkTail, Unpark,
          Rewake, Block, Announce, VqSleep, VqOver, Die, DieChanged, Poisoned, Exit, ExitChanged
      <3> QED BY <2>1, <3>1 DEF Types
    <2> QED BY <2>2, <2>3, <2>4, <2>5, <2>6
  <1>5. CASE UNCHANGED threadVars
    BY <1>5 DEF Types, threadVars
  <1>4. CASE Dispatch
    <2>1. pc' \in Places /\ UNCHANGED <<cur, pending, quiet, asked>>
      BY <1>4 DEF Dispatch, Places, Ended
    <2> DEFINE stop == StopOf
    <2>2. stop \in cur + 1 .. cur + pending + 1 /\ (stop # cur + pending + 1 => StopsAt(stop))
      BY StopIsFirst DEF Types
    <2> HIDE DEF stop
    <2>3. verdict' = verdict \/ (/\ stop = cur + pending + 1 \/ written[stop][1] # "bad"
                                /\ verdict' = [kind |-> IF stop = cur + pending + 1 THEN "ran" ELSE written[stop][1],
                                             consumed |-> stop - cur - 1,
                                     seqno |-> IF stop # cur + pending + 1 /\ written[stop][1] = "vqwait" THEN written[stop][2] ELSE 0])
      BY <1>4 DEF Dispatch, stop, Consumed
    <2>4. ran' = ran \/ ran' = ran \o [k \in 1..stop - cur - 1 |-> cur + k]
      BY <1>4 DEF Dispatch, stop
    <2>5. [k \in 1..stop - cur - 1 |-> cur + k] \in Seq(Nat)
      BY <2>2 DEF Types
    <2>6. ran' \in Seq(Nat)
      <3>1. ran \in Seq(Nat)
        BY DEF Types
      <3> QED BY <2>4, <2>5, <3>1, ConcatProperties
    <2>7. stop # cur + pending + 1 => written[stop] \in Commands /\ written[stop][1] \in {"ask", "bad", "vqwait"}
      BY <2>2 DEF Types, GuestTypes, Positions, StopsAt
    <2>8. verdict' \in [kind : {"none", "ran", "ask", "vqwait"}, consumed : Nat, seqno : 0..MaxVq]
      BY <2>2, <2>3, <2>7, SeqnoTypes, SMTT(60) DEF Types, Commands
    <2> QED BY <2>1, <2>6, <2>8 DEF Types
  <1> QED BY <1>1, <1>2, <1>3, <1>4, <1>5, ThreadFrame

\* Steps keep the waiters' types.
LEMMA WaiterTyped == ASSUME Types, Next PROVE WaiterTypes'
  <1>1. CASE Stream
    <2>1. wpc' \in [Waiters -> Checks] /\ saw' = saw
      BY <1>1 DEF Types, WaiterTypes, Stream, StreamPoisoned, StreamBad, StreamNotify, StreamSubmit,
        StreamWait, StreamDestroy, StopRing, JoinRing, Promote, StreamReached, StreamFatal,
        StreamDies, StreamDied, waiterVars, Off, Checks
    <2>2. want' \in [Waiters -> 0..Modulus - 1]
      <3>1. NextOp /\ stream[1][1] = "wait" => stream[1][2] \in 0..Modulus - 1
        BY DEF NextOp, Types, VmmTypes, Sent
      <3>2. 0 \in 0..Modulus - 1
        BY SeqnoTypes
      <3> QED BY <1>1, <3>1, <3>2 DEF Types, WaiterTypes, Stream, StreamPoisoned, StreamBad,
        StreamNotify, StreamSubmit, StreamWait, StreamDestroy, StopRing, JoinRing, Promote,
        StreamReached, StreamFatal, StreamDies, StreamDied, waiterVars, Off
    <2> QED BY <2>1, <2>2 DEF Types, WaiterTypes
  <1>2. ASSUME NEW w \in Waiters, Check(w) \/ WaitTimeout(w) PROVE WaiterTypes'
    <2>1. want' = want
      BY <1>2 DEF Check, CheckFatal, CheckHead, CheckStall, DrainHead, DrainTail, WaitTimeout
    <2>2. saw' = saw \/ saw' = [saw EXCEPT ![w] = head] \/ saw' = [saw EXCEPT ![w] = 0]
      BY <1>2 DEF Check, CheckFatal, CheckHead, CheckStall, DrainHead, DrainTail, WaitTimeout
    <2>3. \E c \in Checks : wpc' = [wpc EXCEPT ![w] = c]
      BY <1>2 DEF Check, CheckFatal, CheckHead, CheckStall, DrainHead, DrainTail, WaitTimeout,
        Checks
    <2> QED BY <2>1, <2>2, <2>3, SeqnoTypes DEF Types, WaiterTypes, WordTypes
  <1>3. CASE TakeBarrier \/ BarrierOver
    <2>1. \E c \in Checks : wpc' = [wpc EXCEPT !["present"] = c]
      BY <1>3 DEF TakeBarrier, BarrierOver, Checks, Off
    <2>2. saw' = saw /\ \E n \in {0, tail} : want' = [want EXCEPT !["present"] = n]
      BY <1>3 DEF TakeBarrier, BarrierOver, Off
    <2>3. PICK c \in Checks : wpc' = [wpc EXCEPT !["present"] = c]
      BY <2>1
    <2>4. PICK n \in {0, tail} : want' = [want EXCEPT !["present"] = n]
      BY <2>2
    <2>5. n \in 0..Modulus - 1
      BY <2>4, SeqnoTypes DEF Types, GuestTypes
    <2> QED BY <2>2, <2>3, <2>4, <2>5 DEF Types, WaiterTypes
  <1>4. CASE Awake
    BY <1>4 DEF Types, WaiterTypes, Awake, Top, TakeDoorbell, SetIdle, ParkTail, Unpark, Read,
      Rewake, Publish, PublishChanged, Block, Announce, VqSleep, VqOver, Unblocked, Driver, Die,
      DieChanged, Poisoned, Exit, ExitChanged, changed, waiterVars, Checks
  <1>5. CASE UNCHANGED waiterVars
    BY <1>5 DEF Types, WaiterTypes, waiterVars
  <1>6. Next => Stream \/ (\E w \in Waiters : Check(w) \/ WaitTimeout(w)) \/ TakeBarrier \/ BarrierOver \/ Awake \/ UNCHANGED waiterVars
    BY DEF Next, Guest, GuestWrite, GuestLook, GuestSend, GuestOverrun, Tick, DestroyContext,
      SpuriousWake, Rewake, Busy, Dispatch
  <1> QED BY <1>1, <1>2, <1>3, <1>4, <1>5, <1>6

-----------------------------------------------------------------------------
(* Life, positions and progress                                            *)

\* What the guest adds goes behind what is there.
LEMMA GuestKeepsFront ==
  ASSUME Types, Next, ~Stream
  PROVE  stream # <<>> => stream' # <<>> /\ stream'[1] = stream[1]
  <1>1. stream \in Seq(Sent) /\ <<"notify", 0>> \in Sent
    BY DEF Types, VmmTypes, Sent
  <1>2. \A c \in Sent : stream # <<>> => Append(stream, c) # <<>> /\ Append(stream, c)[1] = stream[1]
    BY <1>1
  <1>3. stream' = stream \/ \E c \in Sent : stream' = Append(stream, c)
    BY <1>1, GuestSays
  <1> QED BY <1>2, <1>3

\* Each part of the invariant holds at the start, and every step keeps it: first Life.
LEMMA LifeStart == Init => Life
  BY DEF Init, Life, Waiters

\* What each step does to the words Life is about.
LEMMA LifeKept == ASSUME Types, Life, Next PROVE Life'
  <1>1. CASE (Guest \/ Tick) /\ ~Stream
    <2>1. stream # <<>> => stream' # <<>> /\ stream'[1] = stream[1]
      BY <1>1, GuestKeepsFront
    <2>2. UNCHANGED <<vmm, slot, words, park, pc, cur, pending, waiterVars>>
      BY <1>1 DEF Guest, GuestWrite, GuestLook, GuestSend, GuestOverrun, Tick, vmmVars, threadVars
    <2> QED BY <2>1, <2>2 DEF Life, words, park, waiterVars
  <1>2. CASE Stream
    <2>1. CASE StreamPoisoned \/ StreamBad \/ StreamNotify \/ StreamSubmit
      <3>1. wpc["stream"] = "off" /\ UNCHANGED <<vmm, slot, idle, started, cur, pending, wpc>>
        BY <2>1 DEF StreamPoisoned, StreamBad, StreamNotify, StreamSubmit, NextOp, words, park,
          threadVars, waiterVars
      <3>2. pc' = pc \/ (slot = "running" /\ pc' = Woken(pc))
        BY <2>1 DEF Types, VmmTypes, StreamPoisoned, StreamBad, StreamNotify, StreamSubmit,
          threadVars
      <3> QED BY <3>1, <3>2 DEF Life, Woken
    <2>2. CASE StreamWait
      BY <2>2 DEF Types, VmmTypes, WaiterTypes, Waiters, Life, StreamWait, NextOp, Woken, words
    <2>3. CASE StreamDestroy
      BY <2>3 DEF Types, VmmTypes, Life, StreamDestroy, NextOp, words, park, threadVars, waiterVars
    <2>4. CASE StopRing \/ JoinRing \/ Promote
      BY <2>4 DEF Types, VmmTypes, Life, StopRing, JoinRing, Promote, StopWakes, Woken, words, park,
        threadVars, waiterVars
    <2>5. CASE StreamReached \/ StreamFatal
      BY <2>5 DEF Types, VmmTypes, WaiterTypes, Waiters, Life, StreamReached, StreamFatal, Off,
        vmmVars, words, park, threadVars
    <2>6. CASE StreamDies \/ StreamDied
      BY <2>6 DEF Types, VmmTypes, WaiterTypes, Waiters, Life, StreamDies, StreamDied, words, park,
        threadVars, waiterVars
    <2> QED BY <1>2, <2>1, <2>2, <2>3, <2>4, <2>5, <2>6 DEF Stream
  <1>3. CASE DestroyContext
    BY <1>3 DEF Life, DestroyContext, words, park, threadVars, waiterVars
  <1>4. CASE TakeBarrier \/ BarrierOver
    BY <1>4 DEF Types, WaiterTypes, Waiters, Life, TakeBarrier, BarrierOver, Off, words, park,
      threadVars, vmmVars
  <1>5. CASE Awake \/ SpuriousWake \/ Busy \/ Dispatch
    <2>1. pc \notin {"unborn", "gone"} /\ pc' # "unborn" /\ UNCHANGED <<vmmVars, started>>
      BY <1>5 DEF Awake, SpuriousWake, Busy, Dispatch, Top, TakeDoorbell, SetIdle, ParkTail, Unpark,
        Read, Rewake, Publish, PublishChanged, Block, Announce, VqSleep, VqOver, Unblocked, Driver,
        Die, DieChanged, Poisoned, Exit, ExitChanged, Goto, After, park
    <2>2. wpc' = wpc \/ changed
      BY <1>5 DEF Awake, SpuriousWake, Busy, Dispatch, Top, TakeDoorbell, SetIdle, ParkTail, Unpark,
        Read, Rewake, Publish, PublishChanged, Block, Announce, VqSleep, VqOver, Unblocked, Driver,
        Die, DieChanged, Poisoned, Exit, ExitChanged, waiterVars
    <2>3. wpc'["stream"] = wpc["stream"] \/ (wpc["stream"] = "asleep" /\ wpc'["stream"] = "lock")
      BY <2>2 DEF changed, Waiters
    <2> QED BY <2>1, <2>3 DEF Types, VmmTypes, Life, vmmVars
  <1>6. ASSUME NEW w \in Waiters, Check(w) \/ WaitTimeout(w) PROVE Life'
    BY <1>6 DEF Types, WaiterTypes, Waiters, Life, Check, CheckFatal, CheckHead, CheckStall,
      DrainHead, DrainTail, WaitTimeout, vmmVars, words, park, threadVars
  <1> QED BY <1>1, <1>2, <1>3, <1>4, <1>5, <1>6 DEF Next

\* The counters start together.
LEMMA PositionsStart == Init => Positions
  BY SeqnoTypes DEF Init, Positions

\* What a reader sees between two positions less than a buffer apart.
LEMMA Distance ==
  ASSUME Types, Positions
  PROVE  /\ Len(written) - cur \in 0..Buffer + 1
         /\ (tail - Pos(cur)) % Modulus = Len(written) - cur
         /\ (tail = Pos(cur)) <=> (cur = Len(written))
  <1>1. /\ cur \in Nat /\ pending \in Nat /\ Len(written) \in Nat
        /\ Len(written) - cur \in Nat /\ Len(written) = cur + (Len(written) - cur)
    BY DEF Types, GuestTypes, ThreadTypes, Positions
  <1>2. Len(written) - cur \in 0..Buffer + 1 /\ Buffer + 1 < Modulus
    BY <1>1, RingConstants DEF Positions
  <1>3. (tail - Pos(cur)) % Modulus = Len(written) - cur
    BY <1>1, <1>2, RingConstants, PosDiff DEF Positions
  <1>4. tail = Pos(cur) => cur = Len(written)
    <2>1. ASSUME tail = Pos(cur) PROVE (tail - Pos(cur)) % Modulus = 0
      <3>1. tail - Pos(cur) = 0 /\ Pos(cur) \in Int
        BY <1>1, <2>1, PosType
      <3> QED BY <3>1, RingConstants
    <2>2. tail = Pos(cur) => Len(written) - cur = 0
      BY <1>3, <2>1
    <2>3. \A a, b \in Nat : a - b = 0 => b = a
      OBVIOUS
    <2> QED BY <1>1, <2>2, <2>3
  <1> QED BY <1>1, <1>2, <1>3, <1>4 DEF Positions

\* The words stay the wrapped counts through writes, an overrun and a publish.
LEMMA PositionsKept == ASSUME Types, Positions, Progress, Next PROVE Positions'
  <1>0. cur \in Nat /\ pending \in Nat /\ Len(written) \in Nat /\ written \in Seq(Commands) /\ Buffer \in Nat
    BY SeqnoTypes DEF Types, GuestTypes, ThreadTypes
  <1>a. head = Pos(cur) /\ tail = Pos(Len(written)) /\ (tail - head) % Modulus = Len(written) - cur
    BY Distance DEF Positions
  <1>1. CASE GuestWrite
    <2>1. PICK c \in setting.cmds : written' = Append(written, c)
      BY <1>1 DEF GuestWrite
    <2>2. Len(written') = Len(written) + 1
      BY <1>0, <2>1
    <2>3. tail' = Pos(Len(written) + 1)
      BY <1>0, <1>1, <1>a, PosAdd DEF GuestWrite
    <2> QED BY <1>0, <1>1, <1>a, <2>2, <2>3 DEF GuestWrite, Positions, words, threadVars
  <1>2. CASE GuestOverrun
    <2> DEFINE extra == Buffer + 1 - (Len(written) - cur)
    <2>0. extra \in Nat /\ Len(written) + extra = cur + (Buffer + 1)
      BY <1>0, <1>2, <1>a DEF GuestOverrun
    <2>1. written' = written \o [k \in 1..extra |-> <<"run", 0>>]
      BY <1>2, <1>a DEF GuestOverrun
    <2> HIDE DEF extra
    <2>2. Len(written') = Len(written) + extra
      <3>1. [k \in 1..extra |-> <<"run", 0>>] \in Seq(Commands) /\ Len([k \in 1..extra |-> <<"run", 0>>]) = extra
        BY <2>0 DEF Commands
      <3> QED BY <1>0, <2>1, <3>1, ConcatProperties
    <2>3. tail' = Pos(cur + (Buffer + 1))
      <3>1. head \in Nat /\ head + Buffer + 1 = head + (Buffer + 1)
        BY <1>0, <1>a, PosType
      <3> QED BY <1>0, <1>2, <1>a, <3>1, PosAdd DEF GuestOverrun
    <2>4. UNCHANGED <<head, cur, pending>>
      BY <1>2 DEF GuestOverrun, words, threadVars
    <2> QED BY <1>0, <1>a, <2>0, <2>2, <2>3, <2>4 DEF Positions
  <1>3. CASE Read
    BY <1>0, <1>3, <1>a, Distance DEF Read, Positions, guestVars, words
  <1>4. CASE Publish
    <2>1. cur + verdict.consumed = Len(ran) /\ Len(ran) <= cur + pending /\ Len(ran) \in Nat /\ verdict.consumed \in Nat
      BY <1>4 DEF Publish, Goto, Progress, Types, ThreadTypes
    <2> QED BY <1>0, <1>4, <2>1, SMTT(60) DEF Publish, Positions, guestVars
  <1>5. CASE UNCHANGED <<written, tail, head, cur, pending>>
    BY <1>5 DEF Positions
  <1>6. Next => GuestWrite \/ GuestOverrun \/ Read \/ Publish \/ UNCHANGED <<written, tail, head, cur, pending>>
    BY DEF Next, Guest, GuestLook, GuestSend, Tick, Stream, StreamPoisoned, StreamBad, StreamNotify,
      StreamSubmit, StreamWait, StreamDestroy, StopRing, JoinRing, Promote, StreamReached,
      StreamFatal, StreamDies, StreamDied, DestroyContext, TakeBarrier, Awake, Top, TakeDoorbell,
      SetIdle, ParkTail, Unpark, Rewake, PublishChanged, Block, Announce, VqSleep, VqOver,
      Unblocked, Driver, Die, DieChanged, Poisoned, Exit, ExitChanged, SpuriousWake, Busy, Dispatch,
      Check, CheckFatal, CheckHead, CheckStall, DrainHead, DrainTail, WaitTimeout, BarrierOver,
      guestVars, words, threadVars
  <1> QED BY <1>1, <1>2, <1>3, <1>4, <1>5, <1>6

\* Nothing has run.
LEMMA ProgressStart == Init => Progress
  BY DEF Init, Progress, Ended

\* What a dispatch runs: from the first command of the batch to the one it stops at.
LEMMA RunsPrefix ==
  ASSUME Types, Progress, Dispatch
  PROVE  /\ pc = "offer" /\ cur = Len(ran) /\ UNCHANGED <<cur, pending, written>>
         /\ \/ pc' = "poisoned" /\ UNCHANGED <<ran, verdict>>
            \/ /\ StopOf \in cur + 1 .. cur + pending + 1
               /\ ran' = ran \o [k \in 1..StopOf - cur - 1 |-> cur + k]
               /\ Len(ran') = StopOf - 1
               /\ \/ pc' = "poisoned" /\ UNCHANGED verdict
                  \/ /\ pc' = "publish"
                     /\ verdict'.consumed = StopOf - cur - 1
                     /\ verdict'.kind = IF StopOf = cur + pending + 1 THEN "ran" ELSE written[StopOf][1]
  <1>1. pc = "offer" /\ cur = Len(ran) /\ UNCHANGED <<cur, pending, written>>
    BY DEF Dispatch, Progress, Ended, guestVars
  <1>2. CASE fatal
    BY <1>1, <1>2 DEF Dispatch
  <1>3. CASE ~fatal
    <2>1. StopOf \in cur + 1 .. cur + pending + 1 /\ cur \in Nat /\ pending \in Nat
      BY StopIsFirst DEF Types, ThreadTypes
    <2>2. ran' = ran \o [k \in 1..StopOf - cur - 1 |-> cur + k]
      BY <1>3 DEF Dispatch
    <2>3. Len(ran') = StopOf - 1
      <3>1. ASSUME NEW n \in Nat PROVE Len(ran \o [k \in 1..n |-> cur + k]) = Len(ran) + n
        <4>1. [k \in 1..n |-> cur + k] \in Seq(Nat) /\ Len([k \in 1..n |-> cur + k]) = n
          BY <2>1
        <4> QED BY <4>1, ConcatProperties DEF Types, ThreadTypes
      <3>2. StopOf - cur - 1 \in Nat
        BY <2>1
      <3> QED BY <1>1, <2>1, <2>2, <3>1, <3>2
    <2>4. \/ pc' = "poisoned" /\ UNCHANGED verdict
          \/ /\ pc' = "publish"
             /\ verdict'.consumed = StopOf - cur - 1
             /\ verdict'.kind = IF StopOf = cur + pending + 1 THEN "ran" ELSE written[StopOf][1]
      BY <1>3 DEF Dispatch, Consumed
    <2> QED BY <1>1, <2>1, <2>2, <2>3, <2>4
  <1> QED BY <1>2, <1>3 DEF Types, Flags

\* A dispatch runs ahead of the count and the publish catches up, by what ran.
LEMMA ProgressKept == ASSUME Types, Life, Progress, Next PROVE Progress'
  <1>0. cur \in Nat /\ pending \in Nat /\ Len(ran) \in Nat /\ verdict.consumed \in Nat
    BY DEF Types, ThreadTypes
  <1>1. CASE Dispatch
    BY <1>0, <1>1, RunsPrefix, SMTT(60) DEF Progress, Ended
  <1>2. CASE Publish
    BY <1>0, <1>2 DEF Progress, Publish, Goto, Ended
  <1>3. CASE Read
    <2>0. (tail - Pos(cur)) % Modulus \in Nat
      <3>1. tail - Pos(cur) \in Int
        BY <1>0, PosType, SeqnoTypes DEF Types, GuestTypes
      <3> QED BY <3>1, SeqnoTypes, DivMod
    <2>1. pending' >= pending
      BY <1>0, <1>3, <2>0 DEF Read
    <2>2. pending' \in Nat
      <3>1. pending' = pending \/ pending' = (tail - Pos(cur)) % Modulus
        BY <1>3 DEF Read
      <3> QED BY <1>0, <2>0, <3>1
    <2> QED BY <1>0, <1>3, <2>1, <2>2 DEF Progress, Read, Ended
  <1>4. CASE Stream
    <2>1. UNCHANGED <<cur, pending, ran, verdict>>
      BY <1>4 DEF Stream, StreamPoisoned, StreamBad, StreamNotify, StreamSubmit, StreamWait,
        StreamDestroy, StopRing, JoinRing, Promote, StreamReached, StreamFatal, StreamDies,
        StreamDied, threadVars
    <2>2. (pc' = pc) \/ (pc \notin Ended \cup {"publish"} /\ pc' \notin Ended \cup {"publish"})
      BY <1>4 DEF Life, Stream, StreamPoisoned, StreamBad, StreamNotify, StreamSubmit, StreamWait,
        StreamDestroy, StopRing, JoinRing, Promote, StreamReached, StreamFatal, StreamDies,
        StreamDied, threadVars, Woken, StopWakes, Ended, Types, VmmTypes
    <2> QED BY <2>1, <2>2 DEF Progress
  <1>5. CASE (Awake \/ SpuriousWake \/ Busy) /\ ~Publish /\ ~Read
    <2>1. UNCHANGED <<cur, pending, ran>>
      BY <1>5 DEF Awake, SpuriousWake, Busy, Top, TakeDoorbell, SetIdle, ParkTail, Unpark, Rewake,
        PublishChanged, Block, Announce, VqSleep, VqOver, Unblocked, Driver, Die, DieChanged,
        Poisoned, Exit, ExitChanged
    <2>2. pc' # "publish" /\ (pc \in Ended \cup {"publish"} => pc' \in Ended)
      BY <1>5 DEF Awake, SpuriousWake, Busy, Top, TakeDoorbell, SetIdle, ParkTail, Unpark, Rewake,
        PublishChanged, After, Block, Announce, VqSleep, VqOver, Unblocked, Driver, Die, DieChanged,
        Poisoned, Exit, ExitChanged, Ended, Goto
    <2> QED BY <2>1, <2>2 DEF Progress
  <1>6. CASE UNCHANGED <<cur, pending, ran, verdict, pc>>
    BY <1>6 DEF Progress
  <1>7. Next => \/ Dispatch \/ Publish \/ Read \/ Stream \/ Awake \/ SpuriousWake \/ Busy
                \/ UNCHANGED <<cur, pending, ran, verdict, pc>>
    BY DEF Next, Guest, GuestWrite, GuestLook, GuestSend, GuestOverrun, Tick, DestroyContext,
      TakeBarrier, Check, CheckFatal, CheckHead, CheckStall, DrainHead, DrainTail, WaitTimeout,
      BarrierOver, threadVars
  <1> QED BY <1>1, <1>2, <1>3, <1>4, <1>5, <1>6, <1>7

-----------------------------------------------------------------------------
(* Waits                                                                   *)

\* Nothing is waited on.
LEMMA BlockedStart == Init => Blocked
  BY DEF Init, Blocked, Blocks

\* The wait is said before the sleep and taken back with it (wait_virtqueue_seqno).
LEMMA BlockedKept == ASSUME Types, Life, Blocked, Next PROVE Blocked'
  <1>1. CASE Awake \/ SpuriousWake \/ Busy \/ Dispatch
    <2>1. CASE Block \/ VqOver \/ Exit
      BY <2>1 DEF Blocked, Blocks, Block, VqOver, Exit, Goto
    <2>2. CASE Announce \/ VqSleep
      BY <2>2 DEF Blocked, Blocks, Announce, VqSleep, Goto, park
    <2>3. CASE SpuriousWake
      BY <2>3 DEF Blocked, Blocks, SpuriousWake, Rewake, Goto, park
    <2>4. CASE ~(Block \/ VqOver \/ Exit \/ Announce \/ VqSleep \/ SpuriousWake)
      <3>1. pc \notin Blocks /\ pc' \notin Blocks /\ blocked_on_vq' = blocked_on_vq
        BY <1>1, <2>4 DEF Awake, Busy, Dispatch, Top, TakeDoorbell, SetIdle, ParkTail, Unpark, Read,
          Rewake, Publish, PublishChanged, Unblocked, Driver, Die, DieChanged, Poisoned,
          ExitChanged, Goto, After, Blocks, park
      <3> QED BY <3>1 DEF Blocked
    <2> QED BY <1>1, <2>1, <2>2, <2>3, <2>4
  <1>2. CASE Stream
    <2>1. UNCHANGED <<blocked_on_vq, verdict>>
      BY <1>2 DEF Stream, StreamPoisoned, StreamBad, StreamNotify, StreamSubmit, StreamWait,
        StreamDestroy, StopRing, JoinRing, Promote, StreamReached, StreamFatal, StreamDies,
        StreamDied, threadVars, park
    <2>2. pc' \in Blocks <=> pc \in Blocks
      BY <1>2 DEF Life, Stream, StreamPoisoned, StreamBad, StreamNotify, StreamSubmit, StreamWait,
        StreamDestroy, StopRing, JoinRing, Promote, StreamReached, StreamFatal, StreamDies,
        StreamDied, threadVars, Woken, StopWakes, Blocks, Types, VmmTypes
    <2> QED BY <2>1, <2>2 DEF Blocked
  <1>3. CASE UNCHANGED <<blocked_on_vq, verdict, pc>>
    BY <1>3 DEF Blocked
  <1>4. Next => Stream \/ Awake \/ SpuriousWake \/ Busy \/ Dispatch \/ UNCHANGED <<blocked_on_vq, verdict, pc>>
    BY DEF Next, Guest, GuestWrite, GuestLook, GuestSend, GuestOverrun, Tick, DestroyContext,
      TakeBarrier, Check, CheckFatal, CheckHead, CheckStall, DrainHead, DrainTail, WaitTimeout,
      BarrierOver, threadVars, park
  <1> QED BY <1>1, <1>2, <1>3, <1>4

\* Nobody waits.
LEMMA SleepersStart == Init => Sleepers
  BY DEF Init, Sleepers, Past

\* A wait is stalled only while the thread sleeps on it or is about to.
LEMMA StalledBlocks == ASSUME Types, Blocked PROVE stalled_on => pc \in Blocks /\ vq_seqno < verdict.seqno
  BY DEF Types, WordTypes, ThreadTypes, Blocked, stalled_on

\* Whatever gives a waiter its answer is followed by an announcement under its lock.
LEMMA SleepersKept == ASSUME Types, Life, Blocked, Sleepers, Next PROVE Sleepers'
  <1> USE DEF Past
  <1>1. CASE Publish
    <2>1. ~stalled_on' \/ stalled_on
      BY <1>1 DEF Publish, park, stalled_on
    <2> QED BY <1>1, <2>1, StalledBlocks DEF Publish, Goto, Sleepers, waiterVars, Blocks
  <1>2. CASE Block
    BY <1>2 DEF Block, Goto, Sleepers, waiterVars, seqno_ge, words
  <1>3. CASE PublishChanged \/ Announce \/ Unblocked \/ DieChanged \/ ExitChanged \/ StreamDied
    <2>1. \A w \in Waiters : wpc[w] # "stall" /\ wpc[w] \notin {"drainHead", "drainTail"}
      BY <1>3 DEF PublishChanged, Announced, Announce, Unblocked, DieChanged, ExitChanged,
        StreamDied, WaitFree, InCheck
    <2>2. \A w \in Waiters : wpc'[w] = wpc[w] \/ wpc'[w] \in {"lock", "off"}
      BY <1>3 DEF PublishChanged, Announced, Announce, Unblocked, DieChanged, ExitChanged,
        StreamDied, changed, Waiters
    <2>3. \A w \in Waiters : wpc'[w] # "asleep"
      BY <1>3 DEF PublishChanged, Announced, Announce, Unblocked, DieChanged, ExitChanged,
        StreamDied, changed, Waiters
    <2> QED BY <2>1, <2>2, <2>3 DEF Sleepers
  <1>4. CASE (Awake \/ SpuriousWake \/ Busy \/ Dispatch)
             /\ ~(Publish \/ Block \/ PublishChanged \/ Announce \/ Unblocked \/ DieChanged \/ ExitChanged)
    <2>1. UNCHANGED <<wpc, want, head, vq_seqno>> /\ (blocked_on_vq' = blocked_on_vq \/ blocked_on_vq' = 0)
          /\ pc # "changed" /\ pc # "announce"
      BY <1>4 DEF Awake, SpuriousWake, Busy, Dispatch, Top, TakeDoorbell, SetIdle, ParkTail, Unpark,
        Read, Rewake, Publish, PublishChanged, Block, Announce, VqSleep, VqOver, Unblocked, Driver,
        Die, DieChanged, Poisoned, Exit, ExitChanged, Goto, words, park, waiterVars
    <2> QED BY <2>1 DEF Sleepers, seqno_ge, stalled_on
  <1>5. CASE Stream /\ ~StreamDied
    <2>1. \A w \in Waiters : (wpc'[w] = wpc[w] /\ want'[w] = want[w]) \/ wpc'[w] \in {"lock", "off"}
      BY <1>5 DEF Stream, StreamPoisoned, StreamBad, StreamNotify, StreamSubmit, StreamWait,
        StreamDestroy, StopRing, JoinRing, Promote, StreamReached, StreamFatal, StreamDies,
        StreamDied, waiterVars, Off, Waiters, Types, WaiterTypes
    <2>2. head' = head /\ blocked_on_vq' = blocked_on_vq /\ vq_seqno' \in Nat /\ vq_seqno' >= vq_seqno
      <3>1. UNCHANGED <<head, blocked_on_vq>>
            /\ (vq_seqno' = vq_seqno \/ (StreamSubmit /\ vq_seqno' = Raised(stream[1][2])))
        BY <1>5 DEF Stream, StreamPoisoned, StreamBad, StreamNotify, StreamSubmit, StreamWait,
          StreamDestroy, StopRing, JoinRing, Promote, StreamReached, StreamFatal, StreamDies,
          StreamDied, words, park, CarriedSeqno, Types, VmmTypes
      <3>2. StreamSubmit => stream[1][2] \in Nat
        <4>1. stream # <<>> => stream[1] \in Sent
          BY DEF Types, VmmTypes
        <4> QED BY <4>1, SeqnoTypes DEF StreamSubmit, NextOp, Sent
      <3>3. vq_seqno \in Nat
        BY SeqnoTypes DEF Types, WordTypes
      <3> QED BY <3>1, <3>2, <3>3 DEF Raised
    <2>3. (pc' = "changed") = (pc = "changed") /\ (pc' = "announce") = (pc = "announce")
      BY <1>5 DEF Stream, StreamPoisoned, StreamBad, StreamNotify, StreamSubmit, StreamWait,
        StreamDestroy, StopRing, JoinRing, Promote, StreamReached, StreamFatal, StreamDies,
        StreamDied, threadVars, Woken, StopWakes, Life, Types, VmmTypes
    <2>4. stalled_on' => stalled_on
      BY <2>2 DEF stalled_on, Types, WordTypes
    <2> QED BY <2>1, <2>2, <2>3, <2>4 DEF Sleepers, seqno_ge
  <1>6. ASSUME NEW v \in Waiters, Check(v) \/ WaitTimeout(v) PROVE Sleepers'
    <2>1. UNCHANGED <<head, vq_seqno, blocked_on_vq, want, pc>> /\ \A w \in Waiters : w # v => wpc'[w] = wpc[w]
      BY <1>6 DEF Check, CheckFatal, CheckHead, CheckStall, DrainHead, DrainTail, WaitTimeout,
        words, park, threadVars, Types, WaiterTypes
    <2>2. \/ wpc'[v] \notin {"stall", "drainHead", "drainTail", "asleep"}
          \/ wpc'[v] = "stall" /\ ~seqno_ge(head, want[v])
          \/ wpc[v] = "stall" /\ wpc'[v] = "drainHead" /\ ~stalled_on
          \/ Past(v)
      BY <1>6 DEF Check, CheckFatal, CheckHead, CheckStall, DrainHead, DrainTail, WaitTimeout,
        Types, WaiterTypes
    <2> QED BY <2>1, <2>2 DEF Sleepers, seqno_ge, stalled_on
  <1>7. CASE TakeBarrier \/ BarrierOver
    <2>1. \A w \in Waiters : (wpc'[w] = wpc[w] /\ want'[w] = want[w]) \/ wpc'[w] \in {"lock", "off"}
      BY <1>7 DEF TakeBarrier, BarrierOver, Off, Waiters, Types, WaiterTypes
    <2>2. UNCHANGED <<head, vq_seqno, blocked_on_vq, pc>>
      BY <1>7 DEF TakeBarrier, BarrierOver, words, park, threadVars
    <2> QED BY <2>1, <2>2 DEF Sleepers, seqno_ge, stalled_on
  <1>8. CASE UNCHANGED <<head, vq_seqno, blocked_on_vq, wpc, want, pc>>
    BY <1>8 DEF Sleepers, seqno_ge, stalled_on
  <1>9. Next => \/ Stream \/ Awake \/ SpuriousWake \/ Busy \/ Dispatch \/ TakeBarrier \/ BarrierOver
                \/ \E w \in Waiters : Check(w) \/ WaitTimeout(w)
                \/ UNCHANGED <<head, vq_seqno, blocked_on_vq, wpc, want, pc>>
    BY DEF Next, Guest, GuestWrite, GuestLook, GuestSend, GuestOverrun, Tick, DestroyContext, words,
      park, threadVars, waiterVars
  <1> QED BY <1>1, <1>2, <1>3, <1>4, <1>5, <1>6, <1>7, <1>8, <1>9

\* Nobody is refused.
LEMMA RefusedStart == Init => Refused
  BY DEF Init, Refused, Waiters

\* Nothing ends a stall while the stream's waiter holds it: its seqno can only come from
\* the stream, and a stop needs the VMM thread, which waits.
LEMMA RefusedKept == ASSUME Types, Life, Blocked, Sleepers, Refused, Next PROVE Refused'
  <1>1. CASE Awake \/ SpuriousWake \/ Busy \/ Dispatch
    <2>1. want' = want /\ vq_seqno' = vq_seqno /\ (wpc'["stream"] = "stalled" => wpc["stream"] = "stalled")
      BY <1>1 DEF Awake, SpuriousWake, Busy, Dispatch, Top, TakeDoorbell, SetIdle, ParkTail, Unpark,
        Read, Rewake, Publish, PublishChanged, Block, Announce, VqSleep, VqOver, Unblocked, Driver,
        Die, DieChanged, Poisoned, Exit, ExitChanged, words, park, waiterVars, changed, Waiters
    <2>2. ASSUME wpc["stream"] = "stalled" PROVE UNCHANGED <<head, blocked_on_vq>>
      <3>1. pc \in Blocks /\ vq_seqno < verdict.seqno /\ started
        BY <2>2, StalledBlocks DEF Refused, Life
      <3> QED BY <1>1, <3>1 DEF Awake, SpuriousWake, Busy, Dispatch, Top, TakeDoorbell, SetIdle,
        ParkTail, Unpark, Read, Rewake, Publish, PublishChanged, Block, Announce, VqSleep, VqOver,
        Unblocked, Driver, Die, DieChanged, Poisoned, Exit, ExitChanged, words, park, Goto, Blocks
    <2> QED BY <2>1, <2>2 DEF Refused, seqno_ge, stalled_on
  <1>2. CASE Stream
    <2>1. CASE wpc["stream"] = "stalled"
      <3>1. StreamDies \/ wpc'["stream"] # "stalled"
        BY <1>2, <2>1 DEF Life, NextOp, Stream, StreamPoisoned, StreamBad, StreamNotify,
          StreamSubmit, StreamWait, StreamDestroy, StopRing, JoinRing, Promote, StreamReached,
          StreamFatal, StreamDies, StreamDied, Types, WaiterTypes, Waiters
      <3> QED BY <3>1 DEF Refused, StreamDies, park, waiterVars, seqno_ge, stalled_on
    <2>2. CASE wpc["stream"] # "stalled"
      <3>1. wpc'["stream"] # "stalled"
        BY <1>2, <2>2 DEF Stream, StreamPoisoned, StreamBad, StreamNotify, StreamSubmit, StreamWait,
          StreamDestroy, StopRing, JoinRing, Promote, StreamReached, StreamFatal, StreamDies,
          StreamDied, waiterVars, Off, Types, WaiterTypes, Waiters
      <3> QED BY <3>1 DEF Refused
    <2> QED BY <2>1, <2>2
  <1>3. ASSUME NEW w \in Waiters, Check(w) \/ WaitTimeout(w) PROVE Refused'
    <2>1. UNCHANGED <<head, vq_seqno, blocked_on_vq, want>>
      BY <1>3 DEF Check, CheckFatal, CheckHead, CheckStall, DrainHead, DrainTail, WaitTimeout,
        words, park
    <2>2. \/ wpc'["stream"] # "stalled" \/ wpc["stream"] = "stalled"
          \/ wpc["stream"] = "stall" /\ stalled_on
      BY <1>3 DEF Check, CheckFatal, CheckHead, CheckStall, DrainHead, DrainTail, WaitTimeout,
        Types, WaiterTypes, Waiters
    <2>3. wpc["stream"] = "stall" /\ stalled_on => ~seqno_ge(head, want["stream"])
      BY StalledBlocks DEF Sleepers, Waiters, Blocks
    <2> QED BY <2>1, <2>2, <2>3 DEF Refused, seqno_ge, stalled_on
  <1>4. CASE UNCHANGED <<head, vq_seqno, blocked_on_vq, wpc["stream"], want["stream"]>>
    BY <1>4 DEF Refused, seqno_ge, stalled_on
  <1>5. TakeBarrier \/ BarrierOver => UNCHANGED <<head, vq_seqno, blocked_on_vq, wpc["stream"], want["stream"]>>
    BY DEF TakeBarrier, BarrierOver, Off, words, park, Types, WaiterTypes, Waiters
  <1>6. Next => \/ Stream \/ Awake \/ SpuriousWake \/ Busy \/ Dispatch \/ \E w \in Waiters : Check(w) \/ WaitTimeout(w)
                \/ TakeBarrier \/ BarrierOver \/ UNCHANGED <<head, vq_seqno, blocked_on_vq, wpc["stream"], want["stream"]>>
    BY DEF Next, Guest, GuestWrite, GuestLook, GuestSend, GuestOverrun, Tick, DestroyContext, words,
      park, waiterVars
  <1> QED BY <1>1, <1>2, <1>3, <1>4, <1>5, <1>6

-----------------------------------------------------------------------------
(* Doorbells                                                               *)

\* Nobody has rung and nobody sleeps.
LEMMA BellStart == Init => Bell
  <1> SUFFICES ASSUME Init PROVE Bell
    OBVIOUS
  <1>1. Doorbells = {}
    BY DEF Init, Doorbells
  <1>2. setting.idle \in Nat
    BY SettingTypes DEF Init
  <1> QED BY <1>1, <1>2 DEF Init, Bell, Parked

\* A doorbell put behind the stream is in it, and nothing else makes one.
LEMMA DoorbellAdded ==
  ASSUME stream \in Seq(Sent), NEW c \in Sent, stream' = Append(stream, c)
  PROVE  /\ Doorbells \subseteq Doorbells'
         /\ c[1] = "notify" => Doorbells' # {}
         /\ c[1] # "notify" /\ Doorbells = {} => Doorbells' = {}
  <1>1. /\ Len(stream') = Len(stream) + 1 /\ Len(stream) \in Nat
        /\ \A i \in 1..Len(stream) : stream'[i] = stream[i]
        /\ stream'[Len(stream) + 1] = c
    OBVIOUS
  <1> QED BY <1>1 DEF Doorbells

\* Finishing a command loses no doorbell but the one it is.
LEMMA CommandDone ==
  ASSUME stream \in Seq(Sent), stream # <<>>, stream' = Tail(stream)
  PROVE  /\ stream[1][1] # "notify" /\ Doorbells # {} => Doorbells' # {}
         /\ Doorbells = {} => Doorbells' = {}
  <1>1. /\ Len(stream) \in Nat /\ Len(stream) > 0 /\ Len(stream') = Len(stream) - 1
        /\ \A i \in 1..Len(stream') : stream'[i] = stream[i + 1]
    OBVIOUS
  <1>2. ASSUME stream[1][1] # "notify", Doorbells # {} PROVE Doorbells' # {}
    <2>1. PICK i \in 1..Len(stream) : stream[i][1] = "notify"
      BY <1>2 DEF Doorbells
    <2>2. i - 1 \in 1..Len(stream') /\ stream'[i - 1] = stream[i]
      BY <1>1, <1>2, <2>1
    <2> QED BY <2>1, <2>2 DEF Doorbells
  <1>3. ASSUME NEW i \in Doorbells' PROVE i + 1 \in Doorbells
    BY <1>1, <1>3 DEF Doorbells
  <1> QED BY <1>2, <1>3

\* Once a doorbell is on its way the stream delivers it, or nothing runs any more.
LEMMA StreamDelivers == ASSUME Types, Life, Bell, Stream PROVE Rung => Rung'
  <1>1. stream \in Seq(Sent)
    BY DEF Types, VmmTypes
  <1>2. CASE StreamNotify
    <2>1. slot # "idle"
      <3>1. Len(stream) \in Nat /\ Len(stream) > 0
        BY <1>1, <1>2 DEF StreamNotify, NextOp
      <3>2. 1 \in Doorbells
        BY <1>2, <3>1 DEF StreamNotify, Doorbells
      <3> QED BY <3>2 DEF Bell
    <2> QED BY <1>2, <2>1 DEF StreamNotify, Rung, reject, Types, VmmTypes
  <1>3. CASE StreamPoisoned
    BY <1>3 DEF StreamPoisoned, Rung
  <1>4. CASE ~StreamNotify /\ ~StreamPoisoned
    <2>2. \/ stream' = stream
          \/ stream # <<>> /\ stream[1][1] # "notify" /\ stream' = Tail(stream)
      BY <1>4 DEF Stream, StreamPoisoned, StreamBad, StreamNotify, StreamSubmit, StreamWait,
        StreamDestroy, StopRing, JoinRing, Promote, StreamReached, StreamFatal, StreamDies,
        StreamDied, NextOp, Done, Life, vmmVars, Types, VmmTypes
    <2>3. Doorbells # {} => Doorbells' # {}
      <3>1. stream' = stream => Doorbells' = Doorbells
        BY DEF Doorbells
      <3> QED BY <1>1, <2>2, <3>1, CommandDone
    <2>4. (fatal' = fatal \/ fatal') /\ (notified' = notified \/ notified')
      <3>1. CASE StreamBad \/ StreamSubmit \/ StreamWait \/ StreamDestroy
        BY <3>1 DEF StreamBad, StreamSubmit, StreamWait, StreamDestroy, reject, park, Types,
          VmmTypes
      <3>2. CASE StopRing \/ JoinRing \/ Promote \/ StreamReached \/ StreamFatal \/ StreamDies \/ StreamDied
        BY <3>2 DEF StopRing, JoinRing, Promote, StreamReached, StreamFatal, StreamDies, StreamDied,
          park
      <3> QED BY <1>4, <3>1, <3>2 DEF Stream
    <2> QED BY <2>3, <2>4 DEF Rung
  <1> QED BY <1>2, <1>3, <1>4

\* No step of the thread, the guest or time opens a hole in the handshake (park_if_quiet).
LEMMA BellKept == ASSUME Types, Life, Positions, Progress, Bell, Next PROVE Bell'
  <1>0. /\ setting' = setting /\ setting.idle \in Nat /\ quiet \in 0..setting.idle /\ window \in 0..setting.idle
        /\ quiet' \in 0..setting.idle /\ window' \in 0..setting.idle /\ stream \in Seq(Sent)
    <2>1. setting' = setting
      BY GuestFrame DEF Guest, GuestWrite, GuestLook, GuestSend, GuestOverrun, Tick, guestVars
    <2>2. setting.idle \in Nat /\ quiet \in 0..setting.idle /\ window \in 0..setting.idle /\ stream \in Seq(Sent)
      BY SettingTypes DEF Types, GuestTypes, ThreadTypes, VmmTypes
    <2>3. window' \in 0..setting'.idle
      BY GuestTyped DEF GuestTypes
    <2>4. quiet' \in 0..setting.idle
      BY <2>1, ThreadTyped DEF ThreadTypes
    <2> QED BY <2>1, <2>2, <2>3, <2>4
  <1>1. CASE Tick
    <2>1. UNCHANGED <<pc, idle, slot, stream, notified, fatal, tail, cur, guest>>
      BY <1>1 DEF Tick, vmmVars, words, park
    <2>2. Rung' = Rung /\ Doorbells' = Doorbells
      BY <2>1 DEF Rung, Doorbells
    <2>3. (quiet = setting.idle => quiet' = setting.idle) /\ (quiet <= window => quiet' <= window')
      BY <1>0, <1>1 DEF Tick
    <2> QED BY <1>0, <2>1, <2>2, <2>3 DEF Bell
  <1>2. CASE Guest /\ ~Stream
    <2>1. UNCHANGED <<pc, idle, quiet, slot, notified, fatal, cur>>
      BY <1>2 DEF Guest, GuestWrite, GuestLook, GuestSend, GuestOverrun, vmmVars, words, park,
        threadVars
    <2>2. (Doorbells # {} => Doorbells' # {}) /\ (slot = "idle" => Doorbells' = {})
      <3>1. CASE stream' = stream
        BY <3>1 DEF Doorbells, Bell
      <3>2. CASE idle /\ stream' = Append(stream, <<"notify", 0>>)
        BY <1>0, <3>2, DoorbellAdded DEF Life, Sent
      <3>3. CASE \E c \in Sent : c[1] # "notify" /\ stream' = Append(stream, c)
        BY <1>0, <3>3, DoorbellAdded DEF Bell
      <3> QED BY <1>2, <3>1, <3>2, <3>3, GuestSays
    <2>3. Rung => Rung'
      BY <2>1, <2>2 DEF Rung
    <2>4. (window' = window \/ Rung') /\ (GuestLook /\ idle /\ window >= setting.idle => Rung')
      <3>1. \/ window' = window /\ ~(GuestLook /\ idle /\ window >= setting.idle)
            \/ stream' = Append(stream, <<"notify", 0>>)
        BY <1>2 DEF Guest, GuestWrite, GuestLook, GuestSend, GuestOverrun
      <3>2. <<"notify", 0>> \in Sent
        BY DEF Sent
      <3> QED BY <1>0, <3>1, <3>2, DoorbellAdded DEF Rung
    <2>5. CASE GuestLook
      <3>1. ASSUME pc \in {"asleep", "woken"}, ~Rung' PROVE ~(quiet <= window)
        BY <1>0, <2>4, <2>5, <3>1 DEF Bell, Parked
      <3>2. pc \in {"asleep", "woken"} => Rung'
        BY <1>0, <2>3, <3>1 DEF Bell
      <3> QED BY <1>0, <2>1, <2>2, <2>3, <2>4, <3>2 DEF Bell
    <2>6. CASE ~GuestLook
      <3>1. guest' = "look" \/ UNCHANGED <<guest, tail>>
        BY <1>2, <2>6 DEF Guest, GuestWrite, GuestSend, GuestOverrun
      <3> QED BY <1>0, <2>1, <2>2, <2>3, <2>4, <3>1 DEF Bell
    <2> QED BY <2>5, <2>6
  <1>3. CASE Stream
    <2>1. Rung => Rung'
      BY <1>3, StreamDelivers
    <2>2. UNCHANGED <<guestVars, idle, cur>> /\ quiet' <= quiet
      <3>1. UNCHANGED <<guestVars, idle, cur>> /\ quiet' \in {0, quiet}
        BY <1>3 DEF Stream, StreamPoisoned, StreamBad, StreamNotify, StreamSubmit, StreamWait,
          StreamDestroy, StopRing, JoinRing, Promote, StreamReached, StreamFatal, StreamDies,
          StreamDied, words, threadVars
      <3> QED BY <1>0, <3>1
    <2>3. slot' = "idle" => slot = "idle" /\ (Doorbells = {} => Doorbells' = {})
      <3>1. slot' = "idle" => slot = "idle"
        <4>1. CASE StreamDestroy
          BY <4>1 DEF StreamDestroy, Types, VmmTypes
        <4>2. CASE ~StreamDestroy
          BY <1>3, <4>2 DEF Stream, StreamPoisoned, StreamBad, StreamNotify, StreamSubmit,
            StreamWait, StopRing, JoinRing, Promote, StreamReached, StreamFatal, StreamDies,
            StreamDied, vmmVars
        <4> QED BY <4>1, <4>2
      <3>2. \/ stream' = stream
            \/ stream # <<>> /\ stream' = Tail(stream)
        BY <1>3 DEF Stream, StreamPoisoned, StreamBad, StreamNotify, StreamSubmit, StreamWait,
          StreamDestroy, StopRing, JoinRing, Promote, StreamReached, StreamFatal, StreamDies,
          StreamDied, NextOp, Done, Life, vmmVars, Types, VmmTypes
      <3>3. stream' = stream => Doorbells' = Doorbells
        BY DEF Doorbells
      <3> QED BY <1>0, <3>1, <3>2, <3>3, CommandDone
    <2>4. \/ UNCHANGED <<pc, quiet>>
          \/ pc = "unborn" /\ pc' = "top"
          \/ pc' = Woken(pc) /\ quiet' = quiet
      BY <1>3 DEF Stream, StreamPoisoned, StreamBad, StreamNotify, StreamSubmit, StreamWait,
        StreamDestroy, StopRing, JoinRing, Promote, StreamReached, StreamFatal, StreamDies,
        StreamDied, threadVars, StopWakes, Life, Types, VmmTypes
    <2> QED BY <1>0, <2>1, <2>2, <2>3, <2>4 DEF Bell, Woken, Parked, guestVars
  <1>4. CASE Awake \/ SpuriousWake \/ Busy \/ Dispatch
    <2>1. UNCHANGED <<guestVars, stream, slot>> /\ Doorbells' = Doorbells
      BY <1>4 DEF Awake, SpuriousWake, Busy, Dispatch, Top, TakeDoorbell, SetIdle, ParkTail, Unpark,
        Read, Rewake, Publish, PublishChanged, Block, Announce, VqSleep, VqOver, Unblocked, Driver,
        Die, DieChanged, Poisoned, Exit, ExitChanged, vmmVars, Doorbells
    <2>2. (pc \in Parked <=> idle) => (pc' \in Parked <=> idle')
      BY <1>4 DEF Awake, SpuriousWake, Busy, Dispatch, Top, TakeDoorbell, SetIdle, ParkTail, Unpark,
        Read, Rewake, Publish, PublishChanged, Block, Announce, VqSleep, VqOver, Unblocked, Driver,
        Die, DieChanged, Poisoned, Exit, ExitChanged, Goto, After, words, Parked
    <2>3. pc' \in Parked \cup {"park"} => (pc \in Parked \cup {"park"} \/ quiet >= setting.idle) /\ quiet' = quiet
      BY <1>4 DEF Awake, SpuriousWake, Busy, Dispatch, Top, TakeDoorbell, SetIdle, ParkTail, Unpark,
        Read, Rewake, Publish, PublishChanged, Block, Announce, VqSleep, VqOver, Unblocked, Driver,
        Die, DieChanged, Poisoned, Exit, ExitChanged, Goto, After, Parked
    <2>4. (fatal => fatal') /\ (quiet' = 0 \/ (quiet' = quiet /\ notified' = notified))
      BY <1>4 DEF Awake, SpuriousWake, Busy, Dispatch, Top, TakeDoorbell, SetIdle, ParkTail, Unpark,
        Read, Rewake, Publish, PublishChanged, Block, Announce, VqSleep, VqOver, Unblocked, Driver,
        Die, DieChanged, Poisoned, Exit, ExitChanged, reject, park, Flags, Types
    <2>5. pc' \in {"asleep", "woken"} => /\ pc \in {"asleep", "woken"} \/ tail = Pos(cur)
                                         /\ UNCHANGED <<cur, notified>>
      BY <1>4 DEF Awake, SpuriousWake, Busy, Dispatch, Top, TakeDoorbell, SetIdle, ParkTail, Unpark,
        Read, Rewake, Publish, PublishChanged, Block, Announce, VqSleep, VqOver, Unblocked, Driver,
        Die, DieChanged, Poisoned, Exit, ExitChanged, Goto, After, park, TailNow
    <2>6. Rung' \/ quiet' <= window \/ (~Rung /\ quiet' = quiet)
      BY <1>0, <2>1, <2>4 DEF Rung, guestVars
    <2> QED BY <1>0, <2>1, <2>2, <2>3, <2>4, <2>5, <2>6 DEF Bell, Rung, guestVars
  <1>5. CASE DestroyContext \/ TakeBarrier \/ BarrierOver \/ \E w \in Waiters : Check(w) \/ WaitTimeout(w)
    <2>1. UNCHANGED <<pc, idle, quiet, window, stream, notified, fatal, tail, cur, guest>> /\ (slot' = "idle" => slot = "idle")
      BY <1>5 DEF DestroyContext, TakeBarrier, BarrierOver, Check, CheckFatal, CheckHead,
        CheckStall, DrainHead, DrainTail, WaitTimeout, guestVars, vmmVars, words, park, threadVars
    <2>2. Rung' = Rung /\ Doorbells' = Doorbells
      BY <2>1 DEF Rung, Doorbells
    <2> QED BY <1>0, <2>1, <2>2 DEF Bell
  <1> QED BY <1>1, <1>2, <1>3, <1>4, <1>5 DEF Next

-----------------------------------------------------------------------------
(* Answers, and the guest's own waits                                      *)

\* What is written stays written.
LEMMA WrittenGrows ==
  ASSUME Types, Positions, Next
  PROVE  /\ written \in Seq(Commands) /\ written' \in Seq(Commands)
         /\ \/ written' = written
            \/ (GuestWrite \/ GuestOverrun) /\ Len(written') > Len(written)
         /\ \A i \in 1..Len(written) : written'[i] = written[i]
  <1>1. written \in Seq(Commands) /\ written' \in Seq(Commands)
    BY GuestTyped DEF Types, GuestTypes
  <1>2. CASE GuestWrite
    BY <1>1, <1>2 DEF GuestWrite
  <1>3. CASE GuestOverrun
    <2> DEFINE extra == Buffer + 1 - ((tail - head) % Modulus)
    <2>1. extra \in Nat /\ extra > 0
      <3>1. (tail - head) % Modulus \in Nat /\ (tail - head) % Modulus <= Buffer
        BY <1>3, Distance DEF GuestOverrun, Positions
      <3> QED BY <3>1, SeqnoTypes
    <2>2. written' = written \o [k \in 1..extra |-> <<"run", 0>>]
      BY <1>3 DEF GuestOverrun
    <2> HIDE DEF extra
    <2>3. [k \in 1..extra |-> <<"run", 0>>] \in Seq(Commands) /\ Len([k \in 1..extra |-> <<"run", 0>>]) = extra
      BY <2>1 DEF Commands
    <2>4. Len(written') = Len(written) + extra /\ \A i \in 1..Len(written) : written'[i] = written[i]
      <3>1. ASSUME NEW t \in Seq(Commands)
            PROVE  /\ Len(written \o t) = Len(written) + Len(t)
                   /\ \A i \in 1..Len(written) : (written \o t)[i] = written[i]
        BY <1>1
      <3> QED BY <2>2, <2>3, <3>1
    <2> QED BY <1>1, <1>3, <2>1, <2>4
  <1>4. CASE ~GuestWrite /\ ~GuestOverrun
    BY <1>1, <1>4, GuestFrame DEF Guest, GuestLook, GuestSend, Tick, guestVars
  <1> QED BY <1>2, <1>3, <1>4

\* The asks among more commands are no fewer, and one more where the last is an ask.
LEMMA AsksMore ==
  ASSUME Types, NEW m \in Nat, NEW n \in Nat, m <= n
  PROVE  /\ Cardinality(Asks(m)) \in Nat /\ Cardinality(Asks(n)) \in Nat
         /\ Cardinality(Asks(m)) <= Cardinality(Asks(n))
         /\ m < n /\ n \in 1..Len(written) /\ written[n][1] = "ask" =>
              Cardinality(Asks(m)) + 1 <= Cardinality(Asks(n))
  <1>1. IsFiniteSet(1..n) /\ Asks(n) \subseteq 1..n /\ Asks(m) \subseteq Asks(n)
    BY FS_Interval DEF Asks
  <1>2. IsFiniteSet(Asks(n)) /\ IsFiniteSet(Asks(m))
    BY <1>1, FS_Subset
  <1>3. ASSUME m < n, n \in 1..Len(written), written[n][1] = "ask"
        PROVE  Cardinality(Asks(m)) + 1 <= Cardinality(Asks(n))
    <2>1. n \notin Asks(m) /\ n \in Asks(n)
      BY <1>3 DEF Asks, Types, GuestTypes
    <2>2. Cardinality(Asks(m) \cup {n}) = Cardinality(Asks(m)) + 1 /\ IsFiniteSet(Asks(m) \cup {n})
      BY <1>2, <2>1, FS_AddElement
    <2>3. Cardinality(Asks(m) \cup {n}) <= Cardinality(Asks(n))
      BY <1>1, <1>2, <2>1, FS_Subset
    <2> QED BY <2>2, <2>3
  <1> QED BY <1>1, <1>2, <1>3, FS_Subset, FS_CardinalityType

\* What the guest writes later makes them no fewer.
LEMMA AsksLater ==
  ASSUME Types, Positions, Next, NEW n \in Nat
  PROVE  /\ Cardinality(Asks(n)) \in Nat /\ Cardinality(Asks(n)') \in Nat
         /\ Cardinality(Asks(n)) <= Cardinality(Asks(n)')
  <1>1. IsFiniteSet(1..n) /\ Asks(n)' \subseteq 1..n
    BY FS_Interval DEF Asks
  <1>2. Asks(n) \subseteq Asks(n)'
    BY WrittenGrows DEF Asks
  <1>3. IsFiniteSet(Asks(n)') /\ IsFiniteSet(Asks(n))
    BY <1>1, <1>2, FS_Subset
  <1> QED BY <1>2, <1>3, FS_Subset, FS_CardinalityType

\* Nothing is asked.
LEMMA AskedRightStart == Init => AskedRight
  <1> SUFFICES ASSUME Init PROVE AskedRight
    OBVIOUS
  <1>1. Types
    BY TypesStart
  <1>2. Cardinality(Asks(0)) \in Nat /\ Cardinality(Asks(0)) <= Cardinality(Asks(1))
    BY <1>1, AsksMore
  <1>3. Cardinality(Asks(1)) \in Nat
    BY <1>1, AsksMore
  <1> QED BY <1>2, <1>3 DEF Init, AskedRight

\* An answer is made for the ask at the front, survives a busy offer, and is used up when
\* it is run (DriverWait::run, AnswerAfterBusy).
LEMMA AskedRightKept == ASSUME Types, Life, Positions, Progress, AskedRight, Next PROVE AskedRight'
  <1>0. /\ cur \in Nat /\ pending \in Nat /\ Len(ran) \in Nat /\ Len(ran) + 1 \in Nat /\ asked \in Nat
        /\ Len(written) \in Nat /\ written \in Seq(Commands)
        /\ Len(ran) <= cur + pending /\ cur + pending <= Len(written)
    BY SMTT(60) DEF Types, GuestTypes, ThreadTypes, Positions, Progress
  <1>1. CASE Dispatch
    <2>1. answer' = FALSE /\ asked' = asked /\ pc = "offer" /\ cur = Len(ran) /\ UNCHANGED <<cur, pending, written>>
      BY <1>1, RunsPrefix DEF Dispatch
    <2>2. CASE UNCHANGED <<ran, verdict>> /\ pc' = "poisoned"
      BY <2>1, <2>2 DEF AskedRight, Asks, Ended
    <2>3. CASE /\ StopOf \in cur + 1 .. cur + pending + 1 /\ Len(ran') = StopOf - 1
               /\ \/ pc' = "poisoned" /\ UNCHANGED verdict
                  \/ /\ pc' = "publish" 
                     /\ verdict'.kind = IF StopOf = cur + pending + 1 THEN "ran" ELSE written[StopOf][1]
      <3>1. answer => StopOf # cur + 1
        <4>1. answer => pending > 0 /\ ~StopsAt(cur + 1)
          BY DEF AskedRight, StopsAt
        <4>2. StopOf # cur + pending + 1 => StopsAt(StopOf)
          BY <1>0, StopIsFirst
        <4> QED BY <1>0, <2>3, <4>1, <4>2
      <3>2. Len(ran') \in Nat /\ Len(ran') + 1 \in Nat /\ Len(ran') >= Len(ran)
        BY <1>0, <2>1, <2>3
      <3>3. asked <= Cardinality(Asks(Len(ran')))
        <4>1. CASE answer
          <5>1. Len(ran) + 1 <= Len(ran')
            BY <1>0, <2>1, <2>3, <3>1, <4>1
          <5> QED BY <1>0, <3>2, <5>1, AsksMore, SMTT(60) DEF AskedRight
        <4>2. CASE ~answer
          BY <1>0, <2>1, <3>2, <4>2, AsksMore, SMTT(60) DEF AskedRight, Ended
        <4> QED BY <1>0, <4>1, <4>2
      <3>4. asked <= Cardinality(Asks(Len(ran') + 1))
        BY <1>0, <3>2, <3>3, AsksMore
      <3>5. pc' = "publish" /\ verdict'.kind = "ask" => Len(ran') < cur + pending /\ written[Len(ran') + 1][1] = "ask"
        BY <1>0, <2>3
      <3>6. UNCHANGED written => Asks(Len(ran))' = Asks(Len(ran')) /\ Asks(Len(ran) + 1)' = Asks(Len(ran') + 1)
        BY DEF Asks
      <3> QED BY <2>1, <2>3, <3>3, <3>4, <3>5, <3>6 DEF AskedRight
    <2> QED BY <1>1, <2>2, <2>3, RunsPrefix
  <1>2. CASE Driver
    <2>1. pc = "driver" /\ UNCHANGED <<written, cur, pending, ran>> /\ pc' \in {"top", "exit"}
      BY <1>2 DEF Driver, guestVars
    <2>2. ~answer /\ Len(ran) = cur /\ Len(ran) < cur + pending /\ written[Len(ran) + 1][1] = "ask"
      BY <2>1 DEF AskedRight, Progress, Ended
    <2>3. asked + 1 <= Cardinality(Asks(Len(ran) + 1))
      <3>1. asked <= Cardinality(Asks(Len(ran)))
        BY <2>1, <2>2 DEF AskedRight, Ended
      <3>2. Len(ran) + 1 \in 1..Len(written) /\ Len(ran) < Len(ran) + 1 /\ Len(ran) <= Len(ran) + 1
        BY <1>0, <2>2
      <3>3. /\ Cardinality(Asks(Len(ran))) \in Nat /\ Cardinality(Asks(Len(ran) + 1)) \in Nat
            /\ Cardinality(Asks(Len(ran))) + 1 <= Cardinality(Asks(Len(ran) + 1))
        BY <1>0, <2>2, <3>2, AsksMore
      <3> QED BY <1>0, <3>1, <3>3
    <2>4. UNCHANGED <<written, ran>> => Asks(Len(ran))' = Asks(Len(ran)) /\ Asks(Len(ran) + 1)' = Asks(Len(ran) + 1)
      BY DEF Asks
    <2>5. (answer' = TRUE /\ asked' = asked + 1 /\ pc' = "top") \/ (UNCHANGED <<answer, asked>> /\ pc' = "exit")
      BY <1>2 DEF Driver
    <2> QED BY <1>0, <2>1, <2>2, <2>3, <2>4, <2>5 DEF AskedRight, Ended
  <1>3. CASE ~Dispatch /\ ~Driver
    <2>1. UNCHANGED <<ran, asked>> /\ answer' = answer
      BY <1>3, ThreadFrame DEF Stream, StreamPoisoned, StreamBad, StreamNotify, StreamSubmit,
        StreamWait, StreamDestroy, StopRing, JoinRing, Promote, StreamReached, StreamFatal,
        StreamDies, StreamDied, Awake, SpuriousWake, Busy, Dispatch, Top, TakeDoorbell, SetIdle,
        ParkTail, Unpark, Read, Rewake, Publish, PublishChanged, Block, Announce, VqSleep, VqOver,
        Unblocked, Driver, Die, DieChanged, Poisoned, Exit, ExitChanged, AnswerAfterBusy, Tick,
        threadVars
    <2>2. pc' \notin Ended => pc \notin Ended
      BY <1>3, ThreadFrame, ZenonT(60) DEF Stream, StreamPoisoned, StreamBad, StreamNotify, StreamSubmit,
        StreamWait, StreamDestroy, StopRing, JoinRing, Promote, StreamReached, StreamFatal,
        StreamDies, StreamDied, Awake, SpuriousWake, Busy, Dispatch, Top, TakeDoorbell, SetIdle,
        ParkTail, Unpark, Read, Rewake, Publish, PublishChanged, Block, Announce, VqSleep, VqOver,
        Unblocked, Driver, Die, DieChanged, Poisoned, Exit, ExitChanged, Goto, After, Woken,
        StopWakes, Ended, Life, Types, VmmTypes, Tick, threadVars
    <2>3. /\ asked' <= Cardinality(Asks(Len(ran) + 1))'
          /\ ~answer /\ pc \notin Ended => asked' <= Cardinality(Asks(Len(ran)))'
      <3>1. ASSUME NEW n \in Nat, asked <= Cardinality(Asks(n)) PROVE asked <= Cardinality(Asks(n)')
        BY <1>0, <3>1, AsksLater, SMTT(60)
      <3>2. ran' = ran => Asks(Len(ran))' = {i \in (1..Len(ran)) \cap DOMAIN written' : written'[i][1] = "ask"}
                       /\ Asks(Len(ran) + 1)' = {i \in (1..Len(ran) + 1) \cap DOMAIN written' : written'[i][1] = "ask"}
        BY DEF Asks
      <3>3. asked <= Cardinality(Asks(Len(ran) + 1)) /\ (~answer /\ pc \notin Ended => asked <= Cardinality(Asks(Len(ran))))
        BY DEF AskedRight
      <3>4. \A n \in Nat : asked <= Cardinality(Asks(n)) =>
              asked <= Cardinality({i \in (1..n) \cap DOMAIN written' : written'[i][1] = "ask"})
        BY <3>1 DEF Asks
      <3> QED BY <1>0, <2>1, <3>2, <3>3, <3>4
    <2>4. ASSUME (pc' \in {"publish", "changed"} /\ verdict'.kind = "ask") \/ pc' = "driver"
          PROVE  (pc \in {"publish", "changed"} /\ verdict.kind = "ask") \/ pc = "driver"
      BY <1>3, <2>4, ThreadFrame, ZenonT(60) DEF Stream, StreamPoisoned, StreamBad, StreamNotify, StreamSubmit,
        StreamWait, StreamDestroy, StopRing, JoinRing, Promote, StreamReached, StreamFatal,
        StreamDies, StreamDied, Awake, SpuriousWake, Busy, Dispatch, Top, TakeDoorbell, SetIdle,
        ParkTail, Unpark, Read, Rewake, Publish, PublishChanged, Block, Announce, VqSleep, VqOver,
        Unblocked, Driver, Die, DieChanged, Poisoned, Exit, ExitChanged, Goto, After, Woken,
        StopWakes, Life, Types, VmmTypes, Tick, threadVars, NoVerdict
    <2>5. \/ /\ verdict.consumed \in Nat /\ Len(ran) = cur + verdict.consumed
             /\ cur' = cur + verdict.consumed /\ pending' = pending - verdict.consumed
          \/ pc' \in {"offer", "top", "die"} /\ pending = 0
          \/ UNCHANGED <<cur, pending>>
      <3>1. CASE Publish
        BY <3>1 DEF Publish, Goto, Progress, Types, ThreadTypes
      <3>2. CASE Read
        <4>1. pending = 0 \/ pending > 0
          BY <1>0
        <4> QED BY <3>2, <4>1 DEF Read
      <3>3. CASE ~Publish /\ ~Read
        BY <1>3, <3>3, ThreadFrame DEF Stream, StreamPoisoned, StreamBad, StreamNotify,
          StreamSubmit, StreamWait, StreamDestroy, StopRing, JoinRing, Promote, StreamReached,
          StreamFatal, StreamDies, StreamDied, Awake, SpuriousWake, Busy, Dispatch, Top,
          TakeDoorbell, SetIdle, ParkTail, Unpark, Read, Rewake, Publish, PublishChanged, Block,
          Announce, VqSleep, VqOver, Unblocked, Driver, Die, DieChanged, Poisoned, Exit,
          ExitChanged, Tick, threadVars
      <3> QED BY <3>1, <3>2, <3>3
    <2>6. cur = Len(ran) /\ pending > 0 => UNCHANGED <<cur, pending>>
      BY <1>0, <2>5
    <2>7. answer => UNCHANGED <<cur, pending>> /\ pc' # "driver"
      BY <2>4, <2>6 DEF AskedRight
    <2>8. Len(ran) < cur + pending /\ pc' \in {"publish", "changed", "driver"} => Len(ran) < cur' + pending'
      BY <1>0, <2>5
    <2>9. \A i \in 1..Len(written) : written'[i] = written[i]
      BY WrittenGrows
    <2>10. answer => cur + 1 \in 1..Len(written)
      BY <1>0 DEF AskedRight
    <2>11. Len(ran) < cur + pending => Len(ran) + 1 \in 1..Len(written)
      BY <1>0
    <2>12. answer' => pending' > 0 /\ written'[cur + 1][1] = "ask" /\ cur' = cur /\ cur = Len(ran) /\ pc' # "driver"
      BY <2>1, <2>7, <2>9, <2>10 DEF AskedRight
    <2>13. (pc' \in {"publish", "changed"} /\ verdict'.kind = "ask") \/ pc' = "driver" =>
             ~answer' /\ Len(ran) < cur' + pending' /\ written'[Len(ran) + 1][1] = "ask"
      BY <2>1, <2>4, <2>8, <2>9, <2>11 DEF AskedRight
    <2> QED BY <2>1, <2>2, <2>3, <2>12, <2>13 DEF AskedRight
  <1> QED BY <1>1, <1>2, <1>3

\* Nobody waits.
LEMMA HonestStart == Init => HonestWaits
  BY SeqnoTypes DEF Init, HonestWaits

\* A position once written stays written.
LEMMA StaysWritten ==
  ASSUME Types, Positions, Next, NEW p, Written(p)
  PROVE  Written(p)'
  <1>1. Len(written) \in Nat /\ Len(written') \in Nat /\ Len(written') >= Len(written)
    BY WrittenGrows
  <1>2. PICK n \in 0..Len(written) : p = Pos(n)
    BY DEF Written
  <1>3. n \in 0..Len(written')
    BY <1>1, <1>2
  <1> QED BY <1>2, <1>3 DEF Written, Pos

\* The tail is past every position written, as long as they are within half the counters' range.
LEMMA TailPastWritten ==
  ASSUME Types, Positions, MaxWrites < Modulus \div 2, Len(written) <= MaxWrites, NEW p, Written(p)
  PROVE  seqno_ge(tail, p)
  <1>1. PICK n \in 0..Len(written) : p = Pos(n)
    BY DEF Written
  <1>2. /\ n \in Nat /\ Len(written) \in Nat /\ Len(written) - n \in Nat /\ n + (Len(written) - n) = Len(written)
        /\ Len(written) - n <= MaxWrites
    <2>1. Len(written) \in Nat /\ MaxWrites \in Nat
      BY SeqnoTypes DEF Types, GuestTypes
    <2> QED BY <1>1, <2>1
  <1>3. Modulus \div 2 \in Int /\ Modulus \div 2 <= Modulus
    BY SeqnoTypes
  <1>4. Len(written) - n < Modulus /\ Len(written) - n < Modulus \div 2
    BY <1>2, <1>3, SeqnoTypes
  <1>5. (Pos(n + (Len(written) - n)) - Pos(n)) % Modulus = Len(written) - n
    BY <1>2, <1>4, PosDiff
  <1> QED BY <1>1, <1>2, <1>4, <1>5 DEF Positions, seqno_ge

\* An honest guest's waits stay below its tail, in the stream and in the waiters.
LEMMA HonestKept ==
  ASSUME Types, Life, Positions, HonestWaits, Next, MaxWrites < Modulus \div 2
  PROVE  HonestWaits'
  <1>1. setting' = setting
    BY GuestFrame DEF Guest, GuestWrite, GuestLook, GuestSend, GuestOverrun, Tick, guestVars
  <1> SUFFICES ASSUME ~setting.lies
               PROVE  /\ (Len(written) <= MaxWrites)'
                      /\ (\A i \in 1..Len(stream) : stream[i][1] = "wait" => Written(stream[i][2]))'
                      /\ (\A w \in Waiters : wpc[w] # "off" => Written(want[w]))'
                      /\ (\A w \in Waiters : wpc[w] # "drained")'
    BY <1>1 DEF HonestWaits
  <1>2. /\ Len(written) <= MaxWrites
        /\ \A i \in 1..Len(stream) : stream[i][1] = "wait" => Written(stream[i][2])
        /\ \A w \in Waiters : wpc[w] # "off" => Written(want[w])
        /\ \A w \in Waiters : wpc[w] # "drained"
    BY DEF HonestWaits
  <1>3. written \in Seq(Commands) /\ stream \in Seq(Sent) /\ wpc \in [Waiters -> Checks] /\ want \in [Waiters -> 0..Modulus - 1]
    BY DEF Types, GuestTypes, VmmTypes, WaiterTypes
  <1>4. (Len(written) <= MaxWrites)'
    <2>1. CASE GuestWrite
      BY <1>3, <2>1, SeqnoTypes DEF GuestWrite
    <2>2. CASE ~GuestWrite
      BY <1>2, <2>2, WrittenGrows DEF GuestOverrun
    <2> QED BY <2>1, <2>2
  <1>5. \A p : Written(p) => Written(p)'
    BY StaysWritten
  <1>6. Written(tail)
    BY <1>3 DEF Positions, Written
  <1>7. (\A i \in 1..Len(stream) : stream[i][1] = "wait" => Written(stream[i][2]))'
    <2>1. ASSUME NEW c \in Sent, c[1] = "wait" => Written(c[2]), stream' = Append(stream, c),
                 NEW i \in 1..Len(stream'), stream'[i][1] = "wait"
          PROVE  Written(stream'[i][2])
      <3>1. (i \in 1..Len(stream) /\ stream'[i] = stream[i]) \/ stream'[i] = c
        BY <1>3, <2>1
      <3> QED BY <1>2, <2>1, <3>1
    <2>2. ASSUME stream # <<>>, stream' = Tail(stream), NEW i \in 1..Len(stream'), stream'[i][1] = "wait"
          PROVE  Written(stream'[i][2])
      <3>1. i + 1 \in 1..Len(stream) /\ stream'[i] = stream[i + 1]
        BY <1>3, <2>2
      <3> QED BY <1>2, <2>2, <3>1
    <2>3. \/ stream' = stream
          \/ stream # <<>> /\ stream' = Tail(stream)
          \/ \E c \in Sent : (c[1] = "wait" => Written(c[2])) /\ stream' = Append(stream, c)
      <3>1. CASE Stream
        BY <3>1 DEF Stream, StreamPoisoned, StreamBad, StreamNotify, StreamSubmit, StreamWait,
          StreamDestroy, StopRing, JoinRing, Promote, StreamReached, StreamFatal, StreamDies,
          StreamDied, NextOp, Done, Life, vmmVars, Types, VmmTypes
      <3>2. CASE ~Stream
        <4>1. <<"notify", 0>> \in Sent /\ <<"notify", 0>>[1] # "wait"
          BY DEF Sent
        <4>2. Targets = {tail}
          BY DEF Targets
        <4> QED BY <1>6, <3>2, <4>1, <4>2, GuestSays
      <3> QED BY <3>1, <3>2
    <2>4. \A i \in 1..Len(stream') : stream'[i][1] = "wait" => Written(stream'[i][2])
      BY <1>2, <2>1, <2>2, <2>3
    <2> QED BY <1>5, <2>4
  <1>8. (\A w \in Waiters : wpc[w] # "off" => Written(want[w]))'
    <2>1. \A w \in Waiters : wpc'[w] # "off" => (wpc[w] # "off" /\ want'[w] = want[w]) \/ want'[w] = tail
                                               \/ (StreamWait /\ stream # <<>> /\ stream[1][1] = "wait" /\ want'[w] = stream[1][2])
      <3>1. CASE Stream
        BY <1>3, <3>1, ZenonT(60) DEF Stream, StreamPoisoned, StreamBad, StreamNotify, StreamSubmit, StreamWait,
          StreamDestroy, StopRing, JoinRing, Promote, StreamReached, StreamFatal, StreamDies,
          StreamDied, Off, waiterVars, Waiters, NextOp
      <3>2. CASE TakeBarrier \/ BarrierOver
        BY <1>3, <3>2 DEF TakeBarrier, BarrierOver, Off, Waiters
      <3>3. CASE Awake
        BY <1>3, <3>3 DEF Awake, SpuriousWake, Busy, Dispatch, Top, TakeDoorbell, SetIdle, ParkTail,
          Unpark, Read, Rewake, Publish, PublishChanged, Block, Announce, VqSleep, VqOver,
          Unblocked, Driver, Die, DieChanged, Poisoned, Exit, ExitChanged, changed, waiterVars
      <3>4. ASSUME NEW v \in Waiters, Check(v) \/ WaitTimeout(v)
            PROVE  \A w \in Waiters : wpc'[w] # "off" => wpc[w] # "off" /\ want'[w] = want[w]
        BY <1>3, <3>4 DEF Check, CheckFatal, CheckHead, CheckStall, DrainHead, DrainTail,
          WaitTimeout
      <3>5. CASE UNCHANGED waiterVars
        BY <3>5 DEF waiterVars
      <3> QED BY <3>1, <3>2, <3>3, <3>4, <3>5 DEF Next, Guest, GuestWrite, GuestLook, GuestSend,
        GuestOverrun, Tick, DestroyContext, SpuriousWake, Rewake, Busy, Dispatch
    <2>2. stream # <<>> /\ stream[1][1] = "wait" => Written(stream[1][2])
      BY <1>2, <1>3
    <2>3. \A w \in Waiters : wpc'[w] # "off" => Written(want'[w])
      BY <1>2, <1>6, <2>1, <2>2
    <2> QED BY <1>5, <2>3
  <1>9. (\A w \in Waiters : wpc[w] # "drained")'
    <2>1. ASSUME NEW v \in Waiters, Check(v) \/ WaitTimeout(v), NEW w \in Waiters PROVE wpc'[w] # "drained"
      <3>1. wpc[v] # "off" => seqno_ge(tail, want[v])
        BY <1>2, TailPastWritten
      <3> QED BY <1>2, <1>3, <2>1, <3>1 DEF Check, CheckFatal, CheckHead, CheckStall, DrainHead,
        DrainTail, WaitTimeout
    <2>2. CASE Stream \/ TakeBarrier \/ BarrierOver
      BY <1>2, <1>3, <2>2 DEF Stream, StreamPoisoned, StreamBad, StreamNotify, StreamSubmit,
        StreamWait, StreamDestroy, StopRing, JoinRing, Promote, StreamReached, StreamFatal,
        StreamDies, StreamDied, TakeBarrier, BarrierOver, Off, waiterVars, Waiters
    <2>3. CASE Awake
      BY <1>2, <1>3, <2>3 DEF Awake, SpuriousWake, Busy, Dispatch, Top, TakeDoorbell, SetIdle,
        ParkTail, Unpark, Read, Rewake, Publish, PublishChanged, Block, Announce, VqSleep, VqOver,
        Unblocked, Driver, Die, DieChanged, Poisoned, Exit, ExitChanged, changed, waiterVars
    <2>4. CASE UNCHANGED waiterVars
      BY <1>2, <2>4 DEF waiterVars
    <2> QED BY <2>1, <2>2, <2>3, <2>4 DEF Next, Guest, GuestWrite, GuestLook, GuestSend,
      GuestOverrun, Tick, DestroyContext, SpuriousWake, Rewake, Busy, Dispatch
  <1> QED BY <1>4, <1>7, <1>8, <1>9

-----------------------------------------------------------------------------
(* What every ring keeps                                                   *)

Inv == /\ Types /\ Life /\ Positions /\ Progress /\ Bell
       /\ Blocked /\ Sleepers /\ Refused /\ AskedRight

\* Every part of the invariant holds in every state of a ring (ring_thread.rs, run).
THEOREM Invariance == Spec => []Inv
  <1>1. Init => Inv
    BY TypesStart, LifeStart, PositionsStart, ProgressStart, BellStart, BlockedStart, SleepersStart,
      AskedRightStart, RefusedStart DEF Inv
  <1>2. Inv /\ [Next]_vars => Inv'
    <2> SUFFICES ASSUME Inv, [Next]_vars PROVE Inv'
      OBVIOUS
    <2>1. CASE Next
      <3>1. Types'
        BY <2>1, GuestTyped, VmmTyped, WordTyped, FlagsTyped, ThreadTyped, WaiterTyped DEF Inv,
          Types
      <3> QED BY <2>1, <3>1, LifeKept, PositionsKept, ProgressKept, BellKept, BlockedKept,
        SleepersKept, RefusedKept, AskedRightKept DEF Inv
    <2>2. CASE UNCHANGED vars
      <3>1. Types'
        BY <2>2 DEF Inv, Types, GuestTypes, VmmTypes, WordTypes, Flags, ThreadTypes, WaiterTypes,
          vars, guestVars, vmmVars, words, park, threadVars, waiterVars
      <3>2. Life' /\ Positions' /\ Progress' /\ Bell' /\ Blocked'
        BY <2>2 DEF Inv, Life, Positions, Progress, Bell, Rung, Doorbells, Blocked, vars, guestVars,
          vmmVars, words, park, threadVars, waiterVars
      <3>3. Sleepers' /\ Refused' /\ AskedRight'
        BY <2>2 DEF Inv, Sleepers, Past, Refused, AskedRight, Asks, seqno_ge, stalled_on, vars,
          guestVars, vmmVars, words, park, threadVars, waiterVars
      <3> QED BY <3>1, <3>2, <3>3 DEF Inv
    <2> QED BY <2>1, <2>2
  <1> QED BY <1>1, <1>2, PTL DEF Spec

\* A ring asleep on finished work has a doorbell coming: IDLE is set before the tail is
\* loaded, and the guest loads it after storing the tail (park_if_quiet).
THEOREM DoorbellKept == Spec => []NoLostDoorbell
  <1>1. Inv => NoLostDoorbell
    BY DEF Inv, Bell, Rung, NoLostDoorbell
  <1> QED BY <1>1, Invariance, PTL

\* A waiter asleep with its answer there is about to be told of it: every publish and every
\* stall is announced under the waiters' lock (WaitRing::changed).
THEOREM SleepersWoken == Spec => []NoSleepThrough
  <1>1. Inv => NoSleepThrough
    BY DEF Inv, Sleepers, Past, NoSleepThrough
  <1> QED BY <1>1, Invariance, PTL

\* The head the guest reads never passes a command that has not run, after a suspension
\* or a busy retry too (run, after submit_on).
THEOREM HeadOnlyPastWork == Spec => []HeadHonest
  <1>1. Inv => HeadHonest
    BY DEF Inv, Progress, HeadHonest
  <1> QED BY <1>1, Invariance, PTL

\* A driver wait is asked once, and its answer goes to the batch that begins with it: the
\* two assertions of the loop.
THEOREM DriverAskedOnce == Spec => []AskedOnce
  <1>1. Inv => AskedOnce
    BY DEF Inv, AskedRight, Asks, AskedOnce
  <1> QED BY <1>1, Invariance, PTL

\* The stream is refused a wait only on a ring that really sleeps on a seqno short of it;
\* the variables have their types (RingWaiter::check).
THEOREM RefusalsSound == Spec => []RefusalSound
  <1>1. Inv => TypeOK
    <2> SUFFICES ASSUME Inv PROVE TypeOK
      OBVIOUS
    <2>1. Commands \subseteq {"run", "ask", "bad", "vqwait"} \X Nat /\ Sent \subseteq {"notify", "submit", "wait", "destroy", "bad"} \X Nat
      BY SeqnoTypes DEF Commands, Sent
    <2>2. written \in Seq({"run", "ask", "bad", "vqwait"} \X Nat) /\ stream \in Seq({"notify", "submit", "wait", "destroy", "bad"} \X Nat)
      BY <2>1 DEF Inv, Types, GuestTypes, VmmTypes
    <2>3. {fatal, idle, fatalBit, started, notified, answer} \subseteq BOOLEAN
      BY DEF Inv, Types, Flags
    <2>4. cur + pending \in 0..Len(written)
      BY DEF Inv, Types, GuestTypes, ThreadTypes, Positions
    <2>5. pc = "unborn" <=> slot = "idle" \/ (slot = "gone" /\ cur = 0 /\ pc = "unborn")
      BY DEF Inv, Life, Types, VmmTypes
    <2> QED BY <2>2, <2>3, <2>4, <2>5 DEF Inv, Types, GuestTypes, VmmTypes, WordTypes, ThreadTypes,
      WaiterTypes, Positions, TypeOK
  <1>2. Inv => RefusalSound
    BY <1>1 DEF Inv, Refused, RefusalSound
  <1> QED BY <1>2, Invariance, PTL

\* A guest that waits only for what it wrote is never told the ring drained, on either side
\* of the wrap, while what it wrote is within half the counters' range (seqno_ge).
THEOREM HonestNotDrained ==
  ASSUME MaxWrites < Modulus \div 2
  PROVE  Spec => []HonestNeverDrained
  <1>1. Init => HonestWaits
    BY HonestStart
  <1>2. Inv /\ HonestWaits /\ [Next]_vars => HonestWaits'
    <2>1. ASSUME HonestWaits, UNCHANGED vars PROVE HonestWaits'
      BY <2>1 DEF HonestWaits, Written, Pos, vars, guestVars, vmmVars, waiterVars
    <2> QED BY <2>1, HonestKept DEF Inv
  <1>3. HonestWaits => HonestNeverDrained
    BY DEF HonestWaits, HonestNeverDrained
  <1> QED BY <1>1, <1>2, <1>3, Invariance, PTL DEF Spec

\* Every step of a ring is a step of the command stream it promises, or a stutter.
LEMMA RunStep == ASSUME Inv, [Next]_vars PROVE [CS!Next]_CS!vars
  <1>1. CASE Dispatch
    <2>1. /\ cur = Len(ran) /\ cur \in Nat /\ pending \in Nat /\ cur + pending <= Len(written) /\ Len(written) \in Nat
          /\ ran \in Seq(Nat) /\ UNCHANGED written
      BY <1>1, RunsPrefix DEF Inv, Types, GuestTypes, ThreadTypes, Positions
    <2>2. CASE UNCHANGED ran
      BY <2>1, <2>2 DEF CS!vars
    <2>3. CASE StopOf \in cur + 1 .. cur + pending + 1 /\ ran' = ran \o [k \in 1..StopOf - cur - 1 |-> cur + k]
      <3> DEFINE n == StopOf - 1
      <3>1. n \in cur .. Len(written) /\ StopOf - cur - 1 = n - cur
        BY <2>1, <2>3
      <3> HIDE DEF n
      <3>2. CASE n = cur
        <4>1. [k \in 1..n - cur |-> cur + k] = <<>>
          BY <2>1, <3>2
        <4>2. ran \o <<>> = ran
          BY <2>1
        <4> QED BY <2>1, <2>3, <3>1, <4>1, <4>2 DEF CS!vars
      <3>3. CASE n # cur
        <4>1. n \in Len(ran) + 1 .. Len(written) /\ ran' = ran \o [k \in 1..n - Len(ran) |-> Len(ran) + k]
          BY <2>1, <2>3, <3>1, <3>3
        <4> QED BY <2>1, <4>1 DEF CS!Next, CS!Run
      <3> QED BY <3>2, <3>3
    <2> QED BY <1>1, <2>2, <2>3, RunsPrefix DEF Inv
  <1>2. CASE Next /\ ~Dispatch
    <2>1. ran' = ran
      BY <1>2, ThreadFrame DEF Stream, StreamPoisoned, StreamBad, StreamNotify, StreamSubmit,
        StreamWait, StreamDestroy, StopRing, JoinRing, Promote, StreamReached, StreamFatal,
        StreamDies, StreamDied, Awake, SpuriousWake, Busy, Dispatch, Top, TakeDoorbell, SetIdle,
        ParkTail, Unpark, Read, Rewake, Publish, PublishChanged, Block, Announce, VqSleep, VqOver,
        Unblocked, Driver, Die, DieChanged, Poisoned, Exit, ExitChanged, Tick, threadVars
    <2>2. /\ written \in Seq(Commands) /\ written' \in Seq(Commands)
          /\ written' = written \/ Len(written') > Len(written)
          /\ \A i \in 1..Len(written) : written'[i] = written[i]
      BY <1>2, WrittenGrows DEF Inv
    <2>3. CASE written' = written
      BY <2>1, <2>3 DEF CS!vars
    <2>4. CASE Len(written') > Len(written)
      <3>1. SubSeq(written', 1, Len(written)) = written
        BY <2>2, <2>4
      <3> QED BY <2>1, <2>4, <3>1 DEF CS!Next, CS!Write
    <2> QED BY <2>2, <2>3, <2>4
  <1>3. CASE UNCHANGED vars
    BY <1>3 DEF vars, guestVars, threadVars, CS!vars
  <1> QED BY <1>1, <1>2, <1>3

\* A ring is a command stream: batches, retries, suspensions and stops run the commands in
\* order, once each.
THEOREM RingImplementsStream == Spec => ImplementsCommandStream
  <1>1. Init => CS!Init
    BY DEF Init, CS!Init
  <1>2. Inv /\ [Next]_vars => [CS!Next]_CS!vars
    BY RunStep
  <1> QED BY <1>1, <1>2, Invariance, PTL DEF Spec, ImplementsCommandStream, CS!Spec
=============================================================================
