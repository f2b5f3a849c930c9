----------------------------- MODULE PresentCopy -----------------------------
(***************************************************************************)
(* src/venus/present_copy.rs: the ring of surfaces one scanout's frames    *)
(* are copied into, so that the display shows a copy the guest cannot draw *)
(* over.  The VMM thread picks a slot for each present; the copy is made   *)
(* and its fence retired elsewhere -- a context's present thread, or an    *)
(* embedder's copier, in any order -- and the slot is given back when the  *)
(* job is dropped.                                                         *)
(*                                                                         *)
(* External: the display shows the newest frame whose fence has retired,   *)
(* and the window server takes hold of the one it composites, of those     *)
(* shown, and lets go of it, when it likes.                                *)
(***************************************************************************)
EXTENDS Integers, Sequences, FiniteSets, Functions

CONSTANTS Modes,    \* bound on the mode changes; a mode is a shape
          MaxSlots, \* MAX_SLOTS
          MaxJobs   \* bound on the presents

Shapes == 1..Modes
Jobs   == 1..MaxJobs

VARIABLES
  slots,    \* Lane::slots, by the order they were minted in
  minted,   \* how many were, and the shape of each
  pending,  \* Target::pending
  recent,   \* Lane::recent
  unsent,   \* a job could not be sent
  handed,   \* how many jobs there have been
  job,      \* each one's slot and stage, and how many fences were outstanding before it
  newest,   \* the newest present whose fence has retired, or 0
  shown,    \* its slot, on the display
  inUse     \* the slot the window server holds

ringVars == <<slots, minted, pending, recent>>
vars == <<ringVars, unsent, handed, job, newest, shown, inUse>>

NoJob == [slot |-> 0, stage |-> "none", behind |-> 0]

Init ==
  /\ slots = {} /\ minted = <<>> /\ pending = {} /\ recent = <<>>
  /\ unsent = FALSE /\ handed = 0 /\ job = [j \in Jobs |-> NoJob] /\ newest = 0 /\ shown = 0 /\ inUse = {}

\* Slips, each the mutant of a definition below: a slot taken with its copy pending;
\* one slot remembered and not two.
TakenPending(s) == s \notin inUse
LastOnly == 1

-----------------------------------------------------------------------------
(* Ring::job                                                               *)

\* retain: a mode change drops the slots of another shape that nothing writes.
Retained(shape) == {s \in slots : minted[s] = shape \/ s \in pending}

Unused(s) == s \notin pending /\ s \notin inUse

Free(shape) ==
  {s \in Retained(shape) : minted[s] = shape /\ s \notin Range(recent) /\ Unused(s)}

Remembered == 2
Remember(s) == LET r == Append(recent, s) IN IF Len(r) > Remembered THEN Tail(r) ELSE r

\* The guest does not go back to a mode it left.
Presented(shape) == \A s \in 1..Len(minted) : minted[s] <= shape

\* The oldest free slot, or a new one, or none: Busy.
Picks(shape, s) ==
  \/ /\ s \in Free(shape) /\ \A t \in Free(shape) : s <= t
     /\ slots' = Retained(shape) /\ UNCHANGED minted
  \/ /\ Free(shape) = {} /\ Cardinality(Retained(shape)) < MaxSlots
     /\ s = Len(minted) + 1
     /\ slots' = Retained(shape) \cup {s} /\ minted' = Append(minted, shape)

Outstanding == {j \in Jobs : job[j].stage \in {"out", "lost"}}

\* A present gets a slot, and its copy goes to whoever makes it...
Hand(shape) ==
  /\ handed < MaxJobs /\ Presented(shape)
  /\ \E s \in 1..(Len(minted) + 1) :
       /\ Picks(shape, s)
       /\ pending' = pending \cup {s}
       /\ recent' = Remember(s)
       /\ job' = [job EXCEPT ![handed + 1] =
            [slot |-> s, stage |-> "out", behind |-> Cardinality(Outstanding)]]
  /\ handed' = handed + 1
  /\ UNCHANGED <<unsent, newest, shown, inUse>>

\* ...or cannot be sent: the job is dropped where it was made, and nothing is fenced.
HandUnsent(shape) ==
  /\ ~unsent /\ unsent' = TRUE /\ Presented(shape)
  /\ \E s \in 1..(Len(minted) + 1) : Picks(shape, s) /\ recent' = Remember(s)
  /\ UNCHANGED <<pending, handed, job, newest, shown, inUse>>

Busy(shape) ==
  /\ Presented(shape)
  /\ Free(shape) = {} /\ Cardinality(Retained(shape)) >= MaxSlots
  /\ slots' = Retained(shape)
  /\ UNCHANGED <<minted, pending, recent, unsent, handed, job, newest, shown, inUse>>

-----------------------------------------------------------------------------
(* The copy's end                                                          *)

Show(j) == IF j > newest THEN newest' = j /\ shown' = job[j].slot
                         ELSE UNCHANGED <<newest, shown>>

\* CopyJob::finish and the present thread: the fence, and the display with it...
Retire(j) ==
  /\ job[j].stage = "out"
  /\ job' = [job EXCEPT ![j].stage = "retired"]
  /\ Show(j)
  /\ UNCHANGED <<ringVars, unsent, handed, inUse>>

\* ...and then the job.
Drop(j) ==
  /\ job[j].stage = "retired"
  /\ pending' = pending \ {job[j].slot}
  /\ job' = [job EXCEPT ![j] = NoJob]
  /\ UNCHANGED <<slots, minted, recent, unsent, handed, newest, shown, inUse>>

\* CopyJob::drop, a copier having lost it: the job, and then the fence.
Lose(j) ==
  /\ job[j].stage = "out"
  /\ pending' = pending \ {job[j].slot}
  /\ job' = [job EXCEPT ![j].stage = "lost"]
  /\ UNCHANGED <<slots, minted, recent, unsent, handed, newest, shown, inUse>>

RetireLost(j) ==
  /\ job[j].stage = "lost"
  /\ job' = [job EXCEPT ![j] = NoJob]
  /\ Show(j)
  /\ UNCHANGED <<ringVars, unsent, handed, inUse>>

\* The window server.
Take == /\ shown # 0 /\ inUse' = {shown}
        /\ UNCHANGED <<ringVars, unsent, handed, job, newest, shown>>
LetGo == /\ inUse # {} /\ inUse' = {}
         /\ UNCHANGED <<ringVars, unsent, handed, job, newest, shown>>

Next == \/ \E shape \in Shapes : Hand(shape) \/ HandUnsent(shape) \/ Busy(shape)
        \/ \E j \in Jobs : Retire(j) \/ Drop(j) \/ Lose(j) \/ RetireLost(j)
        \/ Take \/ LetGo

Spec == Init /\ [][Next]_vars

-----------------------------------------------------------------------------
(* Properties                                                              *)

Slots == 1..Len(minted)
Writing(s) == {j \in Jobs : job[j].slot = s /\ job[j].stage \in {"out", "retired"}}

TypeOK ==
  /\ slots \subseteq Slots /\ Cardinality(slots) <= MaxSlots
  /\ \A s \in Slots : minted[s] \in Shapes
  /\ pending \subseteq Slots /\ Len(recent) <= Remembered /\ Range(recent) \subseteq Slots
  /\ unsent \in BOOLEAN /\ handed \in 0..MaxJobs /\ newest \in 0..MaxJobs
  /\ shown \in {0} \cup Slots /\ inUse \subseteq Slots
  /\ \A j \in Jobs : /\ job[j].slot \in {0} \cup Slots
                     /\ job[j].stage \in {"none", "out", "retired", "lost"}

\* No two copies are ever made into one surface, and a slot is pending exactly while
\* its copy is: dropped, lost or unsent, no job leaves its slot taken.
OneWriter ==
  \A s \in Slots : Cardinality(Writing(s)) = IF s \in pending THEN 1 ELSE 0

\* With at most one other frame's fence outstanding when a present gets its slot, the
\* copy is never made into the surface then on the display, or one that comes to be
\* while it is made, whether or not the window server has taken hold of it yet: the
\* two slots handed out last are not handed out again (Lane::recent). A job that could
\* not be sent spends one of the two on a frame nobody shows.
GlassKept ==
  \A j \in Jobs : job[j].stage = "out" /\ job[j].slot = shown => job[j].behind > 1 \/ unsent

-----------------------------------------------------------------------------
(* Why OneWriter and GlassKept hold: what is inductive.                    *)

\* A copy is in the making until its blit is retired, and may yet be shown until then.
Writes(j) == job[j].stage \in {"out", "retired"}
Waits(j)  == job[j].stage \in {"out", "lost"}

Types ==
  /\ minted \in Seq(Shapes) /\ slots \subseteq Slots
  /\ pending \subseteq Slots
  /\ Len(recent) \in 0..2 /\ recent \in Seq(Int)
  /\ \A i \in 1..Len(recent) : recent[i] \in Slots
  /\ handed \in 0..MaxJobs /\ newest \in 0..handed /\ unsent \in BOOLEAN
  /\ job \in [Jobs -> [slot : Nat, stage : {"none", "out", "retired", "lost"}, behind : Nat]]

\* A slot is pending exactly while a job writes it, and one does.
Sound ==
  /\ Types
  /\ \A j \in Jobs : j > handed => job[j].stage = "none"
  /\ \A i, j \in Jobs : Writes(i) /\ Writes(j) /\ job[i].slot = job[j].slot => i = j
  /\ \A s \in Slots : s \in pending <=> \E j \in Jobs : Writes(j) /\ job[j].slot = s
  /\ \A j \in Jobs : Writes(j) => job[j].slot \in Slots

Records == [slot : Nat, stage : {"none", "out", "retired", "lost"}, behind : Nat]

\* The surfaces of the frame handed out last, and of the one before.
Last   == recent[Len(recent)]
Before == recent[1]

\* A copy made with at most one frame outstanding is made neither into the surface
\* shown nor into one that may yet come to be.
Clear(j) ==
  job[j].stage = "out" /\ job[j].behind <= 1 =>
    /\ shown # job[j].slot
    /\ \A k \in Jobs : k # j /\ Waits(k) /\ k > newest => job[k].slot # job[j].slot

\* The two surfaces remembered are those of the last two frames, answered or not, and
\* what is shown is the newest answered one's.
Shows ==
  /\ Len(recent) = (IF handed = 0 THEN 0 ELSE IF handed = 1 THEN 1 ELSE 2)
  /\ handed >= 1 => /\ Waits(handed) => job[handed].slot = Last
                    /\ newest = handed => shown = Last
  /\ handed >= 2 => /\ Waits(handed - 1) => job[handed - 1].slot = Before
                    /\ newest = handed - 1 => shown = Before
  /\ \A i \in Jobs : i <= handed /\ i > newest => Waits(i)
  /\ newest = 0 => shown = 0
  /\ \A j \in Jobs : Clear(j)

\* A frame that could not be sent spends one of the two, and nothing is said any more.
Watched == unsent \/ Shows
=============================================================================
