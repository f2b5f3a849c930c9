------------------------------ MODULE Shutdown ------------------------------
(***************************************************************************)
(* Who keeps the retirement queue alive, and what that does to the end of  *)
(* the renderer: the C entry points' sink (src/ffi.rs Sink, cleanup), the  *)
(* renderer's own share, one venus context's (src/venus/vkr.rs             *)
(* ContextSlot, src/venus/driver.rs RingQueuesInner), and those of its     *)
(* threads.  Composed with Retirement, whose shares these are.             *)
(*                                                                         *)
(* A context is held by the renderer and, for the length of a dispatch, by *)
(* a ring thread; whoever lets go last tears it down.                      *)
(***************************************************************************)
EXTENDS Integers, Sequences, FiniteSets

CONSTANTS MaxFences,  \* bound on the fences of a ring, and on the presents
          Orderly,    \* whether the VMM destroys its context before it cleans up
          Stop, None  \* as in Retirement

\* The renderer's own share, the one in a context's RingQueuesInner, and the
\* clones its ring's sync thread and its present thread were given.
Shares  == {"renderer", "inner", "sync", "present"}
Root    == "renderer"
Paths   == {"ring", "shown"}

VARIABLES
  jobs, stopped, holders, made, thread, hand, dropper, delivered, refused,  \* Retirement
  deferred,   \* the VMM asked to be told of fences only when it polls
  told,       \* how much of delivered the VMM has been told
  asked,      \* fences the VMM has created, per stream
  slot,       \* who holds the context
  inner,      \* who holds its RingQueuesInner: the context, the present thread
  sync, closed, owed,        \* the ring's sync thread, its channel and what is in it
  shows,      \* the present thread's channel
  ring,       \* the ring thread: "off", "idle", "dispatch" with a claim on the context, "gone"
  tear,       \* the context's teardown: where it is, and on which thread
  vmm,        \* the VMM thread
  kept        \* cleanup's drop of the renderer left a share of the queue behind

queueVars == <<jobs, stopped, holders, made, thread, hand, dropper, delivered, refused>>
sinkVars  == <<deferred, told>>
ctxVars   == <<slot, inner, sync, closed, owed, shows, ring, tear>>
vars == <<queueVars, sinkVars, asked, ctxVars, vmm, kept>>

R == INSTANCE Retirement WITH Holders <- Shares, Owner <- Root, Streams <- Paths

NoTear == [at |-> "none", by |-> "nobody"]

Init ==
  /\ R!Init
  /\ deferred \in BOOLEAN /\ told = 0
  /\ asked = [s \in Paths |-> 0]
  /\ slot = {} /\ inner = {} /\ sync = "off" /\ closed = FALSE /\ owed = 0 /\ shows = 0
  /\ ring = "off" /\ tear = NoTear
  /\ vmm = "serve" /\ kept = FALSE

-----------------------------------------------------------------------------
(* Slips, each the mutant of a definition below: a teardown that does not  *)
(* join, one that leaves the channel open, a cleanup that does not drain,  *)
(* a job retired and left in its channel.                                  *)

Unjoined == TRUE
LeaveOpen == FALSE
NoDrain == told
StillOwed == owed

-----------------------------------------------------------------------------
(* The sink                                                                *)

\* Sink::retire, on the retirement thread: at once, or into the deferred queue.
Deliver ==
  /\ R!Deliver
  /\ told' = IF deferred THEN told ELSE told + 1
  /\ UNCHANGED <<deferred, asked, ctxVars, vmm, kept>>

RetirementThread ==
  \/ Deliver
  \/ (R!Pop \/ R!Sleep \/ R!Finish) /\ UNCHANGED <<sinkVars, asked, ctxVars, vmm, kept>>

Join == R!Join /\ UNCHANGED <<sinkVars, asked, ctxVars, vmm, kept>>

\* virgl_renderer_poll
Poll ==
  /\ vmm = "serve" /\ told < Len(delivered)
  /\ told' = told + 1
  /\ UNCHANGED <<queueVars, deferred, asked, ctxVars, vmm, kept>>

-----------------------------------------------------------------------------
(* A context's life                                                        *)

\* Vkr::context_create, and the ring the guest makes in it.
CreateContext ==
  /\ vmm = "serve" /\ slot = {} /\ inner = {} /\ ring = "off"
  /\ slot' = {"renderer"} /\ inner' = {"context"} /\ ring' = "idle"
  /\ R!Share("inner")
  /\ UNCHANGED <<sinkVars, asked, sync, closed, owed, shows, tear, vmm, kept>>

\* try_dispatch upgrades its weak claim, if the context is there and not locked
\* by a teardown.
BeginDispatch ==
  /\ ring = "idle" /\ slot # {} /\ vmm # "stopping"
  /\ slot' = slot \cup {"ring"} /\ ring' = "dispatch"
  /\ UNCHANGED <<queueVars, sinkVars, asked, inner, sync, closed, owed, shows, tear, vmm, kept>>

\* RingQueues::bind, from the dispatch that retrieves a queue.
Bind ==
  /\ ring = "dispatch" /\ sync = "off"
  /\ sync' = "on" /\ closed' = FALSE
  /\ R!Share("sync")
  /\ UNCHANGED <<sinkVars, asked, slot, inner, owed, shows, ring, tear, vmm, kept>>

\* The context is dropped by whoever held it last.
LetGo(who) ==
  /\ slot' = slot \ {who}
  /\ tear' = IF slot = {who} THEN [at |-> "stop", by |-> who] ELSE tear

\* The end of a dispatch; a ring that was stopped meanwhile ends with it.
EndDispatch ==
  /\ ring = "dispatch"
  /\ LetGo("ring")
  /\ ring' = IF slot = {"ring"} THEN "gone" ELSE "idle"
  /\ UNCHANGED <<queueVars, sinkVars, asked, inner, sync, closed, owed, shows, vmm, kept>>

\* Context's drop runs the driver's teardown, which forgets the devices: the
\* sync thread's channel is closed...
Closed == TRUE

TearStop ==
  /\ tear.at = "stop"
  /\ closed' = Closed
  /\ tear' = [tear EXCEPT !.at = "join"]
  /\ UNCHANGED <<queueVars, sinkVars, asked, slot, inner, sync, owed, shows, ring, vmm, kept>>

\* ...and the thread joined.
SyncOver == sync # "on"

TearJoin ==
  /\ tear.at = "join" /\ SyncOver
  /\ tear' = [tear EXCEPT !.at = "drop"]
  /\ UNCHANGED <<queueVars, sinkVars, asked, slot, inner, sync, closed, owed, shows, ring, vmm,
                 kept>>

\* RingQueuesInner goes with its last share, and its Handle with it. The present
\* thread's share is one: it keeps the very PresentSync whose drop would end it.
TearDrop ==
  /\ tear.at = "drop"
  /\ inner' = inner \ {"context"}
  /\ IF inner = {"context"} THEN R!DropShare("inner") ELSE UNCHANGED queueVars
  /\ tear' = NoTear
  /\ UNCHANGED <<sinkVars, asked, slot, sync, closed, owed, shows, ring, vmm, kept>>

Tear == TearStop \/ TearJoin \/ TearDrop

-----------------------------------------------------------------------------
(* Fences and presents                                                     *)

\* A ring's fence: to its sync thread, or retired by the renderer itself.
CreateFence ==
  /\ vmm = "serve" /\ slot # {} /\ asked["ring"] < MaxFences
  /\ asked' = [asked EXCEPT !["ring"] = @ + 1]
  /\ IF sync = "on" THEN owed' = owed + 1 /\ UNCHANGED queueVars
                    ELSE R!Retire("renderer", "ring") /\ UNCHANGED owed
  /\ UNCHANGED <<sinkVars, slot, inner, sync, closed, shows, ring, tear, vmm, kept>>

OwedAfter == owed - 1

\* sync_thread: what is in the channel, then its own end.
SyncRetire ==
  /\ sync = "on" /\ owed > 0
  /\ R!Retire("sync", "ring")
  /\ owed' = OwedAfter
  /\ UNCHANGED <<sinkVars, asked, slot, inner, sync, closed, shows, ring, tear, vmm, kept>>

SyncEnd ==
  /\ sync = "on" /\ owed = 0 /\ closed
  /\ sync' = "gone"
  /\ R!DropShare("sync")
  /\ UNCHANGED <<sinkVars, asked, slot, inner, closed, owed, shows, ring, tear, vmm, kept>>

\* send_present: the first one starts the thread, with shares of its own.
Present ==
  /\ vmm = "serve" /\ slot # {} /\ sync = "on" /\ asked["shown"] < MaxFences
  /\ asked' = [asked EXCEPT !["shown"] = @ + 1]
  /\ shows' = shows + 1
  /\ inner' = inner \cup {"present"}
  /\ IF "present" \in inner THEN UNCHANGED queueVars ELSE R!Share("present")
  /\ UNCHANGED <<sinkVars, slot, sync, closed, owed, ring, tear, vmm, kept>>

PresentRetire ==
  /\ shows > 0
  /\ shows' = shows - 1
  /\ R!Retire("present", "shown")
  /\ UNCHANGED <<sinkVars, asked, slot, inner, sync, closed, owed, ring, tear, vmm, kept>>

-----------------------------------------------------------------------------
(* context_destroy and cleanup, on the VMM thread                          *)

\* A teardown this thread runs, or a join it is in, is over.
Returned == tear.by # "renderer" /\ dropper # "joining"

\* Vkr::context_destroy locks the context and stops its rings...
DestroyContext ==
  /\ vmm = "serve" /\ slot # {}
  /\ vmm' = "stopping"
  /\ UNCHANGED <<queueVars, sinkVars, asked, ctxVars, kept>>

\* ...and lets go of it once they are joined.
DropContext ==
  /\ vmm = "stopping" /\ ring = "idle"
  /\ ring' = "gone"
  /\ LetGo("renderer")
  /\ vmm' = "destroying"
  /\ UNCHANGED <<queueVars, sinkVars, asked, inner, sync, closed, owed, shows, kept>>

Destroyed ==
  /\ vmm = "destroying" /\ Returned
  /\ vmm' = "serve"
  /\ UNCHANGED <<queueVars, sinkVars, asked, ctxVars, kept>>

\* virgl_renderer_cleanup drops the renderer, fields in order: the contexts with
\* no ring stopped for them (RingThread's drop tells the thread and leaves)...
Cleanup ==
  /\ vmm = "serve" /\ (Orderly => slot = {})
  /\ vmm' = "cleaning"
  /\ IF slot = {} THEN UNCHANGED <<slot, tear>> ELSE LetGo("renderer")
  /\ ring' = IF ring = "idle" THEN "gone" ELSE ring
  /\ UNCHANGED <<queueVars, sinkVars, asked, inner, sync, closed, owed, shows, kept>>

\* ...and the retirement queue's own share last.
DropOwner ==
  /\ vmm = "cleaning" /\ Returned
  /\ R!DropShare("renderer")
  /\ kept' = (holders # {"renderer"})
  /\ vmm' = "dropped"
  /\ UNCHANGED <<sinkVars, asked, ctxVars>>

\* The sink is taken and what it was told is handed over.
Drained == Len(delivered)

Drain ==
  /\ vmm = "dropped" /\ (kept \/ dropper = "joined")
  /\ told' = Drained
  /\ vmm' = "over"
  /\ UNCHANGED <<queueVars, deferred, asked, ctxVars, kept>>

Vmm == DropContext \/ Destroyed \/ DropOwner \/ Drain

Next == \/ RetirementThread \/ Join \/ Poll
        \/ CreateContext \/ BeginDispatch \/ Bind \/ EndDispatch \/ Tear
        \/ CreateFence \/ SyncRetire \/ SyncEnd \/ Present \/ PresentRetire
        \/ DestroyContext \/ Cleanup \/ Vmm

\* The threads run, and a call of the VMM's that has begun goes on; a dispatch
\* ends, and the context's lock is granted to the teardown in the end.
Fairness == /\ WF_vars(RetirementThread) /\ WF_vars(Join) /\ WF_vars(Tear) /\ WF_vars(EndDispatch)
            /\ WF_vars(SyncRetire \/ SyncEnd) /\ WF_vars(PresentRetire) /\ WF_vars(Vmm)

Spec == Init /\ [][Next]_vars /\ Fairness

-----------------------------------------------------------------------------
(* Properties                                                              *)

\* The counts of fences agree along the way to the VMM.
TypeOK ==
  /\ told \in 0..Len(delivered) /\ (~deferred => told = Len(delivered))
  /\ asked["ring"] = made["ring"] + owed /\ asked["shown"] = made["shown"] + shows
  /\ slot \subseteq {"renderer", "ring"} /\ inner \subseteq {"context", "present"}
  /\ sync \in {"off", "on", "gone"} /\ closed \in BOOLEAN
  /\ ring \in {"off", "idle", "dispatch", "gone"}
  /\ tear \in [at : {"none", "stop", "join", "drop"}, by : {"nobody", "renderer", "ring"}]
  /\ (tear.at # "none" => slot = {})
  /\ vmm \in {"serve", "stopping", "destroying", "cleaning", "dropped", "over"}

\* When a context's destroy has returned, every ring fence the VMM created in it
\* has been retired: its sync thread drained its channel and was joined.
DestroyAnswers ==
  vmm = "serve" /\ slot = {} /\ tear = NoTear => made["ring"] = asked["ring"]

Told == told = asked["ring"] + asked["shown"]

\* Cleanup hands over every fence, as long as no share of the queue outlives the
\* renderer's; the VMM is told of them before cleanup returns.
CleanupTells == vmm = "over" /\ ~kept => Told

\* Cleanup returns, joins included.
CleanupReturns == vmm = "cleaning" ~> vmm = "over"

\* "Dropping the root joins the retirement thread, so a fence the VMM is still
\* waiting on is delivered before cleanup returns rather than being lost with
\* the queue" (virgl_renderer_cleanup).
CleanupDelivers == vmm = "over" => Told

-----------------------------------------------------------------------------
(* The inductive invariant behind the safety properties                    *)

\* A thread has its share of the queue while it runs, a context's RingQueuesInner
\* while anyone holds it, and the renderer until cleanup drops it.
Held ==
  /\ "sync" \in holders <=> sync = "on"
  /\ "inner" \in holders <=> inner # {}
  /\ "present" \in holders <=> "present" \in inner
  /\ "renderer" \in holders <=> vmm \notin {"dropped", "over"}

\* A context has its RingQueuesInner until it is torn down, and no sync thread after.
Living ==
  /\ ring = "dispatch" <=> "ring" \in slot
  /\ slot # {} \/ tear.at # "none" => "context" \in inner
  /\ slot = {} /\ tear.at \in {"none", "drop"} => sync # "on"

\* Only a thread that runs has anything in its channel.
Owing ==
  /\ asked \in [Paths -> Nat] /\ owed \in Nat /\ shows \in Nat
  /\ sync # "on" => owed = 0
  /\ shows > 0 => "present" \in inner

\* Every fence made is delivered, in hand or queued, and counted once; besides them
\* there is one Stop, from the last share's drop until the thread finishes.
Tallied ==
  Len(delivered) + Len(jobs) + (IF hand = None THEN 0 ELSE 1) =
    made["ring"] + made["shown"] + (IF dropper # "none" /\ thread # "gone" THEN 1 ELSE 0)

\* A cleanup that nothing outlives leaves nobody who could retire a fence.
Alone ==
  /\ vmm \in {"dropped", "over"} /\ ~kept => holders = {}
  /\ vmm = "over" /\ ~kept => dropper = "joined" /\ told = Len(delivered)

IInv == TypeOK /\ Held /\ Living /\ Owing /\ Tallied /\ Alone
=============================================================================
