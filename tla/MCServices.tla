----------------------------- MODULE MCServices -----------------------------
(***************************************************************************)
(* The parts of the renderer that share no state with one another, each    *)
(* with its own module, checked side by side: a behaviour is one of one    *)
(* part, chosen at the start, and the others stay as they begin.  Steps of *)
(* two parts commute, so their interleavings would show nothing more.      *)
(***************************************************************************)
EXTENDS FenceJobs

CONSTANTS
  GpuRings, MaxSubmits,                          \* Timeline's rings, and as there
  Rings, OversampleAbove, MaxSpurious,           \* as in Monitor
  Ids, MaxKeys, MaxStorages, Sizes, Cap,         \* as in Memory
  Handles, Ctxs, MaxMade,                        \* as in HostTable
  Modes, MaxSlots, MaxJobs,                      \* as in PresentCopy
  Targets, Codecs, Depth, MaxOps,                \* as in Landing
  CmdRings, MaxRefs                              \* Journal's rings, and as there

\* What a guest may do, a few of everything at a time: Journal's budgets.
Budget(create, batch, write, free, destroy, export, record, reset, ring) ==
  [create |-> create, batch |-> batch, write |-> write, free |-> free, destroy |-> destroy,
   export |-> export, record |-> record, reset |-> reset, ring |-> ring]
Budgets == {Budget(3, 1, 1, 0, 1, 0, 0, 0, 0), Budget(2, 2, 1, 1, 0, 0, 0, 0, 0),
            Budget(2, 2, 0, 1, 1, 1, 0, 0, 0), Budget(1, 3, 0, 0, 0, 0, 3, 1, 0),
            Budget(1, 2, 0, 0, 1, 0, 3, 1, 0), Budget(2, 1, 0, 1, 0, 0, 2, 1, 0),
            Budget(0, 0, 0, 0, 0, 0, 0, 0, 4)}

\* The periods two rings ask their monitor for: a shorter one after a longer.
Wants == <<9, 2>>

VARIABLES
  chosen,  \* the part that runs
  jobs, stopped, holders, made, thread, hand, dropper, delivered, refused,
  deferred, told, asked, slot, inner, sync, closed, owed, shows, ring, tear, vmm, kept,
  submitted, done, hung, last, tlNewest, tlMade, covers, tlQueue, retired, stop, woken, tlVmm,
  tlHand, tlThread, heads, ready,
  period, registry, alive, running, since, monThread, seen, left, notified, spurious, caller,
  monRing, missed,
  key, memMinted, fatal, busy, memSlots, shared, classic, memAsserted, store, used, published,
  exports, journal, memVmm, at, memDoomed,
  table, blobs, attached, hostMade, condemned, map, parked, hostDoomed, deleted, ctxs, described,
  fb, hostAsserted,
  copySlots, copyMinted, pending, recent, unsent, handed, job, copyNewest, shown, inUse,
  ops, op, landSlot, counted, holds, composite, live, landQueue, landHand, landNewest, render,
  fence, asleep,
  seq, jrMinted, buffers, jrAlive, held, jrJournal, twin, ringSlots, tape, runs, void, jrLeft

retVars == <<jobs, stopped, holders, made, thread, hand, dropper, delivered, refused>>
shutVars == <<deferred, told, asked, slot, inner, sync, closed, owed, shows, ring, tear, vmm,
              kept>>
tlVars == <<submitted, done, hung, last, tlNewest, tlMade, covers, tlQueue, retired, stop, woken,
            tlVmm, tlHand, tlThread, heads, ready>>
monVars == <<period, registry, alive, running, since, monThread, seen, left, notified, spurious,
             caller, monRing, missed>>
memVars == <<key, memMinted, fatal, busy, memSlots, shared, classic, memAsserted, store, used,
             published, exports, journal, memVmm, at, memDoomed>>
hostVars == <<table, blobs, attached, hostMade, condemned, map, parked, hostDoomed, deleted,
              ctxs, described, fb, hostAsserted>>
copyVars == <<copySlots, copyMinted, pending, recent, unsent, handed, job, copyNewest, shown,
              inUse>>
landVars == <<ops, op, landSlot, counted, holds, composite, live, landQueue, landHand,
              landNewest, render, fence, asleep>>
jrVars == <<seq, jrMinted, buffers, jrAlive, held, jrJournal, twin, ringSlots, tape, runs, void,
            jrLeft>>
vars == <<chosen, retVars, shutVars, tlVars, monVars, memVars, hostVars, copyVars, landVars,
          jrVars>>

Ret == INSTANCE Retirement
Shut == INSTANCE Shutdown WITH
  Orderly <- FALSE
Tl == INSTANCE Timeline WITH
  Rings <- GpuRings, newest <- tlNewest, made <- tlMade, queue <- tlQueue, vmm <- tlVmm,
  hand <- tlHand, thread <- tlThread
Mon == INSTANCE Monitor WITH
  thread <- monThread, ring <- monRing
Mem == INSTANCE MemoryProofs WITH
  minted <- memMinted, slots <- memSlots, asserted <- memAsserted, vmm <- memVmm,
  doomed <- memDoomed
Host == INSTANCE HostTableProofs WITH
  made <- hostMade, doomed <- hostDoomed, asserted <- hostAsserted
Copy == INSTANCE PresentCopy WITH
  slots <- copySlots, minted <- copyMinted, newest <- copyNewest
Land == INSTANCE LandingProofs WITH
  slot <- landSlot, queue <- landQueue, hand <- landHand, newest <- landNewest
Jr == INSTANCE JournalProofs WITH
  Rings <- CmdRings, minted <- jrMinted, alive <- jrAlive, journal <- jrJournal,
  slots <- ringSlots, left <- jrLeft

\* What the theorems ask of the constants: the queue's shares and streams are the renderer's,
\* every ring asks its monitor for a period, bounds are numbers and textures finitely many.
ASSUME ServicesConstants ==
  /\ Holders = Shut!Shares /\ Owner = Shut!Root /\ Streams = Shut!Paths
  /\ Mon!Asked /\ MaxSpurious \in Nat
  /\ Mem!Sized /\ Cap \in Nat
  /\ MaxMade \in Nat
  /\ MaxJobs \in Nat /\ MaxSlots \in Nat
  /\ Land!Finite

Init ==
  /\ chosen \in {"retirement", "shutdown", "timeline", "monitor", "memory", "table", "copy",
                 "landing", "journal"}
  /\ Shut!Init /\ Tl!Init /\ Mon!Init /\ Mem!Init /\ Host!Init /\ Copy!Init /\ Land!Init
  /\ Jr!Init
  \* What does not run begins in one way only.
  /\ chosen # "shutdown" => deferred
  /\ chosen # "timeline" => hung = {}
  /\ chosen # "monitor" => monRing = 1
  /\ chosen # "landing" => composite = {}
  /\ chosen # "journal" => jrLeft = Budget(0, 0, 0, 0, 0, 0, 0, 0, 4)

RetNext  == /\ chosen = "retirement" /\ Ret!Next
            /\ UNCHANGED <<chosen, shutVars, tlVars, monVars, memVars, hostVars, copyVars, landVars,
                           jrVars>>
ShutNext == /\ chosen = "shutdown" /\ Shut!Next
            /\ UNCHANGED <<chosen, tlVars, monVars, memVars, hostVars, copyVars, landVars,
                           jrVars>>
TlNext   == /\ chosen = "timeline" /\ Tl!Next
            /\ UNCHANGED <<chosen, retVars, shutVars, monVars, memVars, hostVars, copyVars, landVars,
                           jrVars>>
MonNext  == /\ chosen = "monitor" /\ Mon!Next
            /\ UNCHANGED <<chosen, retVars, shutVars, tlVars, memVars, hostVars, copyVars, landVars,
                           jrVars>>
MemNext  == /\ chosen = "memory" /\ Mem!Next
            /\ UNCHANGED <<chosen, retVars, shutVars, tlVars, monVars, hostVars, copyVars, landVars,
                           jrVars>>
HostNext == /\ chosen = "table" /\ Host!Next
            /\ UNCHANGED <<chosen, retVars, shutVars, tlVars, monVars, memVars, copyVars, landVars,
                           jrVars>>
CopyNext == /\ chosen = "copy" /\ Copy!Next
            /\ UNCHANGED <<chosen, retVars, shutVars, tlVars, monVars, memVars, hostVars, landVars,
                           jrVars>>
LandNext == /\ chosen = "landing" /\ Land!Next
            /\ UNCHANGED <<chosen, retVars, shutVars, tlVars, monVars, memVars, hostVars, copyVars,
                           jrVars>>
JrNext   == /\ chosen = "journal" /\ Jr!Next
            /\ UNCHANGED <<chosen, retVars, shutVars, tlVars, monVars, memVars, hostVars, copyVars,
                           landVars>>

Next == \/ RetNext \/ ShutNext \/ TlNext \/ MonNext \/ MemNext \/ HostNext \/ CopyNext
        \/ LandNext \/ JrNext

\* Each part's own fairness, when it is the one that runs.
RetFair  == /\ WF_retVars(chosen = "retirement" /\ Ret!Thread)
            /\ WF_retVars(chosen = "retirement" /\ Ret!Join)
holdVars == <<retVars, shutVars>>
ShutFair == /\ WF_holdVars(chosen = "shutdown" /\ Shut!RetirementThread)
            /\ WF_holdVars(chosen = "shutdown" /\ Shut!Join)
            /\ WF_holdVars(chosen = "shutdown" /\ Shut!Tear)
            /\ WF_holdVars(chosen = "shutdown" /\ Shut!EndDispatch)
            /\ WF_holdVars(chosen = "shutdown" /\ (Shut!SyncRetire \/ Shut!SyncEnd))
            /\ WF_holdVars(chosen = "shutdown" /\ Shut!PresentRetire)
            /\ WF_holdVars(chosen = "shutdown" /\ Shut!Vmm)
TlFair   == /\ WF_tlVars(chosen = "timeline" /\ Tl!Waiter)
            /\ WF_tlVars(chosen = "timeline" /\ Tl!Kick)
            /\ WF_tlVars(chosen = "timeline" /\ Tl!Join)
            /\ WF_tlVars(chosen = "timeline" /\ \E r \in GpuRings : Tl!Push(r))
            /\ \A r \in GpuRings : WF_tlVars(chosen = "timeline" /\ Tl!Complete(r))
MonFair  == /\ WF_monVars(chosen = "monitor" /\ Mon!Thread)
            /\ WF_monVars(chosen = "monitor" /\ Mon!Join)
LandFair == /\ WF_landVars(chosen = "landing" /\ Land!Render)
            /\ WF_landVars(chosen = "landing" /\ Land!Retire)
            /\ \A c \in Codecs : WF_landVars(chosen = "landing" /\ Land!Thread(c))

Spec == Init /\ [][Next]_vars /\ RetFair /\ ShutFair /\ TlFair /\ MonFair /\ LandFair

-----------------------------------------------------------------------------
(* Properties: those of the modules, under their names there, asked of the *)
(* part that runs: the others stay as they begin.                          *)

\* The invariants that are inductive, and the types.
IInv == /\ chosen \in {"retirement", "shutdown"} => Ret!IInv
        /\ chosen = "shutdown" => Shut!IInv
        /\ chosen = "timeline" => Tl!IInv
        /\ chosen = "monitor" => Mon!TypeOK /\ Mon!IInv
        /\ chosen = "memory" => Mem!TypeOK /\ Mem!IInv
        /\ chosen = "table" => Host!TypeOK /\ Host!Kept /\ Host!Living
        /\ chosen = "copy" => Copy!TypeOK /\ Copy!Sound /\ Copy!Watched
        /\ chosen = "landing" => Land!TypeOK /\ Land!IInv
        /\ chosen = "journal" => Jr!TypeOK /\ Jr!IInv /\ Jr!Remade

\* No fence is lost: not with the queue, not with its context, and not in a
\* cleanup that nothing outlives (fence.rs Inner::drop, vkr.rs, ffi.rs cleanup).
NothingLost == /\ Ret!NothingLost
               /\ chosen = "shutdown" => Shut!DestroyAnswers /\ Shut!CleanupTells

\* The retirement queue and a native context's timelines each answer a stream's
\* fences one at a time, in order, none skipped (fence.rs, drm/timeline.rs).
ImplementsFenceOrder == Ret!ImplementsFenceOrder /\ Tl!ImplementsFenceOrder

\* Who joins a thread, or stands at a decode: the queue's last share, cleanup, a
\* native context's drop, a monitor's, the render thread, the fence waiter.
Waiting == \/ dropper = "joining" \/ vmm \in {"cleaning", "dropped"}
           \/ tlVmm = "joining" \/ caller = "joining" \/ render # Land!Idle \/ fence # 0

\* Every such wait ends (the modules' DropReturns, CleanupReturns, WaitsEnd and
\* FenceEnds, each of which it implies): again and again nobody waits, which says the same
\* as Waiting ~> ~Waiting.
WaitsEnd == []<>~Waiting

\* A native context answers the fences of every ring that does not hang, unless it goes
\* first (drm/timeline.rs).
Unanswered == \E r \in GpuRings \ hung : retired[r] < tlMade[r]
Answered   == []<>(~Unanswered \/ stop)

\* A monitored ring is late only where the wait began anew (venus/monitor.rs).
LateOnlyIfMissed == chosen = "monitor" => Mon!LateOnlyIfMissed

\* The ledger counts what stands (budget.rs)...
Counted == chosen = "memory" => Mem!Counted

\* ...what contexts made is within its cap (budget.rs try_charge)...
VenusCapped == chosen = "memory" => Mem!VenusCapped

\* ...and what is shared stays in its journal (venus/context.rs collect_journal).
ExportKept == chosen = "memory" => Mem!ExportKept

\* A handle names one resource on both sides of the table (vrend/resource.rs)...
Reconciled == chosen = "table" => Host!Reconciled

\* ...a texture drawn into is not deleted (vrend/vrend.rs sweep_condemned)...
TexturesKept == chosen = "table" => Host!TexturesKept

\* ...and one given a type keeps it (vrend/vrend.rs resource_attach_blob).
TypedStays == Host!TypedStays

\* A surface has one copy made into it at a time (venus/present_copy.rs)...
OneWriter == chosen = "copy" => Copy!OneWriter

\* ...and none while it is on the display (venus/present_copy.rs recent).
GlassKept == chosen = "copy" => Copy!GlassKept

\* A command finds every decode before it done (vrend/video/pending.rs).
ReadsLatest == chosen = "landing" => Land!ReadsLatest

\* What a compaction drops, no export would have carried (venus/journal.rs compact)...
CompactionUnseen == chosen = "journal" => Jr!CompactionUnseen

\* ...and a replay of what one carries remakes what the guest holds (keep_set).
RestoreFaithful == chosen = "journal" => Jr!RestoreFaithful
=============================================================================
