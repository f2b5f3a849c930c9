------------------------------- MODULE Memory -------------------------------
(***************************************************************************)
(* src/budget.rs, the ledger of host memory held for the guest, with what  *)
(* charges and credits it: a venus context's device memory                 *)
(* (src/venus/driver.rs), published once as a blob of the renderer's       *)
(* (src/renderer.rs) and imported by other contexts, and classic's         *)
(* surfaces.  A charge lives in the storage it paid for and is credited    *)
(* when the last share of that storage goes, on whatever thread that is,   *)
(* whether or not the context that paid, or its id, is still the same.     *)
(*                                                                         *)
(* With it, how long a context's journal keeps the command that made a     *)
(* storage (src/venus/context.rs exports): as long as any share is held.   *)
(*                                                                         *)
(* A bucket of the ledger is the charges taken and not credited; the code  *)
(* keeps how many there are of each kind and size.                         *)
(***************************************************************************)
EXTENDS Integers, FiniteSets

CONSTANTS Ids,         \* the context ids a guest reuses
          MaxKeys,     \* bound on the occupants of those ids, over time
          MaxStorages, \* bound on the storages ever made
          Sizes,       \* what they measure
          Cap          \* Budget::cap

Storages == 1..MaxStorages

VARIABLES
  key,        \* Vkr::contexts: the occupant of each id, or 0
  minted,     \* Vkr::generations
  fatal,      \* the occupants a refusal stopped
  busy,       \* the storage an id's dispatch has charged and not yet recorded, or 0
  slots,      \* Ledger::ctxs: the occupant a slot belongs to, or 0, and its bucket
  shared, classic,  \* the ledger's other two buckets
  asserted,   \* an assertion failed: a credit of an absent charge, a second account
  store,      \* each storage: who paid for it, its size, who holds a share of it and
              \* which occupants' import records do
  used,       \* how many have been made
  published,  \* those exported
  exports,    \* Context::exports, by the storage
  journal,    \* the storages whose allocate their context's journal still has
  vmm,        \* the VMM thread: "idle", "insert" a blob, "tear" a context down
  at,         \* the blob's storage
  doomed      \* the payer torn down

ctxVars    == <<key, minted, fatal, busy>>
ledgerVars == <<slots, shared, classic, asserted>>
shareVars  == <<store, used, published>>
keptVars   == <<exports, journal>>
vmmVars    == <<vmm, at, doomed>>
vars == <<ctxVars, ledgerVars, shareVars, keptVars, vmmVars>>

\* A payer is an occupant of a context id, or classic. Besides the imports, a holder
\* of a share is the dispatch that is making it, its record, the VMM's stack, a blob
\* or a texture, or one waiting to be deleted.
Classic == [id |-> "classic", key |-> -1]
Payers  == [id : Ids, key : Nat] \cup {Classic}
Keepers == {"plan", "record", "stack", "blob", "doomed"}
NoSlot  == [key |-> 0, live |-> {}]
NoStore == [payer |-> Classic, size |-> 0, holders |-> {}, importers |-> {}]

Init ==
  /\ key = [i \in Ids |-> 0] /\ minted = 0 /\ fatal = {} /\ busy = [i \in Ids |-> 0]
  /\ slots = [i \in Ids |-> NoSlot] /\ shared = {} /\ classic = {} /\ asserted = FALSE
  /\ store = [s \in Storages |-> NoStore] /\ used = 0 /\ published = {}
  /\ exports = {} /\ journal = {}
  /\ vmm = "idle" /\ at = 0 /\ doomed = Classic

-----------------------------------------------------------------------------
(* The ledger                                                              *)

\* Slips, each the mutant of a definition below: a slot found by the id alone, a
\* total that forgets what outlived its context, a witness that asks only whether
\* the object still lives.
SlotById(p) == slots[p.id] # NoSlot
Forgetful == (UNION {slots[i].live : i \in Ids}) \cup classic
LivesOnly(s) == "record" \in store[s].holders

\* The bytes a bucket's charges stand for, each a storage and an offset in it, and how
\* many they are.
Spans(bucket) == UNION {{s} \X (1..store[s].size) : s \in bucket}
Bytes(bucket) == Cardinality(Spans(bucket))

\* Ledger::bytes
Charged == (UNION {slots[i].live : i \in Ids}) \cup shared \cup classic

\* Ledger::slot_of
SlotOf(p) == slots[p.id].key = p.key

\* Charge::drop
Credit(s) ==
  LET p == store[s].payer IN
  CASE p = Classic ->
         /\ classic' = classic \ {s}
         /\ asserted' = (asserted \/ s \notin classic)
         /\ UNCHANGED <<slots, shared>>
    [] p # Classic /\ SlotOf(p) ->
         /\ slots' = [slots EXCEPT ![p.id].live = @ \ {s}]
         /\ asserted' = (asserted \/ s \notin slots[p.id].live)
         /\ UNCHANGED <<shared, classic>>
    [] p # Classic /\ ~SlotOf(p) ->
         /\ shared' = shared \ {s}
         /\ asserted' = (asserted \/ s \notin shared)
         /\ UNCHANGED <<slots, classic>>

\* A storage is held otherwise, and goes, its charge with it, once nothing holds it.
Held(s, holders, importers) ==
  /\ store' = [store EXCEPT ![s].holders = holders, ![s].importers = importers]
  /\ IF holders = {} /\ importers = {} THEN Credit(s) ELSE UNCHANGED ledgerVars

LetGo(s, h)  == h \in store[s].holders /\ Held(s, store[s].holders \ {h}, store[s].importers)
Forget(s, k) == k \in store[s].importers /\ Held(s, store[s].holders, store[s].importers \ {k})

Mint(payer, size, h) ==
  /\ used < MaxStorages
  /\ used' = used + 1
  /\ store' = [store EXCEPT ![used + 1] = 
       [payer |-> payer, size |-> size, holders |-> {h}, importers |-> {}]]

Payer(i) == [id |-> i, key |-> key[i]]

-----------------------------------------------------------------------------
(* The answer to VK_EXT_memory_budget                                      *)

Least(a, b) == IF a <= b THEN a ELSE b
Greatest(a, b) == IF a >= b THEN a ELSE b

\* Standing::ours, of a subtraction that stops at zero.
Ours(own, others, heap) ==
  Least(Greatest(IF others <= Cap THEN Cap - others ELSE 0, own), heap)

\* Account::heap_answer: the budget and the usage. A driver's zero is no answer.
HeapBudget(own, others, heap, driver) ==
  Greatest(IF driver = 0 THEN Ours(own, others, heap)
                         ELSE Least(Ours(own, others, heap), driver), 1)
HeapUsage(own, others, heap, driver) == Least(own, HeapBudget(own, others, heap, driver))

-----------------------------------------------------------------------------
(* A context's dispatches, on its ring threads                             *)

\* Nothing else holds the context's lock.
Free(i) == key[i] # 0 /\ busy[i] = 0

\* allocate_memory is admitted and charged before the driver is asked...
Admit(i, size) ==
  /\ Free(i) /\ key[i] \notin fatal
  /\ Bytes(Charged) + size <= Cap
  /\ Mint(Payer(i), size, "plan")
  /\ slots' = [slots EXCEPT ![i].live = @ \cup {used + 1}]
  /\ busy' = [busy EXCEPT ![i] = used + 1]
  /\ asserted' = (asserted \/ ~SlotOf(Payer(i)))
  /\ UNCHANGED <<key, minted, fatal, shared, classic, published, keptVars, vmmVars>>

\* ...or refused, which stops the context.
Refuse(i) ==
  /\ Free(i) /\ key[i] \notin fatal /\ used < MaxStorages
  /\ \E size \in Sizes : Bytes(Charged) + size > Cap
  /\ fatal' = fatal \cup {key[i]}
  /\ UNCHANGED <<key, minted, busy, ledgerVars, shareVars, keptVars, vmmVars>>

\* The driver's answer: the charge goes into the record, and the command into the
\* journal...
Record(i) ==
  /\ busy[i] # 0
  /\ Held(busy[i], {"record"}, {})
  /\ journal' = journal \cup {busy[i]}
  /\ busy' = [busy EXCEPT ![i] = 0]
  /\ UNCHANGED <<key, minted, fatal, used, published, exports, vmmVars>>

\* ...or, refused, goes with the plan.
DriverRefuses(i) ==
  /\ busy[i] # 0
  /\ LetGo(busy[i], "plan")
  /\ busy' = [busy EXCEPT ![i] = 0]
  /\ UNCHANGED <<key, minted, fatal, used, published, keptVars, vmmVars>>

\* free_memory: the record of an allocation, or of an import, goes.
FreeMemory(i, s) ==
  /\ Free(i) /\ key[i] \notin fatal
  /\ (store[s].payer = Payer(i) /\ LetGo(s, "record")) \/ Forget(s, key[i])
  /\ UNCHANGED <<ctxVars, used, published, keptVars, vmmVars>>

\* allocate_memory of an import: the record holds the share it found in the table.
Import(i, s) ==
  /\ Free(i) /\ key[i] \notin fatal
  /\ "blob" \in store[s].holders
  /\ Held(s, store[s].holders, store[s].importers \cup {key[i]})
  /\ UNCHANGED <<ctxVars, used, published, keptVars, vmmVars>>

Stands(s) == store[s].holders # {} \/ store[s].importers # {}

\* ShareWitness::held, for what the object table no longer answers for.
Witnessed(s) == Stands(s)

\* LiveObjects::holds
Kept(s) == "record" \in store[s].holders \/ (s \in exports /\ Witnessed(s))

\* collect_journal, between batches.
Collect(i) ==
  /\ Free(i) /\ key[i] \notin fatal
  /\ LET gone == {s \in Storages : store[s].payer = Payer(i) /\ ~Kept(s)} IN
       journal' = journal \ gone /\ exports' = exports \ gone
  /\ UNCHANGED <<ctxVars, ledgerVars, shareVars, vmmVars>>

-----------------------------------------------------------------------------
(* The VMM thread                                                          *)

\* Vkr::context_create mints an occupant, whose account opens the slot.
Open(i) ==
  /\ vmm = "idle" /\ key[i] = 0 /\ minted < MaxKeys
  /\ minted' = minted + 1
  /\ key' = [key EXCEPT ![i] = minted + 1]
  /\ slots' = [slots EXCEPT ![i] = [key |-> minted + 1, live |-> {}]]
  /\ asserted' = (asserted \/ slots[i] # NoSlot)
  /\ UNCHANGED <<fatal, busy, shared, classic, shareVars, keptVars, vmmVars>>

\* resource_create_blob publishes an allocation, under its context's lock: a share on
\* the stack, and a witness in the context...
Export(s) ==
  /\ vmm = "idle" /\ "record" \in store[s].holders /\ s \notin published
  /\ Free(store[s].payer.id)
  /\ published' = published \cup {s} /\ exports' = exports \cup {s}
  /\ Held(s, store[s].holders \cup {"stack"}, store[s].importers)
  /\ vmm' = "insert" /\ at' = s
  /\ UNCHANGED <<ctxVars, used, journal, doomed>>

\* ...and puts the share in the resource table, with the lock let go of.
Insert ==
  /\ vmm = "insert"
  /\ Held(at, (store[at].holders \ {"stack"}) \cup {"blob"}, store[at].importers)
  /\ vmm' = "idle" /\ at' = 0
  /\ UNCHANGED <<ctxVars, used, published, keptVars, doomed>>

\* A classic surface is counted, and never refused.
ClassicCharge(size) ==
  /\ vmm = "idle"
  /\ Mint(Classic, size, "blob")
  /\ classic' = classic \cup {used + 1}
  /\ UNCHANGED <<ctxVars, slots, shared, asserted, published, keptVars, vmmVars>>

\* resource_unref: a blob's share goes; a texture waits for a GL context.
Unref(s) ==
  /\ vmm = "idle" /\ "blob" \in store[s].holders
  /\ Held(s, (store[s].holders \ {"blob"})
               \cup (IF store[s].payer = Classic THEN {"doomed"} ELSE {}), store[s].importers)
  /\ UNCHANGED <<ctxVars, used, published, keptVars, vmmVars>>

Sweep(s) ==
  /\ vmm = "idle"
  /\ LetGo(s, "doomed")
  /\ UNCHANGED <<ctxVars, used, published, keptVars, vmmVars>>

\* context_destroy joins the rings and drops the context...
Destroy(i) ==
  /\ vmm = "idle" /\ Free(i)
  /\ vmm' = "tear" /\ doomed' = Payer(i)
  /\ key' = [key EXCEPT ![i] = 0]
  /\ UNCHANGED <<minted, fatal, busy, ledgerVars, shareVars, keptVars, at>>

\* ...whose records go one by one, each crediting what it held last...
Tear(s) ==
  /\ vmm = "tear"
  /\ (store[s].payer = doomed /\ LetGo(s, "record")) \/ Forget(s, doomed.key)
  /\ UNCHANGED <<ctxVars, used, published, keptVars, vmmVars>>

\* ...and then the account: what is still charged to it moves to the shared bucket.
Retire ==
  /\ vmm = "tear"
  /\ \A s \in Storages : /\ store[s].payer = doomed => "record" \notin store[s].holders
                         /\ doomed.key \notin store[s].importers
  /\ IF SlotOf(doomed)
     THEN /\ shared' = shared \cup slots[doomed.id].live
          /\ slots' = [slots EXCEPT ![doomed.id] = NoSlot]
     ELSE UNCHANGED <<slots, shared>>
  /\ LET its == {s \in Storages : store[s].payer = doomed} IN
       journal' = journal \ its /\ exports' = exports \ its
  /\ vmm' = "idle" /\ doomed' = Classic
  /\ UNCHANGED <<ctxVars, classic, asserted, shareVars, at>>

Next ==
  \/ \E i \in Ids : \/ \E size \in Sizes : Admit(i, size)
                    \/ Refuse(i) \/ Record(i) \/ DriverRefuses(i) \/ Collect(i)
                    \/ Open(i) \/ Destroy(i)
                    \/ \E s \in Storages : FreeMemory(i, s) \/ Import(i, s)
  \/ \E s \in Storages : Export(s) \/ Unref(s) \/ Sweep(s) \/ Tear(s)
  \/ \E size \in Sizes : ClassicCharge(size)
  \/ Insert \/ Retire

Spec == Init /\ [][Next]_vars

-----------------------------------------------------------------------------
(* Properties                                                              *)

TypeOK ==
  /\ key \in [Ids -> Nat] /\ minted \in Nat /\ fatal \subseteq Nat
  /\ busy \in [Ids -> {0} \cup Storages]
  /\ slots \in [Ids -> [key : Nat, live : SUBSET Storages]]
  /\ shared \subseteq Storages /\ classic \subseteq Storages /\ asserted \in BOOLEAN
  /\ store \in [Storages -> [payer : Payers, size : Nat, holders : SUBSET Keepers,
                             importers : SUBSET Nat]]
  /\ used \in {0} \cup Storages /\ published \subseteq Storages
  /\ exports \subseteq Storages /\ journal \subseteq Storages
  /\ vmm \in {"idle", "insert", "tear"} /\ at \in {0} \cup Storages
  /\ doomed \in Payers

\* Whatever order shares, contexts and ids come and go in, each bucket is exactly the
\* storages that stand and that it answers for: a slot those its own occupant paid
\* for, the shared bucket those whose payer is gone, classic its own. Nothing is
\* credited where it was not charged (PerContext::credit's assertion), nothing lands
\* on a later occupant of the id, and no id has two accounts (Account::open's).
Counted ==
  /\ ~asserted
  /\ \A i \in Ids : slots[i].live =
       {s \in Storages : Stands(s) /\ store[s].payer = [id |-> i, key |-> slots[i].key]}
  /\ classic = {s \in Storages : Stands(s) /\ store[s].payer = Classic}
  /\ shared = {s \in Storages : Stands(s) /\ store[s].payer # Classic /\ ~SlotOf(store[s].payer)}

\* What contexts made and stands is within the cap, their contexts gone or not and
\* whatever the threads that allocate at once; only classic can be beyond it.
VenusCapped == Bytes({s \in Storages : Stands(s) /\ store[s].payer # Classic}) <= Cap

\* While anyone holds a share of a published storage, the command that made it stays
\* in its context's journal: through the guest's free, and between the export and
\* the insertion, when only the VMM's stack holds it (Context::memory_export).
ExportKept ==
  \A i \in Ids, s \in Storages :
    key[i] # 0 /\ store[s].payer = Payer(i) /\ s \in published /\ Stands(s) => s \in journal
=============================================================================
