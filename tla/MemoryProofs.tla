---------------------------- MODULE MemoryProofs ----------------------------
(***************************************************************************)
(* Four results about the ledger of host memory and the journal, for any   *)
(* context ids, occupants of them, storages and sizes: each bucket is what *)
(* it answers for, what contexts made is within the cap, a context is told *)
(* of no more room than there is, and what is shared stays in its maker's  *)
(* journal.                                                                *)
(***************************************************************************)
EXTENDS Memory, FiniteSetTheorems, TLAPS

Sized == MaxStorages \in Nat /\ Sizes \subseteq Nat

Types ==
  /\ key \in [Ids -> Nat] /\ minted \in Nat
  /\ busy \in [Ids -> {0} \cup Storages]
  /\ slots \in [Ids -> [key : Nat, live : SUBSET Storages]]
  /\ shared \in SUBSET Storages /\ classic \in SUBSET Storages
  /\ store \in [Storages -> [payer : Payers, size : Nat, holders : SUBSET Keepers,
                             importers : SUBSET Nat]]
  /\ used \in {0} \cup Storages /\ published \in SUBSET Storages
  /\ at \in {0} \cup Storages /\ doomed \in Payers

\* What is not yet made nobody holds, and no occupant is older than its mint.
Minting ==
  /\ \A s \in Storages : s > used => store[s] = NoStore /\ s \notin published
  /\ \A s \in Storages : store[s].payer # Classic =>
       store[s].payer.key \in 1..minted /\ store[s].payer.id \in Ids
  /\ \A i \in Ids : key[i] <= minted

\* The slot of an id is its occupant's, or that of the one being torn down.
Accounts ==
  /\ \A i \in Ids : key[i] # 0 => slots[i].key = key[i]
  /\ \A i \in Ids : key[i] = 0 =>
       \/ slots[i] = NoSlot
       \/ vmm = "tear" /\ doomed = [id |-> i, key |-> slots[i].key]
  /\ vmm = "tear" => /\ doomed.id \in Ids /\ doomed.key \in 1..minted /\ key[doomed.id] = 0
                     /\ slots[doomed.id].key = doomed.key

\* What a dispatch, or the VMM between its two steps, has in hand.
InHand ==
  /\ \A i \in Ids : busy[i] # 0 =>
       /\ key[i] # 0 /\ store[busy[i]].payer = Payer(i)
       /\ store[busy[i]].holders = {"plan"} /\ store[busy[i]].importers = {}
  /\ vmm = "insert" => at \in Storages /\ "stack" \in store[at].holders

\* A live context's records, and what it published that stands, are in its journal.
Journaled ==
  \A i \in Ids, s \in Storages : key[i] # 0 /\ store[s].payer = Payer(i) =>
    /\ "record" \in store[s].holders => s \in journal
    /\ s \in published /\ Stands(s) => s \in exports /\ s \in journal

IInv == Types /\ Minting /\ Accounts /\ Counted /\ InHand /\ Journaled

-----------------------------------------------------------------------------
LEMMA NotClassic ==
  /\ Classic.key = -1
  /\ \A p \in Payers : p # Classic => p.id \in Ids /\ p.key \in Nat
  /\ \A p \in Payers : p.key \in Nat => p # Classic
  /\ \A i, k : [id |-> i, key |-> k].id = i /\ [id |-> i, key |-> k].key = k
  /\ \A p \in Payers : p # Classic => p = [id |-> p.id, key |-> p.key]
  BY DEF Payers, Classic

LEMMA PayerOf ==
  ASSUME Types, NEW i \in Ids
  PROVE  Payer(i) \in Payers /\ Payer(i).id = i /\ Payer(i).key = key[i] /\ Payer(i) # Classic
  BY NotClassic DEF Types, Payer, Payers

\* Counted, of each storage.
Placed(s, st) ==
  /\ \A i \in Ids : s \in slots[i].live <=> st /\ store[s].payer = [id |-> i, key |-> slots[i].key]
  /\ s \in classic <=> st /\ store[s].payer = Classic
  /\ s \in shared <=> st /\ store[s].payer # Classic /\ ~SlotOf(store[s].payer)

LEMMA CountedEach ==
  ASSUME Types
  PROVE  Counted <=> ~asserted /\ \A s \in Storages : Placed(s, Stands(s))
  BY DEF Types, Counted, Placed

\* What a share's going, or coming, does to the buckets.
LEMMA HeldCounts ==
  ASSUME Types, Counted, NEW s \in Storages, NEW holders \in SUBSET Keepers,
         NEW importers \in SUBSET Nat, Stands(s), Held(s, holders, importers)
  PROVE  /\ Counted'
         /\ slots' \in [Ids -> [key : Nat, live : SUBSET Storages]]
         /\ shared' \in SUBSET Storages /\ classic' \in SUBSET Storages
         /\ store' = [store EXCEPT ![s].holders = holders, ![s].importers = importers]
         /\ \A i \in Ids : slots'[i].key = slots[i].key
         /\ \A i \in Ids : slots[i] = NoSlot => slots'[i] = NoSlot
  <1> DEFINE st == [store EXCEPT ![s].holders = holders, ![s].importers = importers]
             own == store[s].payer
  <1>1. /\ store' = st
        /\ IF holders = {} /\ importers = {} THEN Credit(s) ELSE UNCHANGED ledgerVars
    BY DEF Held
  <1>2. /\ \A t \in Storages : st[t].payer = store[t].payer
        /\ \A t \in Storages : t # s => st[t] = store[t]
        /\ st[s].holders = holders /\ st[s].importers = importers
    BY DEF Types
  <1>3. \A t \in Storages : t # s => (Stands(t)' <=> Stands(t))
    BY <1>1, <1>2 DEF Stands
  <1>4. Stands(s)' <=> ~(holders = {} /\ importers = {})
    BY <1>1, <1>2 DEF Stands
  <1>5. \A t \in Storages : Placed(t, Stands(t))
    BY CountedEach
  <1>6. own \in Payers /\ ~asserted
    BY DEF Types, Counted
  <1>7. \A t \in Storages : store'[t].payer = store[t].payer
    BY <1>1, <1>2
  <1> HIDE DEF st
  <1>8. CASE ~(holders = {} /\ importers = {})
    <2>1. UNCHANGED <<slots, shared, classic, asserted>>
      BY <1>1, <1>8 DEF ledgerVars
    <2>2. \A t \in Storages : Stands(t)' <=> Stands(t)
      BY <1>3, <1>4, <1>8
    <2>3. Counted'
      BY <2>1, <2>2, <1>7 DEF Counted, SlotOf
    <2> QED BY <1>1, <2>1, <2>3 DEF st, Types
  <1>9. CASE holders = {} /\ importers = {}
    <2>0. ~Stands(s)'
      BY <1>4, <1>9
    <2>1. CASE own = Classic
      <3>1. /\ classic' = classic \ {s} /\ UNCHANGED <<slots, shared>>
            /\ asserted' = (asserted \/ s \notin classic)
        BY <1>1, <1>9, <2>1 DEF Credit
      <3>2. s \in classic /\ ~asserted'
        BY <1>5, <1>6, <2>1, <3>1 DEF Placed
      <3>3. \A t \in Storages : SlotOf(store[t].payer)' <=> SlotOf(store[t].payer)
        BY <1>7, <3>1 DEF SlotOf
      <3>4. Counted'
        <4>1. \A i \in Ids : s \notin slots[i].live
          <5> SUFFICES ASSUME NEW i \in Ids, own = [id |-> i, key |-> slots[i].key] PROVE FALSE
            BY <1>5 DEF Placed
          <5>1. slots[i].key \in Nat /\ own.key = slots[i].key
            BY DEF Types
          <5> QED BY <2>1, <5>1, NotClassic
        <4>2. s \notin shared
          BY <1>5, <2>1 DEF Placed
        <4> QED BY <1>3, <1>5, <1>7, <2>0, <2>1, <3>1, <3>2, <3>3, <4>1, <4>2
                DEF Counted, Placed, Types
      <3> QED BY <1>1, <3>1, <3>4 DEF st, Types
    <2>2. CASE own # Classic /\ SlotOf(own)
      <3>1. /\ slots' = [slots EXCEPT ![own.id].live = @ \ {s}] /\ UNCHANGED <<shared, classic>>
            /\ asserted' = (asserted \/ s \notin slots[own.id].live)
        BY <1>1, <1>9, <2>2 DEF Credit
      <3>2. own.id \in Ids /\ own = [id |-> own.id, key |-> slots[own.id].key]
        BY <1>6, <2>2, NotClassic DEF SlotOf
      <3>3. s \in slots[own.id].live /\ ~asserted'
        BY <1>5, <1>6, <3>1, <3>2 DEF Placed
      <3>4. /\ \A i \in Ids : slots'[i].key = slots[i].key
            /\ \A i \in Ids : slots'[i].live = IF i = own.id THEN slots[i].live \ {s} ELSE slots[i].live
            /\ slots' \in [Ids -> [key : Nat, live : SUBSET Storages]]
        BY <3>1, <3>2 DEF Types
      <3>5. \A p : SlotOf(p)' <=> slots'[p'.id].key = p'.key
        BY DEF SlotOf
      <3>6. \A t \in Storages : store[t].payer # Classic =>
              (SlotOf(store[t].payer)' <=> SlotOf(store[t].payer))
        BY <1>7, <3>4, NotClassic DEF SlotOf, Types
      <3>7. \A i \in Ids : slots'[i].live =
              {t \in Storages : Stands(t)' /\ store'[t].payer = [id |-> i, key |-> slots'[i].key]}
        <4> SUFFICES ASSUME NEW i \in Ids
                     PROVE  \A t \in Storages : t \in slots'[i].live <=>
                              Stands(t)' /\ store[t].payer = [id |-> i, key |-> slots[i].key]
          BY <1>7, <3>4
        <4>1. ASSUME NEW t \in Storages, t # s
              PROVE  t \in slots'[i].live <=>
                        Stands(t)' /\ store[t].payer = [id |-> i, key |-> slots[i].key]
          BY <1>3, <1>5, <3>4, <4>1 DEF Placed
        <4>2. s \notin slots'[i].live
          <5>1. CASE i = own.id
            BY <3>4, <5>1
          <5>2. CASE i # own.id
            <6>1. store[s].payer # [id |-> i, key |-> slots[i].key]
              BY <5>2
            <6> QED BY <1>5, <3>4, <5>2, <6>1 DEF Placed
          <5> QED BY <5>1, <5>2
        <4> QED BY <2>0, <4>1, <4>2
      <3>8. s \notin classic /\ s \notin shared
        BY <1>5, <2>2 DEF Placed
      <3>9. Counted'
        <4>1. classic' = {t \in Storages : Stands(t)' /\ store'[t].payer = Classic}
          BY <1>3, <1>5, <1>7, <2>0, <3>1, <3>8 DEF Placed, Types
        <4>2. shared' = {t \in Storages : Stands(t)' /\ store'[t].payer # Classic
                                         /\ ~SlotOf(store[t].payer)'}
          BY <1>3, <1>5, <1>7, <2>0, <3>1, <3>6, <3>8 DEF Placed, Types
        <4> QED BY <3>3, <3>7, <4>1, <4>2 DEF Counted
      <3>10. \A i \in Ids : slots[i] = NoSlot => slots'[i] = NoSlot
        <4> SUFFICES ASSUME NEW i \in Ids, slots[i] = NoSlot PROVE slots'[i] = slots[i]
          OBVIOUS
        <4>1. i # own.id
          BY <3>3 DEF NoSlot
        <4> QED BY <3>1, <3>2, <4>1 DEF Types
      <3> QED BY <1>1, <3>1, <3>4, <3>9, <3>10 DEF st, Types
    <2>3. CASE own # Classic /\ ~SlotOf(own)
      <3>1. /\ shared' = shared \ {s} /\ UNCHANGED <<slots, classic>>
            /\ asserted' = (asserted \/ s \notin shared)
        BY <1>1, <1>9, <2>3 DEF Credit
      <3>2. s \in shared /\ ~asserted'
        BY <1>5, <1>6, <2>3, <3>1 DEF Placed
      <3>3. \A t \in Storages : SlotOf(store[t].payer)' <=> SlotOf(store[t].payer)
        BY <1>7, <3>1 DEF SlotOf
      <3>4. \A i \in Ids : s \notin slots[i].live
        <4> SUFFICES ASSUME NEW i \in Ids, own = [id |-> i, key |-> slots[i].key] PROVE FALSE
          BY <1>5 DEF Placed
        <4> QED BY <2>3, NotClassic DEF SlotOf
      <3>5. Counted'
        BY <1>3, <1>5, <1>7, <2>0, <2>3, <3>1, <3>2, <3>3, <3>4 DEF Counted, Placed, Types
      <3> QED BY <1>1, <3>1, <3>5 DEF st, Types
    <2> QED BY <2>1, <2>2, <2>3
  <1> QED BY <1>8, <1>9
\* What it leaves alone.
Otherwise(s, holders, importers) ==
  /\ store' \in [Storages -> [payer : Payers, size : Nat, holders : SUBSET Keepers,
                              importers : SUBSET Nat]]
  /\ \A t \in Storages : store'[t].payer = store[t].payer
  /\ \A t \in Storages : t # s => store'[t] = store[t]
  /\ store'[s].holders = holders /\ store'[s].importers = importers
  /\ \A t \in Storages : t # s => (Stands(t)' <=> Stands(t))
  /\ slots' \in [Ids -> [key : Nat, live : SUBSET Storages]]
  /\ shared' \in SUBSET Storages /\ classic' \in SUBSET Storages
  /\ \A i \in Ids : slots'[i].key = slots[i].key
  /\ \A i \in Ids : slots[i] = NoSlot => slots'[i] = NoSlot
  /\ s \in Storages /\ Stands(s) /\ ~(s > used)

LEMMA HeldElse ==
  ASSUME IInv, NEW s \in Storages, NEW holders \in SUBSET Keepers,
         NEW importers \in SUBSET Nat, Stands(s), Held(s, holders, importers)
  PROVE  Counted' /\ Otherwise(s, holders, importers)
  <1>1. Types /\ Counted /\ Minting
    BY DEF IInv
  <1>2. /\ Counted'
        /\ slots' \in [Ids -> [key : Nat, live : SUBSET Storages]]
        /\ shared' \in SUBSET Storages /\ classic' \in SUBSET Storages
        /\ store' = [store EXCEPT ![s].holders = holders, ![s].importers = importers]
        /\ \A i \in Ids : slots'[i].key = slots[i].key
        /\ \A i \in Ids : slots[i] = NoSlot => slots'[i] = NoSlot
    BY <1>1, HeldCounts
  <1>3. /\ \A t \in Storages : store'[t].payer = store[t].payer
        /\ \A t \in Storages : t # s => store'[t] = store[t]
        /\ store'[s].holders = holders /\ store'[s].importers = importers
        /\ store' \in [Storages -> [payer : Payers, size : Nat, holders : SUBSET Keepers,
                                    importers : SUBSET Nat]]
    BY <1>1, <1>2, ZenonT(60) DEF Types
  <1>4. \A t \in Storages : t # s => (Stands(t)' <=> Stands(t))
    BY <1>3 DEF Stands
  <1>5. ~(s > used)
    BY <1>1 DEF Minting, Stands, NoStore
  <1> QED BY <1>2, <1>3, <1>4, <1>5 DEF Otherwise

\* The invariants that a change of shares alone cannot disturb.
LEMMA OtherwiseMinting ==
  ASSUME IInv, NEW s, NEW holders, NEW importers, Otherwise(s, holders, importers),
         UNCHANGED <<key, minted, used>>, published' \in SUBSET (published \cup {s})
  PROVE  Minting'
  <1>1. \A t \in Storages : t > used => store'[t] = NoStore /\ t \notin published'
    BY DEF IInv, Minting, Otherwise
  <1>2. \A t \in Storages : store'[t].payer = store[t].payer
    BY DEF Otherwise
  <1>3. \A t \in Storages : store'[t].payer # Classic =>
          store'[t].payer.key \in 1..minted /\ store'[t].payer.id \in Ids
    BY <1>2 DEF IInv, Minting
  <1>4. \A i \in Ids : key'[i] <= minted'
    BY DEF IInv, Minting
  <1> QED BY <1>1, <1>3, <1>4 DEF Minting

LEMMA OtherwiseAccounts ==
  ASSUME IInv, NEW s, NEW holders, NEW importers, Otherwise(s, holders, importers),
         UNCHANGED <<key, minted, doomed>>, vmm' = vmm \/ (vmm' # "tear" /\ vmm # "tear")
  PROVE  Accounts'
  BY DEF IInv, Accounts, Otherwise

\* A share taken or let go of, with nothing in hand of a dispatch's or the VMM's.
LEMMA HeldKeeps ==
  ASSUME IInv, NEW s \in Storages, NEW holders \in SUBSET Keepers,
         NEW importers \in SUBSET Nat, Stands(s), Held(s, holders, importers),
         "plan" \notin store[s].holders \/ store[s].holders # {"plan"} \/ store[s].importers # {},
         "record" \in holders => "record" \in store[s].holders,
         vmm = "insert" /\ "stack" \in store[s].holders => "stack" \in holders,
         UNCHANGED <<key, minted, busy, used, published, exports, journal, vmm, at, doomed>>
  PROVE  IInv'
  <1>1. Counted' /\ Otherwise(s, holders, importers)
    BY HeldElse
  <1>2. Types'
    BY <1>1 DEF IInv, Types, Otherwise
  <1>3. Minting' /\ Accounts'
    <2>1. UNCHANGED <<key, minted, used>> /\ published' \in SUBSET (published \cup {s})
      OBVIOUS
    <2>2. UNCHANGED <<key, minted, doomed>> /\ vmm' = vmm
      OBVIOUS
    <2>3. Minting'
      BY <1>1, <2>1, OtherwiseMinting
    <2> QED BY <1>1, <2>2, <2>3, OtherwiseAccounts
  <1>4. InHand'
    <2>1. \A i \in Ids : busy[i] # 0 => busy[i] \in Storages /\ busy[i] # s
      BY DEF IInv, InHand, Types
    <2>2. \A i \in Ids : Payer(i)' = Payer(i)
      BY DEF Payer
    <2>3. \A i \in Ids : busy'[i] # 0 =>
            /\ key'[i] # 0 /\ store'[busy'[i]].payer = Payer(i)'
            /\ store'[busy'[i]].holders = {"plan"} /\ store'[busy'[i]].importers = {}
      BY <1>1, <2>1, <2>2, ZenonT(60) DEF IInv, InHand, Otherwise
    <2>4. vmm' = "insert" => at' \in Storages /\ "stack" \in store'[at'].holders
      BY <1>1 DEF IInv, InHand, Otherwise
    <2> QED BY <2>3, <2>4 DEF InHand
  <1>5. Journaled'
    <2>1. \A i \in Ids : Payer(i)' = Payer(i)
      BY DEF Payer
    <2> QED BY <1>1, <2>1 DEF IInv, Journaled, Otherwise
  <1> QED BY <1>1, <1>2, <1>3, <1>4, <1>5 DEF IInv

LEMMA FreeMemoryKeeps ==
  ASSUME IInv, NEW i \in Ids, NEW s \in Storages, FreeMemory(i, s)
  PROVE  IInv'
  <1>1. UNCHANGED <<key, minted, busy, used, published, exports, journal, vmm, at, doomed>>
    BY DEF FreeMemory, ctxVars, keptVars, vmmVars
  <1>2. /\ store[s].holders \in SUBSET Keepers /\ store[s].importers \in SUBSET Nat
        /\ "record" \in Keepers
    BY DEF IInv, Types, Keepers
  <1>3. CASE LetGo(s, "record")
    <2>1. Held(s, store[s].holders \ {"record"}, store[s].importers) /\ "record" \in store[s].holders
      BY <1>3 DEF LetGo
    <2>2. Stands(s) /\ store[s].holders # {"plan"}
      BY <2>1 DEF Stands
    <2>3. store[s].holders \ {"record"} \in SUBSET Keepers
      BY <1>2
    <2> QED BY <1>1, <1>2, <2>1, <2>2, <2>3, HeldKeeps
  <1>4. CASE Forget(s, key[i])
    <2>1. Held(s, store[s].holders, store[s].importers \ {key[i]}) /\ key[i] \in store[s].importers
      BY <1>4 DEF Forget
    <2>2. Stands(s) /\ store[s].importers # {}
      BY <2>1 DEF Stands
    <2>3. store[s].importers \ {key[i]} \in SUBSET Nat
      BY <1>2
    <2> QED BY <1>1, <1>2, <2>1, <2>2, <2>3, HeldKeeps
  <1> QED BY <1>3, <1>4 DEF FreeMemory

LEMMA TearKeeps ==
  ASSUME IInv, NEW s \in Storages, Tear(s)
  PROVE  IInv'
  <1>1. UNCHANGED <<key, minted, busy, used, published, exports, journal, vmm, at, doomed>>
    BY DEF Tear, ctxVars, keptVars, vmmVars
  <1>2. /\ store[s].holders \in SUBSET Keepers /\ store[s].importers \in SUBSET Nat
        /\ "record" \in Keepers
    BY DEF IInv, Types, Keepers
  <1>3. CASE LetGo(s, "record")
    <2>1. Held(s, store[s].holders \ {"record"}, store[s].importers) /\ "record" \in store[s].holders
      BY <1>3 DEF LetGo
    <2>2. Stands(s) /\ store[s].holders # {"plan"}
      BY <2>1 DEF Stands
    <2>3. store[s].holders \ {"record"} \in SUBSET Keepers
      BY <1>2
    <2> QED BY <1>1, <1>2, <2>1, <2>2, <2>3, HeldKeeps
  <1>4. CASE Forget(s, doomed.key)
    <2>1. /\ Held(s, store[s].holders, store[s].importers \ {doomed.key})
          /\ doomed.key \in store[s].importers
      BY <1>4 DEF Forget
    <2>2. Stands(s) /\ store[s].importers # {}
      BY <2>1 DEF Stands
    <2>3. store[s].importers \ {doomed.key} \in SUBSET Nat
      BY <1>2
    <2> QED BY <1>1, <1>2, <2>1, <2>2, <2>3, HeldKeeps
  <1> QED BY <1>3, <1>4 DEF Tear

LEMMA ImportKeeps ==
  ASSUME IInv, NEW i \in Ids, NEW s \in Storages, Import(i, s)
  PROVE  IInv'
  <1>1. UNCHANGED <<key, minted, busy, used, published, exports, journal, vmm, at, doomed>>
    BY DEF Import, ctxVars, keptVars, vmmVars
  <1>2. /\ store[s].holders \in SUBSET Keepers /\ store[s].importers \cup {key[i]} \in SUBSET Nat
        /\ "blob" \in store[s].holders
    BY DEF IInv, Types, Import
  <1>3. Stands(s) /\ store[s].holders # {"plan"}
    BY <1>2 DEF Stands
  <1> QED BY <1>1, <1>2, <1>3, HeldKeeps DEF Import

LEMMA UnrefKeeps ==
  ASSUME IInv, NEW s \in Storages, Unref(s) \/ Sweep(s)
  PROVE  IInv'
  <1>1. UNCHANGED <<key, minted, busy, used, published, exports, journal, vmm, at, doomed>>
        /\ vmm = "idle"
    BY DEF Unref, Sweep, ctxVars, keptVars, vmmVars
  <1>2. PICK h \in {"blob", "doomed"}, more \in SUBSET {"doomed"} :
          h \in store[s].holders /\ Held(s, (store[s].holders \ {h}) \cup more, store[s].importers)
    <2>1. CASE Unref(s)
      BY <2>1 DEF Unref
    <2>2. CASE Sweep(s)
      <3>1. (store[s].holders \ {"doomed"}) \cup {} = store[s].holders \ {"doomed"}
        OBVIOUS
      <3> QED BY <2>2, <3>1 DEF Sweep, LetGo
    <2> QED BY <2>1, <2>2
  <1>3. /\ (store[s].holders \ {h}) \cup more \in SUBSET Keepers /\ store[s].importers \in SUBSET Nat
    BY DEF IInv, Types, Keepers
  <1>4. Stands(s) /\ store[s].holders # {"plan"}
    BY <1>2 DEF Stands
  <1>5. "record" \in (store[s].holders \ {h}) \cup more => "record" \in store[s].holders
    OBVIOUS
  <1> QED BY <1>1, <1>2, <1>3, <1>4, <1>5, HeldKeeps
\* Counted, of each storage: the buckets slots, shared and classic as of store st.
Up(st, s) == st[s].holders # {} \/ st[s].importers # {}
Tally(sl, sh, cl, st) ==
  \A s \in Storages :
    /\ \A i \in Ids : s \in sl[i].live <=> Up(st, s) /\ st[s].payer = [id |-> i, key |-> sl[i].key]
    /\ s \in cl <=> Up(st, s) /\ st[s].payer = Classic
    /\ s \in sh <=> /\ Up(st, s) /\ st[s].payer # Classic
                    /\ sl[st[s].payer.id].key # st[s].payer.key

LEMMA Tallied ==
  /\ Types => (Counted <=> ~asserted /\ Tally(slots, shared, classic, store))
  /\ Types' => (Counted' <=> ~asserted' /\ Tally(slots', shared', classic', store'))
  <1>1. Types => (Counted <=> ~asserted /\ Tally(slots, shared, classic, store))
    BY SMTT(60) DEF Types, Counted, Tally, Up, Stands, SlotOf
  <1>2. Types' => (Counted' <=> ~asserted' /\ Tally(slots', shared', classic', store'))
    BY SMTT(60) DEF Types, Counted, Tally, Up, Stands, SlotOf
  <1> QED BY <1>1, <1>2

\* What a mint leaves: one storage more, that one share holds.
LEMMA Minted ==
  ASSUME IInv, Sized, NEW p \in Payers, NEW size \in Sizes, NEW h \in Keepers, Mint(p, size, h)
  PROVE  /\ used' = used + 1 /\ used + 1 \in Storages /\ used + 1 > used /\ ~Stands(used + 1)
         /\ store' \in [Storages -> [payer : Payers, size : Nat, holders : SUBSET Keepers,
                                     importers : SUBSET Nat]]
         /\ \A t \in Storages : t # used + 1 => store'[t] = store[t]
         /\ store'[used + 1].payer = p /\ store'[used + 1].holders = {h}
         /\ store'[used + 1].importers = {}
         /\ \A t \in Storages : t > used' => t > used /\ t # used + 1
         /\ \A t \in Storages : t # used + 1 => (Stands(t)' <=> Stands(t))
         /\ Up(store', used + 1)
         /\ used + 1 \notin published
  <1> DEFINE new == [payer |-> p, size |-> size, holders |-> {h}, importers |-> {}]
  <1>1. used' = used + 1 /\ store' = [store EXCEPT ![used + 1] = new] /\ used < MaxStorages
    BY DEF Mint
  <1>2. used \in Nat /\ MaxStorages \in Nat /\ used + 1 \in Storages /\ used + 1 > used
    BY <1>1 DEF IInv, Types, Storages, Sized
  <1>3. new \in [payer : Payers, size : Nat, holders : SUBSET Keepers, importers : SUBSET Nat]
    BY DEF Sized
  <1>4. /\ store' \in [Storages -> [payer : Payers, size : Nat, holders : SUBSET Keepers,
                                    importers : SUBSET Nat]]
        /\ \A t \in Storages : store'[t] = IF t = used + 1 THEN new ELSE store[t]
    BY <1>1, <1>2, <1>3 DEF IInv, Types
  <1>5. store[used + 1] = NoStore /\ used + 1 \notin published
    BY <1>2 DEF IInv, Minting
  <1>6. \A t \in Storages : t > used' => t > used /\ t # used + 1
    BY <1>1, <1>2 DEF Storages
  <1>7. ~Stands(used + 1)
    BY <1>5 DEF Stands, NoStore
  <1>8. \A t \in Storages : t # used + 1 => (Stands(t)' <=> Stands(t))
    BY <1>4 DEF Stands
  <1>9. /\ store'[used + 1].payer = p /\ store'[used + 1].holders = {h}
        /\ store'[used + 1].importers = {}
    BY <1>2, <1>4
  <1>10. Up(store', used + 1)
    BY <1>9 DEF Up
  <1> QED BY <1>1, <1>2, <1>4, <1>5, <1>6, <1>7, <1>8, <1>9, <1>10

LEMMA AdmitKeeps ==
  ASSUME IInv, Sized, NEW i \in Ids, NEW size \in Sizes, Admit(i, size)
  PROVE  IInv'
  <1> DEFINE s == used + 1
             p == Payer(i)
  <1>1. /\ key[i] # 0 /\ busy[i] = 0 /\ Mint(p, size, "plan")
        /\ slots' = [slots EXCEPT ![i].live = @ \cup {s}]
        /\ busy' = [busy EXCEPT ![i] = s] /\ asserted' = (asserted \/ ~SlotOf(p))
        /\ UNCHANGED <<key, minted, shared, classic, published, exports, journal, vmm, at, doomed>>
    BY DEF Admit, Free, keptVars, vmmVars
  <1>2. p \in Payers /\ p.id = i /\ p.key = key[i] /\ p # Classic /\ p = [id |-> i, key |-> key[i]]
    BY PayerOf DEF IInv, Payer
  <1>3. /\ used' = s /\ s \in Storages /\ s > used /\ ~Stands(s)
        /\ store' \in [Storages -> [payer : Payers, size : Nat, holders : SUBSET Keepers,
                                    importers : SUBSET Nat]]
        /\ \A t \in Storages : t # s => store'[t] = store[t]
        /\ store'[s].payer = p /\ store'[s].holders = {"plan"} /\ store'[s].importers = {}
        /\ \A t \in Storages : t > used' => t > used /\ t # s
        /\ \A t \in Storages : t # s => (Stands(t)' <=> Stands(t))
        /\ Up(store', s) /\ s \notin published
    BY <1>1, <1>2, Minted DEF Keepers
  <1> HIDE DEF s, p
  <1>4. /\ \A j \in Ids : slots'[j].key = slots[j].key
        /\ \A j \in Ids : slots'[j].live = IF j = i THEN slots[j].live \cup {s} ELSE slots[j].live
        /\ \A j \in Ids : j # i => slots'[j] = slots[j]
        /\ slots' \in [Ids -> [key : Nat, live : SUBSET Storages]]
    BY <1>1, <1>3, ZenonT(60) DEF IInv, Types
  <1>5. slots[i].key = key[i] /\ SlotOf(p)
    BY <1>1, <1>2 DEF IInv, Accounts, SlotOf
  <1>6. Types'
    BY <1>1, <1>3, <1>4 DEF IInv, Types
  <1>7. Minting'
    <2>1. p.key \in 1..minted
      BY <1>1, <1>2 DEF IInv, Types, Minting
    <2>2. \A t \in Storages : store'[t].payer # Classic =>
            store'[t].payer.key \in 1..minted /\ store'[t].payer.id \in Ids
      BY <1>2, <1>3, <2>1 DEF IInv, Minting
    <2>3. \A t \in Storages : t > used' => store'[t] = NoStore /\ t \notin published'
      BY <1>1, <1>3 DEF IInv, Minting
    <2> QED BY <1>1, <2>2, <2>3 DEF IInv, Minting
  <1>8. Accounts'
    BY <1>1, <1>4 DEF IInv, Accounts
  <1>9. Counted'
    <2>1. Tally(slots, shared, classic, store) /\ ~asserted
      BY Tallied DEF IInv
    <2>2. \A t \in Storages : t # s => (Up(store', t) <=> Up(store, t))
      BY <1>3 DEF Up
    <2>3. ~Up(store, s)
      BY <1>3 DEF Up, Stands
    <2>4. s \notin shared /\ s \notin classic /\ \A j \in Ids : s \notin slots[j].live
      BY <1>3, <2>1, <2>3 DEF Tally
    <2>5. ASSUME NEW t \in Storages, t # s
          PROVE  /\ \A j \in Ids : t \in slots'[j].live <=>
                      Up(store', t) /\ store'[t].payer = [id |-> j, key |-> slots'[j].key]
                 /\ t \in classic' <=> Up(store', t) /\ store'[t].payer = Classic
                 /\ t \in shared' <=> /\ Up(store', t) /\ store'[t].payer # Classic
                                      /\ slots'[store'[t].payer.id].key # store'[t].payer.key
      <3>1. store'[t] = store[t] /\ (Up(store', t) <=> Up(store, t))
        BY <1>3, <2>2, <2>5
      <3>2. \A j \in Ids : t \in slots'[j].live <=> t \in slots[j].live
        BY <1>4, <2>5
      <3>3. store[t].payer # Classic => store[t].payer.id \in Ids
        BY NotClassic DEF IInv, Types
      <3> QED BY <1>1, <1>4, <2>1, <3>1, <3>2, <3>3 DEF Tally
    <2>6. /\ \A j \in Ids : s \in slots'[j].live <=> j = i
          /\ \A j \in Ids : store'[s].payer = [id |-> j, key |-> slots'[j].key] <=> j = i
      <3>1. \A j \in Ids : s \in slots'[j].live <=> j = i
        BY <1>4, <2>4
      <3>2. \A j \in Ids : [id |-> i, key |-> key[i]] = [id |-> j, key |-> slots[j].key] <=> j = i
        BY <1>5
      <3>3. store'[s].payer = [id |-> i, key |-> key[i]]
        BY <1>2, <1>3
      <3> QED BY <1>4, <3>1, <3>2, <3>3
    <2>7. /\ s \notin classic' /\ store'[s].payer # Classic /\ s \notin shared'
          /\ slots'[store'[s].payer.id].key = store'[s].payer.key
      BY <1>1, <1>2, <1>3, <1>4, <1>5, <2>4
    <2>8. Tally(slots', shared', classic', store')
      BY <1>3, <2>5, <2>6, <2>7 DEF Tally
    <2>9. ~asserted'
      <3>1. asserted' = (asserted \/ ~SlotOf(p))
        BY <1>1
      <3> QED BY <1>5, <2>1, <3>1
    <2> QED BY <1>6, <2>8, <2>9, Tallied
  <1>10. InHand'
    <2>1. \A j \in Ids : Payer(j)' = Payer(j)
      BY <1>1 DEF Payer
    <2>2. \A j \in Ids : busy'[j] = IF j = i THEN s ELSE busy[j]
      BY <1>1 DEF IInv, Types
    <2>3. \A j \in Ids : busy[j] # 0 => busy[j] \in Storages /\ busy[j] # s
      BY <1>3 DEF IInv, InHand, Types, Stands
    <2>4. vmm = "insert" => at # s
      BY <1>3 DEF IInv, InHand, Stands
    <2>5. ASSUME NEW j \in Ids, busy'[j] # 0
          PROVE  /\ key'[j] # 0 /\ store'[busy'[j]].payer = Payer(j)'
                 /\ store'[busy'[j]].holders = {"plan"} /\ store'[busy'[j]].importers = {}
      <3>1. CASE j = i
        BY <1>1, <1>3, <2>1, <2>2, <3>1 DEF p
      <3>2. CASE j # i
        <4>1. busy'[j] = busy[j] /\ busy[j] # 0 /\ busy[j] \in Storages /\ busy[j] # s
          BY <2>2, <2>3, <2>5, <3>2
        <4>2. store'[busy[j]] = store[busy[j]] /\ key' = key
          BY <1>1, <1>3, <4>1
        <4> QED BY <2>1, <4>1, <4>2 DEF IInv, InHand
      <3> QED BY <3>1, <3>2
    <2>6. vmm' = "insert" => at' \in Storages /\ "stack" \in store'[at'].holders
      BY <1>1, <1>3, <2>4 DEF IInv, InHand
    <2> QED BY <2>5, <2>6 DEF InHand
  <1>11. Journaled'
    <2>1. \A j \in Ids : Payer(j)' = Payer(j)
      BY <1>1 DEF Payer
    <2> QED BY <1>1, <1>3, <2>1 DEF IInv, Journaled
  <1> QED BY <1>6, <1>7, <1>8, <1>9, <1>10, <1>11 DEF IInv
LEMMA ClassicChargeKeeps ==
  ASSUME IInv, Sized, NEW size \in Sizes, ClassicCharge(size)
  PROVE  IInv'
  <1> DEFINE s == used + 1
  <1>1. /\ Mint(Classic, size, "blob") /\ classic' = classic \cup {s}
        /\ UNCHANGED <<key, minted, busy, slots, shared, asserted, published, exports, journal,
                       vmm, at, doomed>>
    BY DEF ClassicCharge, ctxVars, keptVars, vmmVars
  <1>2. Classic \in Payers
    BY DEF Payers
  <1>3. /\ used' = s /\ s \in Storages /\ s > used /\ ~Stands(s)
        /\ store' \in [Storages -> [payer : Payers, size : Nat, holders : SUBSET Keepers,
                                    importers : SUBSET Nat]]
        /\ \A t \in Storages : t # s => store'[t] = store[t]
        /\ store'[s].payer = Classic /\ store'[s].holders = {"blob"} /\ store'[s].importers = {}
        /\ \A t \in Storages : t > used' => t > used /\ t # s
        /\ \A t \in Storages : t # s => (Stands(t)' <=> Stands(t))
        /\ Up(store', s) /\ s \notin published
    BY <1>1, <1>2, Minted DEF Keepers
  <1> HIDE DEF s
  <1>4. Types'
    BY <1>1, <1>3 DEF IInv, Types
  <1>5. Minting'
    <2>1. \A t \in Storages : store'[t].payer # Classic =>
            store'[t].payer.key \in 1..minted /\ store'[t].payer.id \in Ids
      BY <1>3 DEF IInv, Minting
    <2>2. \A t \in Storages : t > used' => store'[t] = NoStore /\ t \notin published'
      BY <1>1, <1>3 DEF IInv, Minting
    <2> QED BY <1>1, <2>1, <2>2 DEF IInv, Minting
  <1>6. Accounts'
    BY <1>1 DEF IInv, Accounts
  <1>7. Counted'
    <2>1. Tally(slots, shared, classic, store) /\ ~asserted
      BY Tallied DEF IInv
    <2>2. \A t \in Storages : t # s => (Up(store', t) <=> Up(store, t))
      BY <1>3 DEF Up
    <2>3. ~Up(store, s)
      BY <1>3 DEF Up, Stands
    <2>4. s \notin shared /\ s \in classic' /\ \A j \in Ids : s \notin slots[j].live
      BY <1>1, <1>3, <2>1, <2>3 DEF Tally
    <2>5. \A j \in Ids : Classic # [id |-> j, key |-> slots[j].key]
      <3>1. \A j \in Ids : [id |-> j, key |-> slots[j].key].key \in Nat
        BY DEF IInv, Types
      <3> QED BY <3>1, NotClassic
    <2>6. Tally(slots', shared', classic', store')
      BY <1>1, <1>3, <2>1, <2>2, <2>4, <2>5 DEF Tally
    <2> QED BY <1>1, <1>4, <2>1, <2>6, Tallied
  <1>8. InHand'
    <2>1. \A j \in Ids : Payer(j)' = Payer(j)
      BY <1>1 DEF Payer
    <2>2. \A j \in Ids : busy[j] # 0 => busy[j] \in Storages /\ busy[j] # s
      <3>1. store[s].holders = {}
        BY <1>3 DEF Stands
      <3>2. \A j \in Ids : busy[j] # 0 => busy[j] \in Storages /\ store[busy[j]].holders = {"plan"}
        BY DEF IInv, InHand, Types
      <3> QED BY <3>1, <3>2
    <2>3. vmm = "insert" => at # s
      BY <1>3 DEF IInv, InHand, Stands
    <2> QED BY <1>1, <1>3, <2>1, <2>2, <2>3 DEF IInv, InHand
  <1>9. Journaled'
    <2>1. \A j \in Ids : Payer(j)' = Payer(j)
      BY <1>1 DEF Payer
    <2> QED BY <1>1, <1>3, <2>1 DEF IInv, Journaled
  <1> QED BY <1>4, <1>5, <1>6, <1>7, <1>8, <1>9 DEF IInv

LEMMA RefuseKeeps ==
  ASSUME IInv, NEW i \in Ids, Refuse(i)
  PROVE  IInv'
  <1>1. UNCHANGED <<key, minted, busy, ledgerVars, shareVars, keptVars, vmmVars>>
    BY DEF Refuse
  <1> QED BY <1>1 DEF ledgerVars, shareVars, keptVars, vmmVars, IInv, Types, Minting, Accounts, Counted,
       InHand, Journaled, Stands, SlotOf, Payer

\* The plan ends, in a record or in nothing.
LEMMA PlanEnds ==
  ASSUME IInv, NEW i \in Ids, NEW holders \in {{"record"}, {}}, busy[i] # 0,
         Held(busy[i], holders, {}), journal \subseteq journal',
         holders # {} => busy[i] \in journal',
         busy' = [busy EXCEPT ![i] = 0],
         UNCHANGED <<key, minted, used, published, exports, vmm, at, doomed>>
  PROVE  IInv'
  <1> DEFINE s == busy[i]
  <1>1. /\ s \in Storages /\ Held(s, holders, {}) /\ busy' = [busy EXCEPT ![i] = 0]
        /\ journal \subseteq journal' /\ (holders # {} => s \in journal')
        /\ UNCHANGED <<key, minted, used, published, exports, vmm, at, doomed>>
    BY DEF IInv, Types
  <1>2. /\ key[i] # 0 /\ store[s].payer = Payer(i)
        /\ store[s].holders = {"plan"} /\ store[s].importers = {}
    BY DEF IInv, InHand
  <1>3. Stands(s)
    BY <1>2 DEF Stands
  <1>4. Counted' /\ Otherwise(s, holders, {})
    <2>1. holders \in SUBSET Keepers /\ {} \in SUBSET Nat
      BY DEF Keepers
    <2> QED BY <1>1, <1>3, <2>1, HeldElse
  <1> HIDE DEF s
  <1>5. Types'
    <2>1. busy' \in [Ids -> {0} \cup Storages]
      BY <1>1 DEF IInv, Types
    <2> QED BY <1>1, <1>4, <2>1 DEF IInv, Types, Otherwise
  <1>6. Minting'
    BY <1>1, <1>4, OtherwiseMinting
  <1>7. Accounts'
    BY <1>1, <1>4, OtherwiseAccounts
  <1>8. \A j \in Ids : Payer(j)' = Payer(j)
    BY <1>1 DEF Payer
  <1>9. InHand'
    <2>1. \A j \in Ids : busy'[j] = IF j = i THEN 0 ELSE busy[j]
      BY <1>1 DEF IInv, Types
    <2>2. ASSUME NEW j \in Ids, j # i, busy[j] # 0
          PROVE  busy[j] \in Storages /\ busy[j] # s
      <3>1. store[busy[j]].payer = Payer(j) /\ busy[j] \in Storages
        BY <2>2 DEF IInv, InHand, Types
      <3>2. Payer(j) # Payer(i)
        BY <2>2 DEF Payer
      <3> QED BY <1>2, <3>1, <3>2
    <2>3. vmm = "insert" => at # s
      BY <1>2 DEF IInv, InHand
    <2>4. ASSUME NEW j \in Ids, busy'[j] # 0
          PROVE  /\ key'[j] # 0 /\ store'[busy'[j]].payer = Payer(j)'
                 /\ store'[busy'[j]].holders = {"plan"} /\ store'[busy'[j]].importers = {}
      <3>1. j # i /\ busy'[j] = busy[j] /\ busy[j] # 0 /\ busy[j] \in Storages /\ busy[j] # s
        BY <2>1, <2>2, <2>4
      <3>2. store'[busy[j]] = store[busy[j]] /\ key' = key
        BY <1>1, <1>4, <3>1 DEF Otherwise
      <3> QED BY <1>8, <3>1, <3>2 DEF IInv, InHand
    <2>5. vmm' = "insert" => at' \in Storages /\ "stack" \in store'[at'].holders
      BY <1>1, <1>4, <2>3 DEF IInv, InHand, Otherwise
    <2> QED BY <2>4, <2>5 DEF InHand
  <1>10. Journaled'
    BY <1>1, <1>2, <1>3, <1>4, <1>8 DEF IInv, Journaled, Otherwise
  <1> QED BY <1>4, <1>5, <1>6, <1>7, <1>9, <1>10 DEF IInv

LEMMA RecordKeeps ==
  ASSUME IInv, NEW i \in Ids, Record(i) \/ DriverRefuses(i)
  PROVE  IInv'
  <1>1. CASE Record(i)
    BY <1>1, PlanEnds DEF Record, vmmVars
  <1>2. CASE DriverRefuses(i)
    <2>1. store[busy[i]].holders \ {"plan"} = {} /\ store[busy[i]].importers = {}
      BY <1>2 DEF DriverRefuses, IInv, InHand
    <2>2. Held(busy[i], {}, {})
      BY <1>2, <2>1 DEF DriverRefuses, LetGo
    <2> QED BY <1>2, <2>2, PlanEnds DEF DriverRefuses, keptVars, vmmVars
  <1> QED BY <1>1, <1>2

LEMMA CollectKeeps ==
  ASSUME IInv, NEW i \in Ids, Collect(i)
  PROVE  IInv'
  <1> DEFINE gone == {s \in Storages : store[s].payer = Payer(i) /\ ~Kept(s)}
  <1>1. /\ journal' = journal \ gone /\ exports' = exports \ gone
        /\ UNCHANGED <<key, minted, busy, ledgerVars, shareVars, vmmVars>>
    BY DEF Collect, ctxVars
  <1>2. ASSUME NEW j \in Ids, NEW s \in Storages, key[j] # 0, store[s].payer = Payer(j)
        PROVE  /\ "record" \in store[s].holders => s \in journal'
               /\ s \in published /\ Stands(s) => s \in exports' /\ s \in journal'
    BY <1>1, <1>2 DEF Kept, Witnessed, IInv, Journaled
  <1> HIDE DEF gone
  <1>3. Journaled'
    BY <1>1, <1>2 DEF Journaled, Stands, Payer, shareVars
  <1> QED BY <1>1, <1>3 DEF ledgerVars, shareVars, vmmVars, IInv, Types, Minting, Accounts, Counted,
       InHand, Stands, SlotOf, Payer

LEMMA OpenKeeps ==
  ASSUME IInv, NEW i \in Ids, Open(i)
  PROVE  IInv'
  <1> DEFINE k == minted + 1
  <1>1. /\ vmm = "idle" /\ key[i] = 0 /\ minted' = k /\ key' = [key EXCEPT ![i] = k]
        /\ slots' = [slots EXCEPT ![i] = [key |-> k, live |-> {}]]
        /\ asserted' = (asserted \/ slots[i] # NoSlot)
        /\ UNCHANGED <<busy, shared, classic, store, used, published, exports, journal, vmm, at,
                       doomed>>
    BY DEF Open, shareVars, keptVars, vmmVars
  <1>2. k \in Nat /\ k # 0 /\ k > minted /\ minted \in Nat
    BY DEF IInv, Types
  <1>3. slots[i] = NoSlot
    BY <1>1 DEF IInv, Accounts
  <1> HIDE DEF k
  <1>4. /\ \A j \in Ids : key'[j] = IF j = i THEN k ELSE key[j]
        /\ \A j \in Ids : j # i => slots'[j] = slots[j]
        /\ slots'[i].key = k /\ slots'[i].live = {} /\ slots[i].live = {} /\ slots[i].key = 0
    BY <1>1, <1>3 DEF IInv, Types, NoSlot
  <1>5. Types'
    BY <1>1, <1>2 DEF IInv, Types
  <1>6. \A s \in Storages : store[s].payer # Classic => store[s].payer.key < k /\ store[s].payer.key # 0
    <2>1. \A s \in Storages : store[s].payer # Classic => store[s].payer.key \in 1..minted
      BY DEF IInv, Minting
    <2> QED BY <1>2, <2>1
  <1>7. Minting'
    <2>1. \A j \in Ids : key'[j] <= k
      BY <1>2, <1>4 DEF IInv, Types, Minting
    <2>2. 1..minted \in SUBSET (1..k)
      BY <1>2
    <2> QED BY <1>1, <2>1, <2>2 DEF IInv, Minting
  <1>8. Accounts'
    <2>1. \A j \in Ids : key'[j] = 0 => j # i /\ key[j] = 0
      BY <1>2, <1>4
    <2>2. \A j \in Ids : key'[j] # 0 => slots'[j].key = key'[j]
      BY <1>4 DEF IInv, Accounts
    <2>3. \A j \in Ids : key'[j] = 0 => slots'[j] = NoSlot
      BY <1>1, <1>4, <2>1 DEF IInv, Accounts
    <2> QED BY <1>1, <2>2, <2>3 DEF Accounts
  <1>9. \A s \in Storages, j \in Ids : store[s].payer = [id |-> j, key |-> k] => FALSE
    <2> SUFFICES ASSUME NEW s \in Storages, NEW j \in Ids, store[s].payer = [id |-> j, key |-> k]
                 PROVE  FALSE
      OBVIOUS
    <2>1. store[s].payer.key = k /\ store[s].payer \in Payers
      BY DEF IInv, Types
    <2>2. store[s].payer # Classic
      BY <1>2, <2>1, NotClassic
    <2> QED BY <1>2, <1>6, <2>1, <2>2
  <1>10. Counted'
    <2>1. Tally(slots, shared, classic, store) /\ ~asserted
      BY Tallied DEF IInv
    <2>2. ASSUME NEW t \in Storages
          PROVE  /\ \A j \in Ids : t \in slots'[j].live <=>
                      Up(store, t) /\ store[t].payer = [id |-> j, key |-> slots'[j].key]
                 /\ t \in classic <=> Up(store, t) /\ store[t].payer = Classic
                 /\ t \in shared <=> /\ Up(store, t) /\ store[t].payer # Classic
                                     /\ slots'[store[t].payer.id].key # store[t].payer.key
      <3>1. store[t].payer # Classic => store[t].payer.id \in Ids /\ store[t].payer.key \in Nat
        BY NotClassic DEF IInv, Types
      <3>2. store[t].payer # Classic =>
              (slots'[store[t].payer.id].key # store[t].payer.key <=>
               slots[store[t].payer.id].key # store[t].payer.key)
        BY <1>2, <1>4, <1>6, <3>1
      <3>3. \A j \in Ids : t \in slots'[j].live <=>
               Up(store, t) /\ store[t].payer = [id |-> j, key |-> slots'[j].key]
        <4> SUFFICES ASSUME NEW j \in Ids
                     PROVE  t \in slots'[j].live <=>
                              Up(store, t) /\ store[t].payer = [id |-> j, key |-> slots'[j].key]
          OBVIOUS
        <4>1. CASE j = i
          BY <1>4, <1>9, <4>1
        <4>2. CASE j # i
          BY <1>4, <2>1, <4>2 DEF Tally
        <4> QED BY <4>1, <4>2
      <3> QED BY <2>1, <3>2, <3>3 DEF Tally
    <2>3. Tally(slots', shared', classic', store')
      BY <1>1, <2>2 DEF Tally
    <2>4. ~asserted'
      BY <1>1, <1>3, <2>1
    <2> QED BY <1>5, <2>3, <2>4, Tallied
  <1>11. \A j \in Ids : j # i => Payer(j)' = Payer(j)
    BY <1>4 DEF Payer
  <1>12. InHand'
    BY <1>1, <1>4, <1>11 DEF IInv, InHand
  <1>13. Journaled'
    <2>1. Payer(i)' = [id |-> i, key |-> k]
      BY <1>4 DEF Payer
    <2> QED BY <1>1, <1>4, <1>9, <1>11, <2>1 DEF IInv, Journaled, Stands
  <1> QED BY <1>5, <1>7, <1>8, <1>10, <1>12, <1>13 DEF IInv
LEMMA ExportKeeps ==
  ASSUME IInv, NEW s \in Storages, Export(s)
  PROVE  IInv'
  <1> DEFINE holders == store[s].holders \cup {"stack"}
  <1>1. /\ vmm = "idle" /\ "record" \in store[s].holders
        /\ published' = published \cup {s} /\ exports' = exports \cup {s}
        /\ Held(s, holders, store[s].importers) /\ vmm' = "insert" /\ at' = s
        /\ UNCHANGED <<key, minted, busy, used, journal, doomed>>
    BY DEF Export, ctxVars
  <1>2. holders \in SUBSET Keepers /\ store[s].importers \in SUBSET Nat /\ Stands(s)
    BY <1>1 DEF IInv, Types, Keepers, Stands
  <1>3. Counted' /\ Otherwise(s, holders, store[s].importers)
    BY <1>1, <1>2, HeldElse
  <1>4. "stack" \in holders /\ ("record" \in holders <=> "record" \in store[s].holders)
    OBVIOUS
  <1> HIDE DEF holders
  <1>5. Types'
    BY <1>1, <1>3 DEF IInv, Types, Otherwise
  <1>6. Minting'
    BY <1>1, <1>3, OtherwiseMinting
  <1>7. Accounts'
    BY <1>1, <1>3, OtherwiseAccounts
  <1>8. \A j \in Ids : Payer(j)' = Payer(j)
    BY <1>1 DEF Payer
  <1>9. InHand'
    <2>1. \A j \in Ids : busy[j] # 0 => busy[j] \in Storages /\ busy[j] # s
      BY <1>1 DEF IInv, InHand, Types
    <2> QED BY <1>1, <1>3, <1>4, <1>8, <2>1, ZenonT(60) DEF IInv, InHand, Otherwise
  <1>10. Journaled'
    BY <1>1, <1>2, <1>3, <1>4, <1>8 DEF IInv, Journaled, Otherwise
  <1> QED BY <1>3, <1>5, <1>6, <1>7, <1>9, <1>10 DEF IInv

LEMMA InsertKeeps ==
  ASSUME IInv, Insert
  PROVE  IInv'
  <1> DEFINE s == at
             holders == (store[s].holders \ {"stack"}) \cup {"blob"}
  <1>1. /\ vmm = "insert" /\ Held(s, holders, store[s].importers) /\ vmm' = "idle" /\ at' = 0
        /\ UNCHANGED <<key, minted, busy, used, published, exports, journal, doomed>>
    BY DEF Insert, ctxVars, keptVars
  <1>2. s \in Storages /\ "stack" \in store[s].holders
    BY <1>1 DEF IInv, InHand
  <1>3. holders \in SUBSET Keepers /\ store[s].importers \in SUBSET Nat /\ Stands(s)
    BY <1>2 DEF IInv, Types, Keepers, Stands
  <1>4. Counted' /\ Otherwise(s, holders, store[s].importers)
    BY <1>1, <1>2, <1>3, HeldElse
  <1>5. "record" \in holders <=> "record" \in store[s].holders
    OBVIOUS
  <1>6. PICK t \in Storages : t = s
    BY <1>2
  <1> HIDE DEF holders, s
  <1>7. Types'
    BY <1>1, <1>4 DEF IInv, Types, Otherwise
  <1>8. Minting'
    BY <1>1, <1>4, OtherwiseMinting
  <1>9. Accounts'
    BY <1>1, <1>4, OtherwiseAccounts
  <1>10. \A j \in Ids : Payer(j)' = Payer(j)
    BY <1>1 DEF Payer
  <1>11. InHand'
    <2>1. \A j \in Ids : busy[j] # 0 => busy[j] \in Storages /\ busy[j] # s
      BY <1>2 DEF IInv, InHand, Types
    <2> QED BY <1>1, <1>4, <1>10, <2>1, ZenonT(60) DEF IInv, InHand, Otherwise
  <1>12. Journaled'
    BY <1>1, <1>3, <1>4, <1>5, <1>10 DEF IInv, Journaled, Otherwise
  <1> QED BY <1>4, <1>7, <1>8, <1>9, <1>11, <1>12 DEF IInv

LEMMA DestroyKeeps ==
  ASSUME IInv, NEW i \in Ids, Destroy(i)
  PROVE  IInv'
  <1>1. /\ vmm = "idle" /\ key[i] # 0 /\ busy[i] = 0 /\ vmm' = "tear" /\ doomed' = Payer(i)
        /\ key' = [key EXCEPT ![i] = 0]
        /\ UNCHANGED <<minted, busy, slots, shared, classic, asserted, store, used, published,
                       exports, journal, at>>
    BY DEF Destroy, Free, ledgerVars, shareVars, keptVars
  <1>2. Payer(i) \in Payers /\ Payer(i) = [id |-> i, key |-> key[i]]
        /\ Payer(i).id = i /\ Payer(i).key = key[i]
    BY PayerOf DEF IInv, Payer
  <1>3. \A j \in Ids : key'[j] = IF j = i THEN 0 ELSE key[j]
    BY <1>1 DEF IInv, Types
  <1>4. Types'
    BY <1>1, <1>2 DEF IInv, Types
  <1>5. Minting'
    BY <1>1, <1>3 DEF IInv, Types, Minting
  <1>6. slots[i].key = key[i] /\ key[i] \in 1..minted
    BY <1>1 DEF IInv, Types, Minting, Accounts
  <1>7. Accounts'
    <2>1. \A j \in Ids : key'[j] = 0 =>
            slots[j] = NoSlot \/ Payer(i) = [id |-> j, key |-> slots[j].key]
      BY <1>1, <1>2, <1>3, <1>6 DEF IInv, Accounts
    <2>2. \A j \in Ids : key'[j] # 0 => slots[j].key = key'[j]
      BY <1>3 DEF IInv, Accounts
    <2> QED BY <1>1, <1>2, <1>3, <1>6, <2>1, <2>2 DEF Accounts
  <1>8. Counted'
    BY <1>1 DEF IInv, Counted, Stands, SlotOf
  <1>9. \A j \in Ids : j # i => Payer(j)' = Payer(j)
    BY <1>3 DEF Payer
  <1>10. InHand'
    BY <1>1, <1>3, <1>9 DEF IInv, InHand
  <1>11. Journaled'
    BY <1>1, <1>3, <1>9 DEF IInv, Journaled, Stands
  <1> QED BY <1>4, <1>5, <1>7, <1>8, <1>10, <1>11 DEF IInv

LEMMA RetireKeeps ==
  ASSUME IInv, Retire
  PROVE  IInv'
  <1> DEFINE i == doomed.id
             its == {s \in Storages : store[s].payer = doomed}
  <1>1. /\ vmm = "tear" /\ i \in Ids /\ doomed.key \in 1..minted /\ key[i] = 0
        /\ slots[i].key = doomed.key /\ doomed \in Payers
    BY DEF Retire, IInv, Types, Accounts
  <1>2. SlotOf(doomed) /\ doomed.key # 0
    BY <1>1 DEF SlotOf, IInv, Types
  <1>3. /\ shared' = shared \cup slots[i].live /\ slots' = [slots EXCEPT ![i] = NoSlot]
        /\ journal' = journal \ its /\ exports' = exports \ its
        /\ vmm' = "idle" /\ doomed' = Classic
        /\ UNCHANGED <<key, minted, busy, classic, asserted, store, used, published, at>>
    BY <1>2 DEF Retire, ctxVars, shareVars
  <1>4. doomed = [id |-> i, key |-> slots[i].key] /\ doomed # Classic
    <2>1. doomed.key \in Nat
      BY <1>1 DEF IInv, Types
    <2> QED BY <1>1, <2>1, NotClassic
  <1> HIDE DEF i, its
  <1>5. /\ \A j \in Ids : j # i => slots'[j] = slots[j]
        /\ slots'[i] = NoSlot /\ NoSlot.key = 0 /\ NoSlot.live = {}
        /\ slots' \in [Ids -> [key : Nat, live : SUBSET Storages]]
    BY <1>1, <1>3 DEF IInv, Types, NoSlot
  <1>6. Types'
    BY <1>1, <1>3, <1>5 DEF IInv, Types, Payers
  <1>7. Minting'
    BY <1>3 DEF IInv, Minting
  <1>8. Accounts'
    <2>1. \A j \in Ids : key[j] = 0 => slots'[j] = NoSlot
      <3> SUFFICES ASSUME NEW j \in Ids, key[j] = 0, j # i PROVE slots[j] = NoSlot
        BY <1>5
      <3>1. doomed # [id |-> j, key |-> slots[j].key]
        BY <1>4
      <3> QED BY <3>1 DEF IInv, Accounts
    <2>2. \A j \in Ids : key[j] # 0 => slots'[j].key = key[j]
      BY <1>1, <1>5 DEF IInv, Accounts
    <2> QED BY <1>3, <2>1, <2>2 DEF Accounts
  <1>9. Counted'
    <2>1. Tally(slots, shared, classic, store) /\ ~asserted
      BY Tallied DEF IInv
    <2>2. ASSUME NEW t \in Storages
          PROVE  /\ \A j \in Ids : t \in slots'[j].live <=>
                      Up(store, t) /\ store[t].payer = [id |-> j, key |-> slots'[j].key]
                 /\ t \in classic <=> Up(store, t) /\ store[t].payer = Classic
                 /\ t \in shared' <=> /\ Up(store, t) /\ store[t].payer # Classic
                                      /\ slots'[store[t].payer.id].key # store[t].payer.key
      <3> DEFINE p == store[t].payer
      <3>1. p # Classic => p.id \in Ids /\ p.key \in Nat /\ p.key # 0 /\ p = [id |-> p.id, key |-> p.key]
        <4>1. p # Classic => p.key \in 1..minted
          BY DEF IInv, Minting
        <4>2. p \in Payers /\ minted \in Nat
          BY DEF IInv, Types
        <4> QED BY <4>1, <4>2, NotClassic
      <3>2. p # [id |-> i, key |-> 0]
        <4> SUFFICES ASSUME p = [id |-> i, key |-> 0] PROVE FALSE
          OBVIOUS
        <4>1. p.key = 0
          OBVIOUS
        <4> QED BY <3>1, <4>1, NotClassic
      <3>3. \A j \in Ids : t \in slots'[j].live <=>
               Up(store, t) /\ p = [id |-> j, key |-> slots'[j].key]
        <4> SUFFICES ASSUME NEW j \in Ids
                     PROVE  t \in slots'[j].live <=>
                              Up(store, t) /\ p = [id |-> j, key |-> slots'[j].key]
          OBVIOUS
        <4>1. CASE j = i
          BY <1>5, <3>2, <4>1
        <4>2. CASE j # i
          BY <1>5, <2>1, <4>2 DEF Tally
        <4> QED BY <4>1, <4>2
      <3>4. t \in classic <=> Up(store, t) /\ p = Classic
        BY <2>1 DEF Tally
      <3>5. t \in shared' <=> t \in shared \/ t \in slots[i].live
        BY <1>3
      <3>6. t \in slots[i].live <=> Up(store, t) /\ p = doomed
        BY <1>1, <1>4, <2>1 DEF Tally
      <3>7. t \in shared <=> Up(store, t) /\ p # Classic /\ slots[p.id].key # p.key
        BY <2>1 DEF Tally
      <3>8. p # Classic => (p = doomed <=> p.id = i /\ slots[p.id].key = p.key)
        <4>1. doomed.id = i /\ doomed.key = slots[i].key
          BY <1>1 DEF i
        <4> QED BY <1>4, <3>1, <4>1
      <3>9. p # Classic => (slots'[p.id].key # p.key <=> p.id = i \/ slots[p.id].key # p.key)
        BY <1>5, <3>1
      <3> QED BY <1>4, <3>3, <3>4, <3>5, <3>6, <3>7, <3>8, <3>9
    <2>3. Tally(slots', shared', classic', store')
      BY <1>3, <2>2 DEF Tally
    <2> QED BY <1>3, <1>6, <2>1, <2>3, Tallied
  <1>10. \A j \in Ids : Payer(j)' = Payer(j)
    BY <1>3 DEF Payer
  <1>11. InHand'
    BY <1>3, <1>10 DEF IInv, InHand
  <1>12. Journaled'
    <2>1. \A j \in Ids : key[j] # 0 => Payer(j) # doomed
      BY <1>1 DEF Payer, i
    <2>2. \A s \in Storages : s \in its <=> store[s].payer = doomed
      BY DEF its
    <2> QED BY <1>3, <1>10, <2>1, <2>2 DEF IInv, Journaled, Stands
  <1> QED BY <1>6, <1>7, <1>8, <1>9, <1>11, <1>12 DEF IInv
-----------------------------------------------------------------------------
(* Every behaviour                                                         *)

LEMMA Starts == Init => IInv
  <1> SUFFICES ASSUME Init PROVE IInv
    OBVIOUS
  <1>1. NoStore \in [payer : Payers, size : Nat, holders : SUBSET Keepers, importers : SUBSET Nat]
        /\ NoStore.holders = {} /\ NoStore.importers = {} /\ NoStore.payer = Classic
        /\ Classic \in Payers
    BY DEF NoStore, Payers
  <1>2. NoSlot \in [key : Nat, live : SUBSET Storages] /\ NoSlot.live = {}
    BY DEF NoSlot
  <1>3. Types
    BY <1>1, <1>2 DEF Init, Types
  <1>4. /\ \A s \in Storages : store[s] = NoStore /\ ~Stands(s)
        /\ \A i \in Ids : key[i] = 0 /\ slots[i] = NoSlot /\ busy[i] = 0
    BY <1>1 DEF Init, Stands
  <1>5. Minting
    BY <1>1, <1>4 DEF Init, Minting
  <1>6. Accounts
    BY <1>4 DEF Init, Accounts
  <1>7. Counted
    BY <1>2, <1>4 DEF Init, Counted
  <1>8. InHand
    BY <1>4 DEF Init, InHand
  <1>9. Journaled
    BY <1>4 DEF Journaled
  <1> QED BY <1>3, <1>5, <1>6, <1>7, <1>8, <1>9 DEF IInv

LEMMA StepKeeps == ASSUME Sized PROVE IInv /\ [Next]_vars => IInv'
  <1> SUFFICES ASSUME IInv, [Next]_vars PROVE IInv'
    OBVIOUS
  <1>1. CASE \E i \in Ids : \E size \in Sizes : Admit(i, size)
    BY <1>1, AdmitKeeps
  <1>2. CASE \E i \in Ids : \/ Refuse(i) \/ Record(i) \/ DriverRefuses(i)
                            \/ Collect(i) \/ Open(i) \/ Destroy(i)
    BY <1>2, RefuseKeeps, RecordKeeps, CollectKeeps, OpenKeeps, DestroyKeeps
  <1>3. CASE \E i \in Ids, s \in Storages : FreeMemory(i, s) \/ Import(i, s)
    BY <1>3, FreeMemoryKeeps, ImportKeeps
  <1>4. CASE \E s \in Storages : Export(s) \/ Unref(s) \/ Sweep(s) \/ Tear(s)
    BY <1>4, ExportKeeps, UnrefKeeps, TearKeeps
  <1>5. CASE \E size \in Sizes : ClassicCharge(size)
    BY <1>5, ClassicChargeKeeps
  <1>6. CASE Insert
    BY <1>6, InsertKeeps
  <1>7. CASE Retire
    BY <1>7, RetireKeeps
  <1>8. CASE UNCHANGED vars
    BY <1>8 DEF vars, ctxVars, ledgerVars, shareVars, keptVars, vmmVars, IInv, Types, Minting,
       Accounts, Counted, InHand, Journaled, Stands, SlotOf, Payer
  <1> QED BY <1>1, <1>2, <1>3, <1>4, <1>5, <1>6, <1>7, <1>8 DEF Next

LEMMA KeptExports == IInv => ExportKept
  BY DEF IInv, Journaled, ExportKept

-----------------------------------------------------------------------------
(* The cap                                                                 *)

\* What contexts made and stands is within the cap, and is finitely many bytes.
Capped == IsFiniteSet(Spans(Storages)) /\ VenusCapped

\* A storage is as many bytes as its size says.
LEMMA SpanOf ==
  ASSUME NEW s, NEW n \in Nat
  PROVE  IsFiniteSet({s} \X (1..n)) /\ Cardinality({s} \X (1..n)) = n
  <1> DEFINE f == [b \in 1..n |-> <<s, b>>]
  <1>1. IsFiniteSet(1..n) /\ Cardinality(1..n) = n
    BY FS_Interval
  <1>2. f \in Bijection(1..n, {s} \X (1..n))
    <2>1. f \in [1..n -> {s} \X (1..n)]
      OBVIOUS
    <2>2. \A a, b \in 1..n : f[a] = f[b] => a = b
      OBVIOUS
    <2>3. \A t \in {s} \X (1..n) : \E a \in 1..n : f[a] = t
      OBVIOUS
    <2> HIDE DEF f
    <2> QED BY <2>1, <2>2, <2>3 DEF Bijection, Injection, Surjection, IsInjective
  <1>3. ExistsBijection(1..n, {s} \X (1..n))
    BY <1>2 DEF ExistsBijection
  <1> QED BY <1>1, <1>3, FS_Bijection

\* Every byte of a bucket is one of a storage of it, so fewer storages are fewer bytes.
LEMMA SpansGrow ==
  ASSUME NEW a, NEW b, a \subseteq b
  PROVE  Spans(a) \subseteq Spans(b)
  BY DEF Spans

\* Where no storage is made or newly held, the bytes held are no more.
LEMMA CappedStays ==
  ASSUME Capped, Cap \in Nat,
         \A t \in Storages : /\ store'[t].size = store[t].size
                             /\ store'[t].payer = store[t].payer
                             /\ Stands(t)' => Stands(t)
  PROVE  Capped'
  <1> DEFINE held == {t \in Storages : Stands(t) /\ store[t].payer # Classic}
             then == {t \in Storages : Stands(t)' /\ store'[t].payer # Classic}
  <1>1. then \subseteq held /\ held \subseteq Storages
    OBVIOUS
  <1>2. \A t \in Storages : {t} \X (1..store'[t].size) = {t} \X (1..store[t].size)
    OBVIOUS
  <1>3. /\ Spans(Storages)' = Spans(Storages)
        /\ UNION {{t} \X (1..store'[t].size) : t \in then} = Spans(then)
    BY <1>1, <1>2 DEF Spans
  <1>4. Spans(then) \subseteq Spans(held) /\ Spans(held) \subseteq Spans(Storages)
    BY <1>1, SpansGrow
  <1>5. IsFiniteSet(Spans(Storages)) /\ Cardinality(Spans(held)) <= Cap
    BY DEF Capped, VenusCapped, Bytes
  <1>6. IsFiniteSet(Spans(held)) /\ IsFiniteSet(Spans(then))
    BY <1>4, <1>5, FS_Subset
  <1>7. Cardinality(Spans(then)) <= Cardinality(Spans(held))
    BY <1>4, <1>6, FS_Subset
  <1>8. Cardinality(Spans(then)) \in Nat /\ Cardinality(Spans(held)) \in Nat
    BY <1>6, FS_CardinalityType
  <1>9. Cardinality(Spans(then)) <= Cap
    BY <1>5, <1>7, <1>8
  <1>10. VenusCapped'
    BY <1>3, <1>9 DEF VenusCapped, Bytes, Spans
  <1> QED BY <1>3, <1>5, <1>10 DEF Capped

\* A share's going, or coming to what stands, makes no storage and changes no size.
LEMMA HeldCapped ==
  ASSUME IInv, Capped, Cap \in Nat, NEW s \in Storages, NEW holders, NEW importers,
         Stands(s), Held(s, holders, importers)
  PROVE  Capped'
  <1>1. store' = [store EXCEPT ![s].holders = holders, ![s].importers = importers]
    BY DEF Held
  <1>2. \A t \in Storages : /\ store'[t].size = store[t].size
                            /\ store'[t].payer = store[t].payer
                            /\ t # s => store'[t] = store[t]
    BY <1>1 DEF IInv, Types
  <1>3. \A t \in Storages : Stands(t)' => Stands(t)
    BY <1>2 DEF Stands
  <1> QED BY <1>2, <1>3, CappedStays

\* A storage made has its bytes beside those there were.
LEMMA MintSpans ==
  ASSUME IInv, Sized, Capped, NEW p \in Payers, NEW size \in Sizes, NEW h \in Keepers,
         Mint(p, size, h)
  PROVE  /\ IsFiniteSet(Spans(Storages))'
         /\ store'[used + 1].size = size
         /\ \A t \in Storages : t # used + 1 => {t} \X (1..store'[t].size) = {t} \X (1..store[t].size)
  <1> DEFINE u == used + 1
             its == {u} \X (1..size)
  <1>1. u \in Storages /\ \A t \in Storages : t # u => store'[t] = store[t]
    BY Minted
  <1>2. store'[u].size = size
    BY <1>1 DEF Mint, IInv, Types
  <1>3. size \in Nat
    BY DEF Sized
  <1> HIDE DEF u
  <1>4. \A t \in Storages : t # u => {t} \X (1..store'[t].size) = {t} \X (1..store[t].size)
    BY <1>1
  <1>5. Spans(Storages)' \subseteq Spans(Storages) \cup its
    BY <1>1, <1>2, <1>4 DEF Spans
  <1>6. IsFiniteSet(its) /\ IsFiniteSet(Spans(Storages))
    BY <1>3, SpanOf DEF Capped
  <1>7. IsFiniteSet(Spans(Storages) \cup its)
    BY <1>6, FS_Union
  <1>8. IsFiniteSet(Spans(Storages)')
    BY <1>5, <1>7, FS_Subset
  <1> QED BY <1>2, <1>4, <1>8 DEF u

\* What stands of contexts' is charged, to a slot or to the shared bucket.
LEMMA StandsCharged ==
  IInv => {t \in Storages : Stands(t) /\ store[t].payer # Classic} \subseteq Charged
  <1> SUFFICES ASSUME IInv, NEW t \in Storages, Stands(t), store[t].payer # Classic
               PROVE  t \in Charged
    OBVIOUS
  <1> DEFINE p == store[t].payer
  <1>1. p \in Payers /\ p.id \in Ids /\ p = [id |-> p.id, key |-> p.key]
    BY NotClassic DEF IInv, Types
  <1>2. CASE SlotOf(p)
    <2>1. p = [id |-> p.id, key |-> slots[p.id].key]
      BY <1>1, <1>2 DEF SlotOf
    <2>2. t \in slots[p.id].live
      BY <1>1, <2>1 DEF IInv, Counted
    <2> QED BY <1>1, <2>2 DEF Charged
  <1>3. CASE ~SlotOf(p)
    <2>1. t \in shared
      BY <1>3 DEF IInv, Counted
    <2> QED BY <2>1 DEF Charged
  <1> QED BY <1>2, <1>3

\* An allocation is admitted only into what the cap leaves of every charge there is.
LEMMA AdmitCapped ==
  ASSUME IInv, Sized, Capped, Cap \in Nat, NEW i \in Ids, NEW size \in Sizes, Admit(i, size)
  PROVE  Capped'
  <1> DEFINE u == used + 1
             its == {u} \X (1..size)
             then == {t \in Storages : Stands(t)' /\ store'[t].payer # Classic}
  <1>1. Mint(Payer(i), size, "plan") /\ Cardinality(Spans(Charged)) + size <= Cap
    BY DEF Admit, Bytes
  <1>2. Payer(i) \in Payers /\ "plan" \in Keepers /\ size \in Nat
    BY PayerOf DEF IInv, Keepers, Sized
  <1>3. /\ IsFiniteSet(Spans(Storages))' /\ store'[u].size = size
        /\ \A t \in Storages : t # u => {t} \X (1..store'[t].size) = {t} \X (1..store[t].size)
    BY <1>1, <1>2, MintSpans
  <1>4. /\ u \in Storages
        /\ \A t \in Storages : t # u => store'[t] = store[t] /\ (Stands(t)' <=> Stands(t))
    BY <1>1, <1>2, Minted
  <1> HIDE DEF u
  <1>5. Charged \subseteq Storages
    <2>1. \A j \in Ids : slots[j].live \subseteq Storages
      BY DEF IInv, Types
    <2>2. UNION {slots[j].live : j \in Ids} \subseteq Storages
      BY <2>1
    <2>3. shared \subseteq Storages /\ classic \subseteq Storages
      BY DEF IInv, Types
    <2> QED BY <2>2, <2>3 DEF Charged
  <1>6. \A t \in then : t = u \/ t \in Charged
    BY <1>4, StandsCharged
  <1>7. UNION {{t} \X (1..store'[t].size) : t \in then} \subseteq Spans(Charged) \cup its
    <2> SUFFICES ASSUME NEW t \in then
                 PROVE  {t} \X (1..store'[t].size) \subseteq Spans(Charged) \cup its
      OBVIOUS
    <2>1. CASE t = u
      BY <1>3, <2>1
    <2>2. CASE t # u
      BY <1>3, <1>6, <2>2 DEF Spans
    <2> QED BY <2>1, <2>2
  <1>8. IsFiniteSet(Spans(Charged))
    <2>1. Spans(Charged) \subseteq Spans(Storages)
      BY <1>5, SpansGrow
    <2> QED BY <2>1, FS_Subset DEF Capped
  <1>9. IsFiniteSet(its) /\ Cardinality(its) = size
    BY <1>2, SpanOf
  <1> HIDE DEF its
  <1>10. /\ IsFiniteSet(Spans(Charged) \cup its)
         /\ Cardinality(Spans(Charged) \cup its) <= Cardinality(Spans(Charged)) + size
    <2>1. /\ IsFiniteSet(Spans(Charged) \cup its)
          /\ Cardinality(Spans(Charged) \cup its) =
               Cardinality(Spans(Charged)) + Cardinality(its) - Cardinality(Spans(Charged) \cap its)
      BY <1>8, <1>9, FS_Union
    <2>2. IsFiniteSet(Spans(Charged) \cap its)
      BY <1>8, FS_Intersection
    <2>3. Cardinality(Spans(Charged) \cap its) \in Nat /\ Cardinality(Spans(Charged)) \in Nat
      BY <1>8, <2>2, FS_CardinalityType
    <2> QED BY <1>2, <1>9, <2>1, <2>3
  <1>11. Cardinality(UNION {{t} \X (1..store'[t].size) : t \in then}) <= Cap
    <2> DEFINE all == UNION {{t} \X (1..store'[t].size) : t \in then}
    <2>1. IsFiniteSet(all) /\ Cardinality(all) <= Cardinality(Spans(Charged) \cup its)
      BY <1>7, <1>10, FS_Subset
    <2>2. /\ Cardinality(all) \in Nat /\ Cardinality(Spans(Charged)) \in Nat
          /\ Cardinality(Spans(Charged) \cup its) \in Nat
      BY <1>8, <1>10, <2>1, FS_CardinalityType
    <2> HIDE DEF all
    <2>3. Cardinality(all) <= Cap
      BY <1>1, <1>2, <1>10, <2>1, <2>2
    <2> QED BY <2>3 DEF all
  <1>12. VenusCapped'
    BY <1>11 DEF VenusCapped, Bytes, Spans
  <1> QED BY <1>3, <1>12 DEF Capped

\* A classic surface is none of theirs.
LEMMA ClassicChargeCapped ==
  ASSUME IInv, Sized, Capped, Cap \in Nat, NEW size \in Sizes, ClassicCharge(size)
  PROVE  Capped'
  <1> DEFINE u == used + 1
             held == {t \in Storages : Stands(t) /\ store[t].payer # Classic}
             then == {t \in Storages : Stands(t)' /\ store'[t].payer # Classic}
  <1>1. Mint(Classic, size, "blob") /\ Classic \in Payers /\ "blob" \in Keepers
    BY DEF ClassicCharge, Payers, Keepers
  <1>2. /\ IsFiniteSet(Spans(Storages))'
        /\ \A t \in Storages : t # u => {t} \X (1..store'[t].size) = {t} \X (1..store[t].size)
    BY <1>1, MintSpans
  <1>3. /\ u \in Storages /\ ~Stands(u) /\ store'[u].payer = Classic
        /\ \A t \in Storages : t # u => store'[t] = store[t] /\ (Stands(t)' <=> Stands(t))
    BY <1>1, Minted
  <1> HIDE DEF u
  <1>4. then = held
    BY <1>3
  <1>5. UNION {{t} \X (1..store'[t].size) : t \in then} = Spans(held)
    BY <1>2, <1>3, <1>4 DEF Spans
  <1>6. Cardinality(UNION {{t} \X (1..store'[t].size) : t \in then}) <= Cap
    BY <1>5 DEF Capped, VenusCapped, Bytes
  <1>7. VenusCapped'
    BY <1>6 DEF VenusCapped, Bytes, Spans
  <1> QED BY <1>2, <1>7 DEF Capped

LEMMA CappedStarts == ASSUME Cap \in Nat PROVE Init => Capped
  <1> SUFFICES ASSUME Init PROVE Capped
    OBVIOUS
  <1>1. \A s \in Storages : store[s].size = 0
    BY DEF Init, NoStore
  <1>2. \A b \in SUBSET Storages : Spans(b) = {}
    BY <1>1 DEF Spans
  <1>3. Bytes({s \in Storages : Stands(s) /\ store[s].payer # Classic}) = 0
    BY <1>2, FS_EmptySet DEF Bytes
  <1> QED BY <1>2, <1>3, FS_EmptySet DEF Capped, VenusCapped

\* Whatever a step does to the shares, a charge or a credit, the cap is kept.
LEMMA CappedKept ==
  ASSUME Sized, Cap \in Nat
  PROVE  IInv /\ Capped /\ [Next]_vars => Capped'
  <1> SUFFICES ASSUME IInv, Capped, [Next]_vars PROVE Capped'
    OBVIOUS
  <1>1. ASSUME NEW i \in Ids, NEW size \in Sizes, Admit(i, size) PROVE Capped'
    BY <1>1, AdmitCapped
  <1>2. ASSUME NEW size \in Sizes, ClassicCharge(size) PROVE Capped'
    BY <1>2, ClassicChargeCapped
  <1>3. ASSUME NEW s \in Storages, NEW h \in Keepers, LetGo(s, h) PROVE Capped'
    BY <1>3, HeldCapped DEF LetGo, Stands
  <1>4. ASSUME NEW s \in Storages, NEW k, Forget(s, k) PROVE Capped'
    BY <1>4, HeldCapped DEF Forget, Stands
  <1>5. "plan" \in Keepers /\ "record" \in Keepers /\ "doomed" \in Keepers
    BY DEF Keepers
  <1>6. ASSUME NEW i \in Ids, Record(i) \/ DriverRefuses(i) PROVE Capped'
    <2>1. busy[i] \in Storages /\ Stands(busy[i])
      BY <1>6 DEF IInv, Types, InHand, Record, DriverRefuses, Stands
    <2> QED BY <1>3, <1>5, <1>6, <2>1, HeldCapped DEF Record, DriverRefuses
  <1>7. ASSUME NEW i \in Ids, NEW s \in Storages, FreeMemory(i, s) \/ Import(i, s) PROVE Capped'
    <2>1. CASE FreeMemory(i, s)
      BY <1>3, <1>4, <1>5, <2>1 DEF FreeMemory
    <2>2. CASE Import(i, s)
      BY <2>2, HeldCapped DEF Import, Stands
    <2> QED BY <1>7, <2>1, <2>2
  <1>8. ASSUME NEW s \in Storages, Export(s) \/ Unref(s) \/ Sweep(s) \/ Tear(s) PROVE Capped'
    <2>1. CASE Export(s)
      BY <2>1, HeldCapped DEF Export, Stands
    <2>2. CASE Unref(s)
      BY <2>2, HeldCapped DEF Unref, Stands
    <2>3. CASE Sweep(s) \/ Tear(s)
      BY <1>3, <1>4, <1>5, <2>3 DEF Sweep, Tear
    <2> QED BY <1>8, <2>1, <2>2, <2>3
  <1>9. CASE Insert
    <2>1. at \in Storages /\ Stands(at)
      BY <1>9 DEF IInv, InHand, Insert, Stands
    <2> QED BY <1>9, <2>1, HeldCapped DEF Insert
  <1>10. ASSUME store' = store PROVE Capped'
    <2>1. \A t \in Storages : Stands(t)' => Stands(t)
      BY <1>10 DEF Stands
    <2> QED BY <1>10, <2>1, CappedStays
  <1>11. CASE \E i \in Ids : Refuse(i) \/ Collect(i) \/ Open(i) \/ Destroy(i)
    BY <1>10, <1>11 DEF Refuse, Collect, Open, Destroy, shareVars
  <1>12. CASE Retire \/ UNCHANGED vars
    BY <1>10, <1>12 DEF Retire, vars, shareVars
  <1> QED BY <1>1, <1>2, <1>6, <1>7, <1>8, <1>9, <1>11, <1>12 DEF Next

-----------------------------------------------------------------------------
(* The results                                                             *)

\* Whatever order shares, contexts and ids come and go in, each bucket of the ledger is
\* the storages that stand and that it answers for (budget.rs Charge::drop).
THEOREM CountedAlways == ASSUME Sized PROVE Spec => []Counted
  <1>1. IInv => Counted
    BY DEF IInv
  <1> QED BY <1>1, Starts, StepKeeps, PTL DEF Spec

\* While anyone holds a share of a published storage, the command that made it is in its
\* context's journal (venus/context.rs collect_journal).
THEOREM ExportKeptAlways == ASSUME Sized PROVE Spec => []ExportKept
  BY KeptExports, Starts, StepKeeps, PTL DEF Spec

\* What contexts made and stands is within the cap, however many threads allocate at once
\* and whatever has outlived its context (budget.rs Account::try_charge).
THEOREM VenusCappedAlways == ASSUME Sized, Cap \in Nat PROVE Spec => []VenusCapped
  <1>1. IInv /\ Capped => VenusCapped
    BY DEF Capped
  <1> QED BY <1>1, Starts, StepKeeps, CappedStarts, CappedKept, PTL DEF Spec

-----------------------------------------------------------------------------
(* What a context is told of its heaps                                     *)

\* An answer Vulkan allows, whatever the cap, the others' charges and the driver say: a
\* heap's budget is not zero and its usage no more than that; and no more is promised than
\* the heap and the driver have (budget.rs Account::heap_answer).
LEMMA AnswerLegal ==
  ASSUME Cap \in Nat, NEW own \in Nat, NEW others \in Nat, NEW heap \in Nat, NEW driver \in Nat
  PROVE  LET budget == HeapBudget(own, others, heap, driver)
             usage  == HeapUsage(own, others, heap, driver)
         IN  /\ budget \in Nat \ {0} /\ usage \in Nat
             /\ usage <= budget /\ usage <= own
             /\ budget <= Greatest(heap, 1)
             /\ driver # 0 => budget <= driver
  BY DEF HeapBudget, HeapUsage, Ours, Least, Greatest

\* What an answer leaves is below the cap, beside everyone's charges, but for the one byte
\* of a budget that would have been zero.
LEMMA AnswerHasRoom ==
  ASSUME Cap \in Nat, NEW own \in Nat, NEW others \in Nat, NEW heap \in Nat, NEW driver \in Nat,
         NEW size \in Nat \ {0},
         HeapBudget(own, others, heap, driver) > 1,
         HeapUsage(own, others, heap, driver) + size <= HeapBudget(own, others, heap, driver)
  PROVE  own + others + size <= Cap
  BY DEF HeapBudget, HeapUsage, Ours, Least, Greatest

\* A context's own bytes and everyone else's, as Account::standing finds them.
Own(i)    == Bytes(slots[i].live)
Others(i) == Bytes(Charged) - Own(i)

\* A context that allocates what its budget leaves, before anyone else allocates, is not
\* refused: Admit's guard holds. And what it is told is an answer Vulkan allows.
AnswerHonest ==
  \A i \in Ids, heap \in Nat, driver \in Nat :
    LET budget == HeapBudget(Own(i), Others(i), heap, driver)
        usage  == HeapUsage(Own(i), Others(i), heap, driver)
    IN  /\ budget # 0 /\ usage <= budget
        /\ budget > 1 => \A size \in Nat \ {0} : usage + size <= budget => Bytes(Charged) + size <= Cap

\* The others' bytes are a difference that is never below zero.
LEMMA StandingIs ==
  ASSUME IInv, Capped, NEW i \in Ids
  PROVE  Own(i) \in Nat /\ Others(i) \in Nat /\ Own(i) + Others(i) = Bytes(Charged)
  <1> DEFINE mine == Spans(slots[i].live)
             all == Spans(Charged)
  <1>1. slots[i].live \subseteq Charged /\ Charged \subseteq Storages
    <2>1. \A j \in Ids : slots[j].live \subseteq Storages
      BY DEF IInv, Types
    <2> QED BY <2>1 DEF Charged, IInv, Types
  <1>2. mine \subseteq all /\ all \subseteq Spans(Storages)
    BY <1>1, SpansGrow
  <1>3. IsFiniteSet(Spans(Storages))
    BY DEF Capped
  <1> HIDE DEF mine, all
  <1>4. IsFiniteSet(all)
    BY <1>2, <1>3, FS_Subset
  <1>5. IsFiniteSet(mine) /\ Cardinality(mine) <= Cardinality(all)
    BY <1>2, <1>4, FS_Subset
  <1>6. Cardinality(mine) \in Nat /\ Cardinality(all) \in Nat
    BY <1>4, <1>5, FS_CardinalityType
  <1>7. Own(i) = Cardinality(mine) /\ Bytes(Charged) = Cardinality(all)
    BY DEF Own, Bytes, mine, all
  <1> QED BY <1>5, <1>6, <1>7 DEF Others

\* For any contexts, sizes, heaps and driver, what VK_EXT_memory_budget says of a heap is
\* legal and leaves no more than there is (budget.rs Account::heap_answer against try_charge).
THEOREM AnswersHonest == ASSUME Sized, Cap \in Nat PROVE Spec => []AnswerHonest
  <1>1. ASSUME IInv, Capped PROVE AnswerHonest
    <2> SUFFICES ASSUME NEW i \in Ids, NEW heap \in Nat, NEW driver \in Nat
                 PROVE  LET budget == HeapBudget(Own(i), Others(i), heap, driver)
                            usage  == HeapUsage(Own(i), Others(i), heap, driver)
                        IN  /\ budget # 0 /\ usage <= budget
                            /\ budget > 1 => \A size \in Nat \ {0} :
                                 usage + size <= budget => Bytes(Charged) + size <= Cap
      BY DEF AnswerHonest
    <2>1. PICK own \in Nat, others \in Nat :
            own = Own(i) /\ others = Others(i) /\ own + others = Bytes(Charged)
      BY <1>1, StandingIs
    <2> QED BY <2>1, AnswerLegal, AnswerHasRoom
  <1>2. Init => IInv /\ Capped
    BY Starts, CappedStarts
  <1>3. IInv /\ Capped /\ [Next]_vars => IInv' /\ Capped'
    BY StepKeeps, CappedKept
  <1> QED BY <1>1, <1>2, <1>3, PTL DEF Spec

-----------------------------------------------------------------------------
(* The types of what nothing above speaks of                               *)

\* What has been refused, exported and journaled is of what there is.
Filed ==
  /\ fatal \in SUBSET Nat /\ exports \in SUBSET Storages /\ journal \in SUBSET Storages
  /\ vmm \in {"idle", "insert", "tear"} /\ asserted \in BOOLEAN

\* An assertion failed or did not.
LEMMA AssertedIs == asserted \in BOOLEAN /\ [Next]_vars => asserted' \in BOOLEAN
  <1> SUFFICES ASSUME asserted \in BOOLEAN, [Next]_vars PROVE asserted' \in BOOLEAN
    OBVIOUS
  <1>1. ASSUME NEW s, Credit(s) PROVE asserted' \in BOOLEAN
    BY <1>1 DEF Credit
  <1>2. ASSUME NEW s, NEW hs, NEW is, Held(s, hs, is) PROVE asserted' \in BOOLEAN
    BY <1>1, <1>2 DEF Held, ledgerVars
  <1>3. CASE \E i \in Ids : Record(i) \/ DriverRefuses(i)
                          \/ \E s \in Storages : FreeMemory(i, s) \/ Import(i, s)
    BY <1>2, <1>3 DEF Record, DriverRefuses, FreeMemory, Import, LetGo, Forget
  <1>4. CASE (\E s \in Storages : Export(s) \/ Unref(s) \/ Sweep(s) \/ Tear(s)) \/ Insert
    BY <1>2, <1>4 DEF Export, Unref, Sweep, Tear, Insert, LetGo, Forget
  <1>5. CASE \E i \in Ids : (\E size \in Sizes : Admit(i, size)) \/ Open(i)
    BY <1>5 DEF Admit, Open
  <1>6. CASE (\E size \in Sizes : ClassicCharge(size)) \/ Retire \/ UNCHANGED vars
    BY <1>6 DEF ClassicCharge, Retire, vars, ledgerVars
  <1>7. CASE \E i \in Ids : Refuse(i) \/ Collect(i) \/ Destroy(i)
    BY <1>7 DEF Refuse, Collect, Destroy, ledgerVars
  <1> QED BY <1>3, <1>4, <1>5, <1>6, <1>7 DEF Next

\* Every step keeps these types.
LEMMA FiledKept == /\ Init => Filed
                   /\ IInv /\ Filed /\ [Next]_vars => Filed'
  <1>1. Init => Filed
    BY DEF Init, Filed
  <1>2. ASSUME IInv, Filed, [Next]_vars PROVE Filed'
    <2>0. asserted' \in BOOLEAN
      BY <1>2, AssertedIs DEF Filed
    <2>1. key \in [Ids -> Nat] /\ busy \in [Ids -> {0} \cup Storages]
      BY <1>2 DEF IInv, Types
    <2>2. CASE \E i \in Ids : Refuse(i) \/ Record(i) \/ Collect(i) \/ Destroy(i) \/ Open(i)
      <3>1. PICK i \in Ids : Refuse(i) \/ Record(i) \/ Collect(i) \/ Destroy(i) \/ Open(i)
        BY <2>2
      <3>2. CASE Refuse(i)
        BY <1>2, <2>0, <2>1, <3>2 DEF Filed, Refuse, keptVars, vmmVars
      <3>3. CASE Record(i)
        BY <1>2, <2>0, <2>1, <3>3 DEF Filed, Record, vmmVars
      <3>4. CASE Collect(i)
        BY <1>2, <2>0, <3>4 DEF Filed, Collect, ctxVars, vmmVars
      <3>5. CASE Destroy(i) \/ Open(i)
        BY <1>2, <2>0, <3>5 DEF Filed, Destroy, Open, keptVars, vmmVars
      <3> QED BY <3>1, <3>2, <3>3, <3>4, <3>5
    <2>3. CASE \/ \E i \in Ids : \/ \E size \in Sizes : Admit(i, size)
                                 \/ DriverRefuses(i)
                                 \/ \E s \in Storages : FreeMemory(i, s) \/ Import(i, s)
               \/ \E s \in Storages : Unref(s) \/ Sweep(s) \/ Tear(s)
               \/ \E size \in Sizes : ClassicCharge(size)
               \/ UNCHANGED vars
      BY <1>2, <2>0, <2>3 DEF Filed, Admit, DriverRefuses, FreeMemory, Import, Unref, Sweep, Tear,
        ClassicCharge, vars, ctxVars, keptVars, vmmVars
    <2>4. CASE (\E s \in Storages : Export(s)) \/ Insert \/ Retire
      BY <1>2, <2>0, <2>4 DEF Filed, Export, Insert, Retire, ctxVars, keptVars
    <2> QED BY <1>2, <2>2, <2>3, <2>4 DEF Next
  <1> QED BY <1>1, <1>2

\* With the invariant they are the module's.
LEMMA Typed == IInv /\ Filed => TypeOK
  <1> SUFFICES ASSUME IInv, Filed PROVE TypeOK
    OBVIOUS
  <1> QED BY DEF IInv, Types, Filed, TypeOK
=============================================================================
