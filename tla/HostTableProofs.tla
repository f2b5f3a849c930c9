--------------------------- MODULE HostTableProofs ---------------------------
(***************************************************************************)
(* Two results about the resource table, for any handles, contexts and     *)
(* number of resources: vrend's storage under a handle is the resource     *)
(* the handle names, and no texture a framebuffer draws into is deleted.   *)
(* Each resource is in one place: Apart says so of the table t, what       *)
(* contexts described d, vrend's map m with the handles condemned in it,   *)
(* the parked slots, and the textures doomed and deleted, of n ever made.  *)
(***************************************************************************)
EXTENDS HostTable, TLAPS

Shaped(t, d, m, park, doom, del, n) ==
  /\ n \in Nat
  /\ t \in [Handles -> 0..n] /\ d \in [Ctxs -> 0..n]
  /\ m \in [Handles -> [of : 0..n, typed : BOOLEAN]]
  /\ park \in SUBSET [of : 1..n, typed : BOOLEAN]
  /\ doom \in SUBSET (1..n) /\ del \in SUBSET (1..n)

\* A resource has one name, and a handle that is not condemned its own storage or none.
Named(t, d, m, cond) ==
  /\ \A h, k \in Handles : t[h] = t[k] /\ t[h] # 0 => h = k
  /\ \A b, c \in Ctxs : d[b] = d[c] /\ d[b] # 0 => b = c
  /\ \A h \in Handles, c \in Ctxs : t[h] = d[c] => t[h] = 0
  /\ \A h \in Handles : m[h].of = 0 => m[h] = NoSlot
  /\ \A h \in Handles : h \notin cond => m[h] = NoSlot \/ m[h].of = t[h]
  /\ \A h, k \in Handles : m[h].of = m[k].of /\ m[h].of # 0 => h = k

\* What was let go of has no name any more, and is let go of once.
LetGo(t, d, m, cond, park, doom, del) ==
  /\ \A h, k \in Handles : h \in cond /\ m[h].of = t[k] => t[k] = 0
  /\ \A h \in Handles, c \in Ctxs : h \in cond /\ m[h].of = d[c] => d[c] = 0
  /\ \A p \in park : /\ \A h \in Handles : p.of # t[h] /\ p.of # m[h].of
                     /\ \A c \in Ctxs : p.of # d[c]
                     /\ p.of \notin doom /\ p.of \notin del
  /\ \A h \in Handles : /\ m[h].of \notin doom /\ m[h].of \notin del
                        /\ t[h] \notin doom /\ t[h] \notin del
  /\ \A c \in Ctxs : d[c] \notin doom /\ d[c] \notin del
  /\ \A r \in doom : r \notin del

Apart(t, d, m, cond, park, doom, del, n) ==
  /\ Shaped(t, d, m, park, doom, del, n)
  /\ Named(t, d, m, cond)
  /\ LetGo(t, d, m, cond, park, doom, del)

\* What a framebuffer draws into is owned by a slot or doomed.
Drawn(bound, m, park, doom) ==
  /\ bound \in [Ctxs -> Nat]
  /\ \A c \in Ctxs : bound[c] # 0 =>
       \/ \E h \in Handles : m[h].typed /\ m[h].of = bound[c]
       \/ \E p \in park : p.typed /\ p.of = bound[c]
       \/ bound[c] \in doom

Kept ==
  /\ ~asserted /\ condemned \in SUBSET Handles
  /\ Apart(table, described, map, condemned, parked, doomed, deleted, made)
  /\ Drawn(fb, map, parked, doomed)

-----------------------------------------------------------------------------
(* The two halves of a look at the map                                     *)

\* Slots::sync.
LEMMA SyncKeeps ==
  ASSUME Kept
  PROVE  /\ Apart(table, described, Synced, {}, Parking, doomed, deleted, made)
         /\ Drawn(fb, Synced, Parking, doomed)
         /\ \A h \in Handles : table[h] = 0 => Synced[h] = NoSlot
  <1>1. Shaped(table, described, map, parked, doomed, deleted, made)
    BY DEF Kept, Apart
  <1>2. \A h \in Handles : Synced[h] = IF h \in condemned THEN NoSlot ELSE map[h]
    BY DEF Synced
  <1>3. \A h \in Handles : map[h].of # 0 => map[h].of \in 1..made
    BY <1>1 DEF Shaped
  <1>4. \A p \in Parking : p \in parked \/ \E h \in Handles : h \in condemned /\ p = map[h] /\ p.of # 0
    BY DEF Parking, Kept, Apart, Named
  <1>5. NoSlot.of = 0 /\ NoSlot.typed = FALSE /\ NoSlot \in [of : 0..made, typed : BOOLEAN]
    BY <1>1 DEF NoSlot, Shaped
  <1>6. Shaped(table, described, Synced, Parking, doomed, deleted, made)
    <2>1. Synced \in [Handles -> [of : 0..made, typed : BOOLEAN]]
      BY <1>1, <1>5 DEF Synced, Shaped
    <2>2. \A h \in Handles : map[h].of # 0 => map[h] \in [of : 1..made, typed : BOOLEAN]
      BY <1>1 DEF Shaped
    <2>3. Parking \in SUBSET [of : 1..made, typed : BOOLEAN]
      BY <1>1, <1>4, <2>2 DEF Shaped
    <2> QED BY <1>1, <2>1, <2>3 DEF Shaped
  <1>7. Named(table, described, Synced, {})
    BY <1>1, <1>2, <1>5 DEF Kept, Apart, Named
  <1>8. LetGo(table, described, Synced, {}, Parking, doomed, deleted)
    <2>1. \A p \in Parking : /\ \A h \in Handles : p.of # table[h] /\ p.of # Synced[h].of
                             /\ \A c \in Ctxs : p.of # described[c]
                             /\ p.of \notin doomed /\ p.of \notin deleted
      <3> SUFFICES ASSUME NEW p \in Parking
                   PROVE  /\ \A h \in Handles : p.of # table[h] /\ p.of # Synced[h].of
                          /\ \A c \in Ctxs : p.of # described[c]
                          /\ p.of \notin doomed /\ p.of \notin deleted
        OBVIOUS
      <3>1. p.of # 0
        BY <1>6 DEF Shaped
      <3>2. CASE p \in parked
        BY <3>1, <3>2, <1>2, <1>5 DEF Kept, Apart, LetGo
      <3>3. CASE \E h \in Handles : h \in condemned /\ p = map[h]
        <4> PICK k \in Handles : k \in condemned /\ p = map[k]
          BY <3>3
        <4>1. \A h \in Handles : map[k].of = table[h] => table[h] = 0
          BY DEF Kept, Apart, LetGo
        <4>2. \A h \in Handles : map[h].of = map[k].of => h = k
          BY <3>1 DEF Kept, Apart, Named
        <4>3. \A c \in Ctxs : map[k].of = described[c] => described[c] = 0
          BY DEF Kept, Apart, LetGo
        <4>4. map[k].of \notin doomed /\ map[k].of \notin deleted
          BY DEF Kept, Apart, LetGo
        <4> QED BY <3>1, <4>1, <4>2, <4>3, <4>4, <1>2, <1>5
      <3> QED BY <3>2, <3>3, <1>4
    <2>2. 0 \notin doomed /\ 0 \notin deleted
      BY <1>1 DEF Shaped
    <2> QED BY <2>1, <2>2, <1>2, <1>5 DEF Kept, Apart, LetGo
  <1>9. Drawn(fb, Synced, Parking, doomed)
    <2> SUFFICES ASSUME NEW c \in Ctxs, fb[c] # 0, fb[c] \notin doomed,
                        ~ \E h \in Handles : Synced[h].typed /\ Synced[h].of = fb[c]
                 PROVE  \E p \in Parking : p.typed /\ p.of = fb[c]
      BY DEF Drawn, Kept
    <2>1. CASE \E h \in Handles : map[h].typed /\ map[h].of = fb[c]
      <3> PICK h \in Handles : map[h].typed /\ map[h].of = fb[c]
        BY <2>1
      <3>1. h \in condemned
        BY <1>2
      <3>2. map[h] \in Parking
        BY <3>1, <1>5 DEF Parking
      <3> QED BY <3>2
    <2>2. CASE \E p \in parked : p.typed /\ p.of = fb[c]
      BY <2>2, <1>5 DEF Parking
    <2> QED BY <2>1, <2>2 DEF Kept, Drawn
  <1>10. \A h \in Handles : table[h] = 0 => Synced[h] = NoSlot
    BY <1>2 DEF Kept, Apart, Named
  <1> QED BY <1>6, <1>7, <1>8, <1>9, <1>10 DEF Apart

\* sweep_condemned, or Context::destroy's: some textures, none of them drawn into by
\* bound, are deleted, and the other parked ones stay doomed.
LEMMA SweepKeeps ==
  ASSUME NEW t, NEW d, NEW m, NEW cond, NEW park, NEW doom, NEW del, NEW n, NEW bound,
         Apart(t, d, m, cond, park, doom, del, n),
         Drawn(bound, m, park, doom),
         NEW gone \in SUBSET (doom \cup Textures(park)), \A c \in Ctxs : bound[c] \notin gone
  PROVE  /\ Apart(t, d, m, cond, {}, (doom \cup Textures(park)) \ gone, del \cup gone, n)
         /\ Drawn(bound, m, {}, (doom \cup Textures(park)) \ gone)
  <1> DEFINE left == (doom \cup Textures(park)) \ gone
             dead == del \cup gone
  <1>1. \A r : r \in Textures(park) <=> \E p \in park : p.typed /\ p.of = r
    BY DEF Textures
  <1>2. \A p \in park : p.of \in 1..n
    BY DEF Apart, Shaped
  <1>3. Shaped(t, d, m, {}, left, dead, n)
    <2>1. Shaped(t, d, m, park, doom, del, n)
      BY DEF Apart
    <2>2. Textures(park) \in SUBSET (1..n)
      BY <1>1, <1>2
    <2>3. left \in SUBSET (1..n) /\ dead \in SUBSET (1..n)
      BY <2>1, <2>2 DEF Shaped
    <2> QED BY <2>1, <2>3 DEF Shaped
  <1>4. Named(t, d, m, cond)
    BY DEF Apart
  <1>5. \A r \in left \cup dead : r \in doom \/ r \in del \/ \E p \in park : p.of = r
    BY <1>1
  <1>6. \A r \in left : r \notin dead
    BY <1>1 DEF Apart, LetGo
  <1>7. LetGo(t, d, m, cond, {}, left, dead)
    BY <1>5, <1>6 DEF Apart, LetGo
  <1>8. Drawn(bound, m, {}, left)
    BY <1>1 DEF Drawn
  <1> HIDE DEF left, dead
  <1>9. Apart(t, d, m, cond, {}, left, dead, n) /\ Drawn(bound, m, {}, left)
    BY <1>3, <1>4, <1>7, <1>8 DEF Apart
  <1> QED BY <1>9 DEF left, dead

\* What Sweep leaves, of a map its caller then changes.
LEMMA Sweeping ==
  ASSUME Kept, NEW also, NEW m, SweepAnd(also, m)
  PROVE  \E doom, del :
           /\ doomed' = doom /\ deleted' = del \cup also
           /\ Apart(table, described, Synced, {}, {}, doom, del, made)
           /\ Drawn(fb, Synced, {}, doom)
           /\ \A h \in Handles : table[h] = 0 => Synced[h] = NoSlot
           /\ condemned' = {} /\ map' = m /\ parked' = {}
  <1>1. Swept \in SUBSET (doomed \cup Textures(Parking))
    BY DEF Swept, Asked
  <1>2. \A c \in Ctxs : fb[c] \notin Swept
    BY DEF Swept, HeldBy
  <1>3. Textures({}) = {}
    BY DEF Textures
  <1>4. doomed \cup Asked = doomed \cup Textures(Parking)
    BY <1>3 DEF Asked
  <1>5. doomed' = (doomed \cup Textures(Parking)) \ Swept /\ deleted' = (deleted \cup Swept) \cup also
    BY <1>4 DEF SweepAnd
  <1>6. /\ Apart(table, described, Synced, {}, {}, (doomed \cup Textures(Parking)) \ Swept, deleted \cup Swept, made)
        /\ Drawn(fb, Synced, {}, (doomed \cup Textures(Parking)) \ Swept)
    BY <1>1, <1>2, SyncKeeps, SweepKeeps
  <1> QED BY <1>5, <1>6, SyncKeeps DEF SweepAnd

-----------------------------------------------------------------------------
(* What an operation then changes                                          *)

Fresh(r, t, d, m, park, doom, del) ==
  /\ \A h \in Handles : t[h] # r /\ m[h].of # r
  /\ \A c \in Ctxs : d[c] # r
  /\ \A p \in park : p.of # r
  /\ r \notin doom /\ r \notin del

\* A resource is made.
LEMMA Growing ==
  ASSUME NEW t, NEW d, NEW m, NEW cond, NEW park, NEW doom, NEW del, NEW n,
         Apart(t, d, m, cond, park, doom, del, n)
  PROVE  /\ Apart(t, d, m, cond, park, doom, del, n + 1)
         /\ Fresh(n + 1, t, d, m, park, doom, del) /\ n + 1 \in 1..(n + 1)
  <1>1. Shaped(t, d, m, park, doom, del, n)
    BY DEF Apart
  <1>2. n \in Nat /\ 0..n \in SUBSET (0..(n + 1)) /\ 1..n \in SUBSET (1..(n + 1)) /\ n + 1 \notin 0..n
        /\ n + 1 \notin 1..n /\ n + 1 \in 1..(n + 1)
    BY <1>1 DEF Shaped
  <1>3. /\ \A h \in Handles : m[h] \in [of : 0..n, typed : BOOLEAN] /\ t[h] \in 0..n
        /\ \A c \in Ctxs : d[c] \in 0..n
        /\ \A p \in park : p \in [of : 1..n, typed : BOOLEAN]
    BY <1>1 DEF Shaped
  <1>4. Fresh(n + 1, t, d, m, park, doom, del)
    BY <1>1, <1>2, <1>3 DEF Shaped, Fresh
  <1>5. [of : 0..n, typed : BOOLEAN] \in SUBSET [of : 0..(n + 1), typed : BOOLEAN]
        /\ [of : 1..n, typed : BOOLEAN] \in SUBSET [of : 1..(n + 1), typed : BOOLEAN]
    BY <1>2
  <1>6. Shaped(t, d, m, park, doom, del, n + 1)
    BY <1>1, <1>2, <1>3, <1>5 DEF Shaped
  <1> QED BY <1>2, <1>4, <1>6 DEF Apart

\* It is filed under a handle that is free, with a texture...
LEMMA Placing ==
  ASSUME NEW t, NEW d, NEW m, NEW doom, NEW del, NEW n, NEW h \in Handles, NEW r \in 1..n,
         Apart(t, d, m, {}, {}, doom, del, n), Fresh(r, t, d, m, {}, doom, del),
         t[h] = 0, m[h] = NoSlot
  PROVE  Apart([t EXCEPT ![h] = r], d, [m EXCEPT ![h] = [of |-> r, typed |-> TRUE]], {}, {}, doom,
               del, n)
  <1> DEFINE t2 == [t EXCEPT ![h] = r]
             s  == [of |-> r, typed |-> TRUE]
             m2 == [m EXCEPT ![h] = s]
  <1>1. Shaped(t, d, m, {}, doom, del, n)
    BY DEF Apart
  <1>2. /\ \A k \in Handles : t2[k] = IF k = h THEN r ELSE t[k]
        /\ \A k \in Handles : m2[k] = IF k = h THEN s ELSE m[k]
    BY <1>1 DEF Shaped
  <1>3. s.of = r /\ s \in [of : 0..n, typed : BOOLEAN] /\ r # 0 /\ n \in Nat /\ NoSlot.of = 0
    BY <1>1 DEF Shaped, NoSlot
  <1>4. Shaped(t2, d, m2, {}, doom, del, n)
    BY <1>1, <1>3 DEF Shaped
  <1> HIDE DEF t2, m2, s
  <1>5. Named(t2, d, m2, {})
    BY <1>2, <1>3 DEF Apart, Named, Fresh
  <1>6. LetGo(t2, d, m2, {}, {}, doom, del)
    BY <1>2, <1>3 DEF Apart, LetGo, Fresh
  <1> QED BY <1>4, <1>5, <1>6 DEF Apart, t2, m2, s

\* ...or without one.
LEMMA Filing ==
  ASSUME NEW t, NEW d, NEW m, NEW cond, NEW park, NEW doom, NEW del, NEW n, NEW h \in Handles,
         NEW r \in 1..n,
         Apart(t, d, m, cond, park, doom, del, n), Fresh(r, t, d, m, park, doom, del),
         t[h] = 0
  PROVE  Apart([t EXCEPT ![h] = r], d, m, cond, park, doom, del, n)
  <1> DEFINE t2 == [t EXCEPT ![h] = r]
  <1>1. Shaped(t, d, m, park, doom, del, n)
    BY DEF Apart
  <1>2. \A k \in Handles : t2[k] = IF k = h THEN r ELSE t[k]
    BY <1>1 DEF Shaped
  <1>3. r # 0 /\ n \in Nat /\ NoSlot.of = 0
    BY <1>1 DEF Shaped, NoSlot
  <1>4. Shaped(t2, d, m, park, doom, del, n)
    BY <1>1 DEF Shaped
  <1> HIDE DEF t2
  <1>5. Named(t2, d, m, cond)
    BY <1>2, <1>3 DEF Apart, Named, Fresh
  <1>6. LetGo(t2, d, m, cond, park, doom, del)
    BY <1>2, <1>3 DEF Apart, LetGo, Fresh
  <1> QED BY <1>4, <1>5, <1>6 DEF Apart, t2

\* A context's description of one is claimed or gone.
LEMMA Undescribing ==
  ASSUME NEW t, NEW d, NEW m, NEW doom, NEW del, NEW n,
         Apart(t, d, m, {}, {}, doom, del, n),
         NEW e \in [Ctxs -> 0..n], \A c \in Ctxs : e[c] = 0 \/ e[c] = d[c]
  PROVE  /\ Apart(t, e, m, {}, {}, doom, del, n)
         /\ \A c \in Ctxs : d[c] # 0 /\ e[c] = 0 => Fresh(d[c], t, e, m, {}, doom, del)
  <1>1. Shaped(t, d, m, {}, doom, del, n)
    BY DEF Apart
  <1>2. 0 \notin doom /\ 0 \notin del
    BY <1>1 DEF Shaped
  <1>3. Shaped(t, e, m, {}, doom, del, n)
    BY <1>1 DEF Shaped
  <1>4. Named(t, e, m, {})
    BY DEF Apart, Named
  <1>5. LetGo(t, e, m, {}, {}, doom, del)
    BY <1>2 DEF Apart, LetGo
  <1>6. ASSUME NEW c \in Ctxs, d[c] # 0, e[c] = 0
        PROVE  Fresh(d[c], t, e, m, {}, doom, del)
    <2>1. \A h \in Handles : t[h] # d[c] /\ m[h].of # d[c]
      <3>1. NoSlot.of = 0
        BY DEF NoSlot
      <3>2. \A h \in Handles : t[h] # d[c] /\ (m[h] = NoSlot \/ m[h].of = t[h])
        BY <1>6 DEF Apart, Named
      <3> QED BY <3>1, <3>2, <1>6
    <2>2. \A b \in Ctxs : e[b] # d[c]
      BY <1>6 DEF Apart, Named
    <2>3. d[c] \notin doom /\ d[c] \notin del
      BY DEF Apart, LetGo
    <2> QED BY <2>1, <2>2, <2>3 DEF Fresh
  <1> QED BY <1>3, <1>4, <1>5, <1>6 DEF Apart

\* What nobody claimed is deleted.
LEMMA Deleting ==
  ASSUME NEW t, NEW d, NEW m, NEW doom, NEW del, NEW n,
         Apart(t, d, m, {}, {}, doom, del, n),
         NEW also \in SUBSET (1..n), \A r \in also : Fresh(r, t, d, m, {}, doom, del)
  PROVE  Apart(t, d, m, {}, {}, doom, del \cup also, n)
  <1>1. Shaped(t, d, m, {}, doom, del, n)
    BY DEF Apart
  <1>2. Shaped(t, d, m, {}, doom, del \cup also, n)
    BY <1>1 DEF Shaped
  <1>3. LetGo(t, d, m, {}, {}, doom, del \cup also)
    BY DEF Apart, LetGo, Fresh
  <1> QED BY <1>2, <1>3 DEF Apart
-----------------------------------------------------------------------------
(* Each operation                                                          *)

\* What Sweep leaves its caller, whose map is m.
Left(m, doom, del) ==
  /\ condemned' = {} /\ map' = m /\ parked' = {} /\ doomed' = doom /\ deleted' = del
  /\ Apart(table, described, Synced, {}, {}, doom, del, made)
  /\ Drawn(fb, Synced, {}, doom)
  /\ \A h \in Handles : table[h] = 0 => Synced[h] = NoSlot
  /\ \A h \in Handles : Synced[h] \in [of : Nat, typed : BOOLEAN]

LEMMA Swept1 ==
  ASSUME Kept, NEW m, Sweep(m)
  PROVE  \E doom, del : Left(m, doom, del)
  <1> PICK doom, del :
         /\ doomed' = doom /\ deleted' = del \cup {}
         /\ Apart(table, described, Synced, {}, {}, doom, del, made)
         /\ Drawn(fb, Synced, {}, doom)
         /\ \A h \in Handles : table[h] = 0 => Synced[h] = NoSlot
         /\ condemned' = {} /\ map' = m /\ parked' = {}
    BY Sweeping DEF Sweep
  <1>1. \A h \in Handles : Synced[h] \in [of : Nat, typed : BOOLEAN]
    BY DEF Apart, Shaped
  <1>2. Left(m, doom, del)
    BY <1>1 DEF Left
  <1> QED BY <1>2

\* A texture more owned, nothing drawn into is lost.
LEMMA DrawnStill ==
  ASSUME NEW m, NEW doom, NEW h \in Handles, NEW r, Drawn(fb, m, {}, doom),
         m \in [Handles -> [of : Nat, typed : BOOLEAN]],
         m[h] = NoSlot \/ m[h].of = r
  PROVE  Drawn(fb, [m EXCEPT ![h] = [of |-> r, typed |-> TRUE]], {}, doom)
  <1> DEFINE m2 == [m EXCEPT ![h] = [of |-> r, typed |-> TRUE]]
  <1>1. \A k \in Handles : m2[k] = IF k = h THEN [of |-> r, typed |-> TRUE] ELSE m[k]
    OBVIOUS
  <1>2. NoSlot.typed = FALSE
    BY DEF NoSlot
  <1>3. \A k \in Handles : m[k].typed => m2[k].typed /\ m2[k].of = m[k].of
    BY <1>1, <1>2
  <1> HIDE DEF m2
  <1>4. Drawn(fb, m2, {}, doom)
    BY <1>3 DEF Drawn
  <1> QED BY <1>4 DEF m2

LEMMA CreateKeeps ==
  ASSUME Kept, NEW h \in Handles, Create(h)
  PROVE  Kept'
  <1> DEFINE m2 == [Synced EXCEPT ![h] = [of |-> made + 1, typed |-> TRUE]]
             t2 == [table EXCEPT ![h] = made + 1]
  <1> PICK doom, del : Left(m2, doom, del)
    BY Swept1 DEF Create
  <1>1. /\ table[h] = 0 /\ table' = t2 /\ made' = made + 1
        /\ described' = described /\ fb' = fb /\ Synced[h] = NoSlot
    BY DEF Create, Free, File, ctxVars, Left
  <1>2. ~asserted'
    BY <1>1 DEF Create, Kept
  <1>3. Apart(t2, described, m2, {}, {}, doom, del, made + 1)
    BY <1>1, Growing, Placing DEF Left
  <1>4. Synced \in [Handles -> [of : Nat, typed : BOOLEAN]]
    BY DEF Left, Apart, Shaped
  <1>5. Drawn(fb, m2, {}, doom)
    BY <1>1, <1>4, DrawnStill DEF Left
  <1> HIDE DEF m2, t2
  <1> QED BY <1>1, <1>2, <1>3, <1>5 DEF Kept, Left

\* A sweep and nothing else that the invariant is about.
LEMMA OnlySweepKeeps ==
  ASSUME Kept, Sweep(Synced), table' = table, described' = described, made' = made, ~asserted',
         fb' \in [Ctxs -> Nat],
         \A c \in Ctxs : \/ fb'[c] = fb[c] \/ fb'[c] = 0
                         \/ \E h \in Handles : Synced[h].typed /\ Synced[h].of = fb'[c]
  PROVE  Kept'
  <1> PICK doom, del : Left(Synced, doom, del)
    BY Swept1
  <1>1. Drawn(fb', Synced, {}, doom)
    BY DEF Left, Drawn
  <1> QED BY <1>1 DEF Kept, Left

LEMMA Bounds ==
  ASSUME Kept
  PROVE  fb \in [Ctxs -> Nat] /\ described \in [Ctxs -> 0..made] /\ made \in Nat
  BY DEF Kept, Drawn, Apart, Shaped

LEMMA CreateRefusedKeeps ==
  ASSUME Kept, NEW h \in Handles, CreateRefused(h)
  PROVE  Kept'
  <1>1. ~asserted'
    BY SyncKeeps DEF CreateRefused, Free, Kept
  <1>2. table' = table /\ described' = described /\ made' = made /\ fb' = fb /\ Sweep(Synced)
    BY DEF CreateRefused, tableVars, ctxVars
  <1> QED BY <1>1, <1>2, Bounds, OnlySweepKeeps

LEMMA CreateBlobKeeps ==
  ASSUME Kept, NEW h \in Handles, CreateBlob(h)
  PROVE  Kept'
  <1>1. /\ table[h] = 0 /\ table' = [table EXCEPT ![h] = made + 1] /\ made' = made + 1
        /\ UNCHANGED <<described, map, condemned, parked, doomed, deleted, fb, asserted>>
    BY DEF CreateBlob, Free, File, slotVars, storageVars, ctxVars
  <1>2. Apart(table', described, map, condemned, parked, doomed, deleted, made + 1)
    BY <1>1, Growing, Filing DEF Kept
  <1> QED BY <1>1, <1>2 DEF Kept

LEMMA ClaimKeeps ==
  ASSUME Kept, NEW h \in Handles, NEW c \in Ctxs, Claim(h, c)
  PROVE  Kept'
  <1> DEFINE r  == described[c]
             m2 == [Synced EXCEPT ![h] = [of |-> r, typed |-> TRUE]]
             t2 == [table EXCEPT ![h] = r]
             e  == [described EXCEPT ![c] = 0]
  <1> PICK doom, del : Left(m2, doom, del)
    BY Swept1 DEF Claim
  <1>1. /\ table[h] = 0 /\ table' = t2 /\ made' = made /\ r # 0 /\ r \in 1..made
        /\ described' = e /\ fb' = fb /\ Synced[h] = NoSlot
    BY Bounds DEF Claim, Free, ctxVars, Left
  <1>2. ~asserted'
    BY <1>1 DEF Claim, Kept
  <1>3. e \in [Ctxs -> 0..made] /\ e[c] = 0 /\ \A b \in Ctxs : e[b] = 0 \/ e[b] = described[b]
    BY Bounds
  <1>4. Synced \in [Handles -> [of : Nat, typed : BOOLEAN]]
    BY DEF Left, Apart, Shaped
  <1>5. Drawn(fb, m2, {}, doom)
    BY <1>1, <1>4, DrawnStill DEF Left
  <1>6. /\ Apart(table, described, Synced, {}, {}, doom, del, made)
    BY DEF Left
  <1> HIDE DEF e
  <1>7. /\ Apart(table, e, Synced, {}, {}, doom, del, made)
        /\ Fresh(r, table, e, Synced, {}, doom, del)
    BY <1>1, <1>3, <1>6, Undescribing
  <1>8. Apart(t2, e, m2, {}, {}, doom, del, made)
    BY <1>1, <1>7, Placing
  <1> HIDE DEF m2, t2, r
  <1> QED BY <1>1, <1>2, <1>5, <1>8 DEF Kept, Left
LEMMA ClaimRefusedKeeps ==
  ASSUME Kept, NEW h \in Handles, NEW c \in Ctxs, ClaimRefused(h, c)
  PROVE  Kept'
  <1> DEFINE r == described[c]
             e == [described EXCEPT ![c] = 0]
  <1> PICK doom, del :
         /\ doomed' = doom /\ deleted' = del \cup {r}
         /\ Apart(table, described, Synced, {}, {}, doom, del, made)
         /\ Drawn(fb, Synced, {}, doom)
         /\ \A k \in Handles : table[k] = 0 => Synced[k] = NoSlot
         /\ condemned' = {} /\ map' = Synced /\ parked' = {}
    BY Sweeping DEF ClaimRefused
  <1>1. /\ table[h] = 0 /\ table' = table /\ made' = made /\ r # 0 /\ r \in 1..made
        /\ described' = e /\ fb' = fb /\ Synced[h] = NoSlot
    BY Bounds DEF ClaimRefused, Free, tableVars
  <1>2. e \in [Ctxs -> 0..made] /\ e[c] = 0 /\ \A b \in Ctxs : e[b] = 0 \/ e[b] = described[b]
    BY Bounds
  <1>3. Fresh(r, table, e, Synced, {}, doom, del) /\ Apart(table, e, Synced, {}, {}, doom, del, made)
    BY <1>1, <1>2, Undescribing
  <1>4. ~HeldBy(fb, r)
    BY <1>1, <1>3 DEF HeldBy, Fresh, Drawn
  <1>5. ~asserted'
    BY <1>1, <1>4 DEF ClaimRefused, Kept
  <1>6. Apart(table, e, Synced, {}, {}, doom, del \cup {r}, made)
    <2>1. {r} \in SUBSET (1..made) /\ \A x \in {r} : Fresh(x, table, e, Synced, {}, doom, del)
      BY <1>1, <1>3
    <2> QED BY <1>3, <2>1, Deleting
  <1> HIDE DEF r, e
  <1> QED BY <1>1, <1>5, <1>6 DEF Kept

LEMMA UnrefKeeps ==
  ASSUME Kept, NEW h \in Handles, Unref(h)
  PROVE  Kept'
  <1> DEFINE t2 == [table EXCEPT ![h] = 0]
  <1>1. /\ table' = t2 /\ condemned' = condemned \cup {h}
        /\ UNCHANGED <<described, map, made, parked, doomed, deleted, fb, asserted>>
    BY DEF Unref, storageVars, ctxVars
  <1>2. Shaped(table, described, map, parked, doomed, deleted, made)
    BY DEF Kept, Apart
  <1>3. \A k \in Handles : t2[k] = IF k = h THEN 0 ELSE table[k]
    BY <1>2 DEF Shaped
  <1>4. Shaped(t2, described, map, parked, doomed, deleted, made)
    BY <1>2 DEF Shaped
  <1> HIDE DEF t2
  <1>5. Named(t2, described, map, condemned \cup {h})
    BY <1>3 DEF Kept, Apart, Named
  <1>6. \A k \in Handles : map[h].of = table[k] => k = h \/ table[k] = 0
    <2>1. NoSlot.of = 0
      BY DEF NoSlot
    <2>2. CASE h \in condemned
      BY <2>2 DEF Kept, Apart, LetGo
    <2>3. CASE h \notin condemned
      BY <2>1, <2>3 DEF Kept, Apart, Named
    <2> QED BY <2>2, <2>3
  <1>7. \A c \in Ctxs : map[h].of = described[c] => described[c] = 0
    <2>1. NoSlot.of = 0
      BY DEF NoSlot
    <2>2. CASE h \in condemned
      BY <2>2 DEF Kept, Apart, LetGo
    <2>3. CASE h \notin condemned
      BY <2>1, <2>3 DEF Kept, Apart, Named
    <2> QED BY <2>2, <2>3
  <1>8. LetGo(t2, described, map, condemned \cup {h}, parked, doomed, deleted)
    <2>1. 0 \notin doomed /\ 0 \notin deleted /\ \A p \in parked : p.of # 0
      BY <1>2 DEF Shaped
    <2> QED BY <1>3, <1>6, <1>7, <2>1 DEF Kept, Apart, LetGo
  <1> QED BY <1>1, <1>4, <1>5, <1>8 DEF Kept, Apart

LEMMA LookKeeps ==
  ASSUME Kept, Look
  PROVE  Kept'
  BY SyncKeeps DEF Look, Sync, Kept, tableVars, storageVars, ctxVars

LEMMA AttachKeeps ==
  ASSUME Kept, NEW h \in Handles, NEW c \in Ctxs, Attach(c, h)
  PROVE  Kept'
  <1>1. /\ UNCHANGED <<table, described, made, doomed, deleted, fb, asserted>>
        /\ table[h] # 0
    BY DEF Attach, storageVars, ctxVars
  <1>2. CASE table[h] \notin blobs
    BY <1>1, <1>2 DEF Attach, Kept, slotVars
  <1>3. CASE table[h] \in blobs
    <2> DEFINE m2 == [Synced EXCEPT ![h] = Attachment(h)]
    <2>1. condemned' = {} /\ map' = m2 /\ parked' = Parking
      BY <1>3 DEF Attach, Sync
    <2>2. Shaped(table, described, Synced, Parking, doomed, deleted, made)
      BY SyncKeeps DEF Apart
    <2>3. \A k \in Handles : m2[k] = IF k = h THEN Attachment(h) ELSE Synced[k]
      BY <2>2 DEF Shaped
    <2>4. Attachment(h) \in [of : 0..made, typed : BOOLEAN]
      BY <2>2 DEF Attachment, Shaped
    <2>5. Shaped(table, described, m2, Parking, doomed, deleted, made)
      BY <2>2, <2>4 DEF Shaped
    <2>6. Attachment(h).of = table[h]
      <3>1. Synced[h] = NoSlot \/ Synced[h].of = table[h]
        BY SyncKeeps DEF Apart, Named
      <3> QED BY <3>1 DEF Attachment
    <2>7. \A k \in Handles : k # h => Synced[k].of # table[h]
      <3> SUFFICES ASSUME NEW k \in Handles, k # h, Synced[k].of = table[h]
                   PROVE  FALSE
        OBVIOUS
      <3>1. NoSlot.of = 0 /\ (Synced[k] = NoSlot \/ Synced[k].of = table[k])
        BY SyncKeeps DEF Apart, Named, NoSlot
      <3>2. table[k] = table[h] => k = h
        BY <1>1, SyncKeeps DEF Apart, Named
      <3> QED BY <1>1, <3>1, <3>2
    <2> HIDE DEF m2
    <2>8. Named(table, described, m2, {})
      BY <1>1, <2>3, <2>6, <2>7, SyncKeeps DEF Apart, Named
    <2>9. LetGo(table, described, m2, {}, Parking, doomed, deleted)
      <3>1. LetGo(table, described, Synced, {}, Parking, doomed, deleted)
        BY SyncKeeps DEF Apart
      <3> QED BY <2>3, <2>6, <3>1 DEF LetGo
    <2>10. Drawn(fb, m2, Parking, doomed)
      <3>1. \A k \in Handles : Synced[k].typed => m2[k] = Synced[k]
        BY <2>3 DEF Attachment, NoSlot
      <3> QED BY <3>1, SyncKeeps DEF Drawn
    <2> QED BY <1>1, <2>1, <2>5, <2>8, <2>9, <2>10 DEF Kept, Apart
  <1> QED BY <1>2, <1>3

LEMMA DetachKeeps ==
  ASSUME Kept, NEW h \in Handles, NEW c \in Ctxs, Detach(c, h)
  PROVE  Kept'
  BY DEF Detach, Kept, slotVars, storageVars, ctxVars

LEMMA ContextCreateKeeps ==
  ASSUME Kept, NEW c \in Ctxs, ContextCreate(c)
  PROVE  Kept'
  <1>1. /\ UNCHANGED <<table, described, made, fb, asserted>> /\ Sweep(Synced)
    BY DEF ContextCreate, tableVars
  <1> QED BY <1>1, Bounds, OnlySweepKeeps DEF Kept

LEMMA DescribeKeeps ==
  ASSUME Kept, NEW c \in Ctxs, Describe(c)
  PROVE  Kept'
  <1> DEFINE e == [described EXCEPT ![c] = made + 1]
  <1> PICK doom, del : Left(Synced, doom, del)
    BY Swept1 DEF Describe
  <1>1. /\ described[c] = 0 /\ described' = e /\ made' = made + 1
        /\ UNCHANGED <<table, fb, asserted>>
    BY DEF Describe, tableVars
  <1>2. /\ Apart(table, described, Synced, {}, {}, doom, del, made + 1)
        /\ Fresh(made + 1, table, described, Synced, {}, doom, del)
        /\ made + 1 \in 1..(made + 1) /\ made + 1 # 0
    BY Growing, Bounds DEF Left
  <1>3. Shaped(table, described, Synced, {}, doom, del, made + 1)
    BY <1>2 DEF Apart
  <1>4. \A b \in Ctxs : e[b] = IF b = c THEN made + 1 ELSE described[b]
    BY Bounds
  <1>5. Shaped(table, e, Synced, {}, doom, del, made + 1)
    BY <1>2, <1>3 DEF Shaped
  <1> HIDE DEF e
  <1>6. Named(table, e, Synced, {})
    BY <1>2, <1>4 DEF Apart, Named, Fresh
  <1>7. LetGo(table, e, Synced, {}, {}, doom, del)
    BY <1>2, <1>4 DEF Apart, LetGo, Fresh
  <1> QED BY <1>1, <1>5, <1>6, <1>7 DEF Kept, Apart, Left

LEMMA SetTypeKeeps ==
  ASSUME Kept, NEW h \in Handles, NEW c \in Ctxs, SetType(c, h)
  PROVE  Kept'
  <1> DEFINE s  == Synced[h]
             m2 == [Synced EXCEPT ![h] = [of |-> s.of, typed |-> TRUE]]
  <1> PICK doom, del : Left(m2, doom, del)
    BY Swept1 DEF SetType
  <1>1. UNCHANGED <<table, described, made, fb, asserted>> /\ s # NoSlot
    BY DEF SetType, Reaches, tableVars, ctxVars
  <1>2. Shaped(table, described, Synced, {}, doom, del, made)
    BY DEF Left, Apart
  <1>3. s \in [of : 0..made, typed : BOOLEAN]
    BY <1>2 DEF Shaped
  <1>4. \A k \in Handles : m2[k] = IF k = h THEN [of |-> s.of, typed |-> TRUE] ELSE Synced[k]
    BY <1>2 DEF Shaped
  <1>5. Shaped(table, described, m2, {}, doom, del, made)
    BY <1>2, <1>3 DEF Shaped
  <1>7. Drawn(fb, m2, {}, doom)
    <2>1. Synced \in [Handles -> [of : Nat, typed : BOOLEAN]]
      BY <1>2 DEF Shaped
    <2> QED BY <2>1, DrawnStill DEF Left
  <1>8. s.of # 0 /\ s.of = table[h]
    BY <1>1 DEF Left, Apart, Named
  <1> HIDE DEF m2
  <1>9. \A k \in Handles : m2[k].of = Synced[k].of
    <2>1. ASSUME NEW k \in Handles PROVE m2[k].of = Synced[k].of
      <3>1. CASE k = h
        BY <1>4, <3>1
      <3>2. CASE k # h
        BY <1>4, <3>2
      <3> QED BY <3>1, <3>2
    <2> QED BY <2>1
  <1> HIDE DEF s
  <1>10. Named(table, described, m2, {})
    <2>1. \A k \in Handles : m2[k].of = 0 => m2[k] = NoSlot
      BY <1>4, <1>8 DEF Left, Apart, Named
    <2>2. \A k \in Handles : m2[k] = NoSlot \/ m2[k].of = table[k]
      BY <1>4, <1>8 DEF Left, Apart, Named
    <2> QED BY <1>9, <2>1, <2>2 DEF Left, Apart, Named
  <1>11. LetGo(table, described, m2, {}, {}, doom, del)
    BY <1>9 DEF Left, Apart, LetGo
  <1> QED BY <1>1, <1>5, <1>7, <1>10, <1>11 DEF Kept, Apart, Left

LEMMA BindKeeps ==
  ASSUME Kept, NEW h \in Handles, NEW c \in Ctxs, Bind(c, h)
  PROVE  Kept'
  <1>1. /\ UNCHANGED <<table, described, made, asserted>> /\ Sweep(Synced)
        /\ Synced[h].typed /\ fb' = [fb EXCEPT ![c] = Synced[h].of]
    BY DEF Bind, tableVars
  <1>2. Synced[h].of \in Nat
    BY SyncKeeps DEF Apart, Shaped
  <1>3. fb' \in [Ctxs -> Nat]
    BY <1>1, <1>2, Bounds
  <1>4. \A b \in Ctxs : fb'[b] = fb[b] \/ fb'[b] = Synced[h].of
    BY <1>1, Bounds
  <1> QED BY <1>1, <1>3, <1>4, OnlySweepKeeps DEF Kept

LEMMA UnbindKeeps ==
  ASSUME Kept, NEW c \in Ctxs, Unbind(c)
  PROVE  Kept'
  <1>1. /\ UNCHANGED <<table, described, made, asserted>> /\ Sweep(Synced)
        /\ fb' = [fb EXCEPT ![c] = 0]
    BY DEF Unbind, tableVars
  <1>2. fb' \in [Ctxs -> Nat] /\ \A b \in Ctxs : fb'[b] = fb[b] \/ fb'[b] = 0
    BY <1>1, Bounds
  <1> QED BY <1>1, <1>2, OnlySweepKeeps DEF Kept
\* Contexts go: their framebuffers let go, what they described goes.
LEMMA DestroyLeaves ==
  ASSUME Kept, NEW cs \in SUBSET Ctxs, Destroy(cs)
  PROVE  /\ Apart(table, described', map', {}, {}, doomed', deleted', made)
         /\ Drawn(fb', map', {}, doomed') /\ map' = Synced /\ parked' = {}
  <1> DEFINE left == [c \in Ctxs |-> IF c \in cs THEN 0 ELSE fb[c]]
             waiting == doomed \cup Textures(Parking)
             gone == {t \in waiting : ~HeldBy(left, t)}
             e == [c \in Ctxs |-> IF c \in cs THEN 0 ELSE described[c]]
             also == {described[c] : c \in cs} \ {0}
  <1>1. /\ fb' = left /\ described' = e /\ map' = Synced /\ parked' = {}
        /\ deleted' = (deleted \cup gone) \cup also /\ doomed' = waiting \ gone
    BY DEF Destroy
  <1>2. gone \in SUBSET (doomed \cup Textures(Parking)) /\ \A c \in Ctxs : left[c] \notin gone
    BY DEF HeldBy
  <1>3. left \in [Ctxs -> Nat] /\ \A c \in Ctxs : left[c] = 0 \/ left[c] = fb[c]
    BY Bounds
  <1>4. Drawn(left, Synced, Parking, doomed)
    BY <1>3, SyncKeeps DEF Drawn
  <1>5. /\ Apart(table, described, Synced, {}, {}, waiting \ gone, deleted \cup gone, made)
        /\ Drawn(left, Synced, {}, waiting \ gone)
    BY <1>2, <1>4, SyncKeeps, SweepKeeps
  <1>6. e \in [Ctxs -> 0..made] /\ \A c \in Ctxs : e[c] = 0 \/ e[c] = described[c]
    BY Bounds
  <1>7. \A c \in cs : e[c] = 0
    OBVIOUS
  <1>8. \A r \in also : \E c \in Ctxs : described[c] = r /\ r # 0 /\ e[c] = 0 /\ r \in 1..made
    BY <1>7, Bounds
  <1> HIDE DEF left, waiting, gone, e, also
  <1>9. /\ Apart(table, e, Synced, {}, {}, waiting \ gone, deleted \cup gone, made)
        /\ \A c \in Ctxs : described[c] # 0 /\ e[c] = 0 =>
             Fresh(described[c], table, e, Synced, {}, waiting \ gone, deleted \cup gone)
    BY <1>5, <1>6, Undescribing
  <1>10. also \in SUBSET (1..made)
         /\ \A r \in also : Fresh(r, table, e, Synced, {}, waiting \ gone, deleted \cup gone)
    BY <1>8, <1>9
  <1>11. Apart(table, e, Synced, {}, {}, waiting \ gone, (deleted \cup gone) \cup also, made)
    BY <1>9, <1>10, Deleting
  <1> QED BY <1>1, <1>5, <1>11

LEMMA ContextDestroyKeeps ==
  ASSUME Kept, NEW c \in Ctxs, ContextDestroy(c)
  PROVE  Kept'
  <1>1. Destroy({c}) /\ {c} \in SUBSET Ctxs
    BY DEF ContextDestroy
  <1>2. UNCHANGED <<table, made, asserted>> /\ condemned' = {}
    BY DEF ContextDestroy
  <1> QED BY <1>1, <1>2, DestroyLeaves DEF Kept

LEMMA ResetKeeps ==
  ASSUME Kept, ctxs \subseteq Ctxs, Reset
  PROVE  Kept'
  <1> DEFINE t2 == [h \in Handles |-> 0]
             cond == {h \in Handles : table[h] # 0}
  <1>1. UNCHANGED <<made, asserted>> /\ condemned' = cond /\ table' = t2
    BY DEF Reset
  <1>2. /\ Apart(table, described', map', {}, {}, doomed', deleted', made)
        /\ Drawn(fb', map', {}, doomed') /\ parked' = {}
    BY DestroyLeaves DEF Reset
  <1>3. Shaped(table, described', map', {}, doomed', deleted', made)
    BY <1>2 DEF Apart
  <1>4. Shaped(t2, described', map', {}, doomed', deleted', made) /\ 0 \notin doomed' /\ 0 \notin deleted'
    BY <1>3 DEF Shaped
  <1>5. \A h \in Handles : t2[h] = 0
    OBVIOUS
  <1>6. \A h \in Handles : h \in cond <=> table[h] # 0
    OBVIOUS
  <1> HIDE DEF t2
  <1>7. Named(t2, described', map', cond)
    BY <1>2, <1>5 DEF Apart, Named
  <1>8. \A h \in Handles, c \in Ctxs : map'[h].of = described'[c] => described'[c] = 0
    <2>1. NoSlot.of = 0
      BY DEF NoSlot
    <2> QED BY <1>2, <2>1 DEF Apart, Named
  <1>9. LetGo(t2, described', map', cond, {}, doomed', deleted')
    BY <1>2, <1>4, <1>5, <1>8 DEF Apart, LetGo
  <1> QED BY <1>1, <1>2, <1>4, <1>7, <1>9 DEF Kept, Apart

-----------------------------------------------------------------------------
(* Every behaviour                                                         *)

LEMMA Starts == Init => Kept
  <1> SUFFICES ASSUME Init PROVE Kept
    OBVIOUS
  <1>1. /\ \A h \in Handles : table[h] = 0 /\ map[h] = NoSlot
        /\ \A c \in Ctxs : described[c] = 0 /\ fb[c] = 0
        /\ NoSlot.of = 0
    BY DEF Init, NoSlot
  <1>2. Shaped(table, described, map, parked, doomed, deleted, made)
    BY DEF Init, Shaped, NoSlot
  <1>3. Named(table, described, map, condemned)
    BY <1>1 DEF Named
  <1>4. LetGo(table, described, map, condemned, parked, doomed, deleted)
    BY <1>1 DEF Init, LetGo
  <1>5. Drawn(fb, map, parked, doomed)
    BY <1>1 DEF Init, Drawn
  <1> QED BY <1>2, <1>3, <1>4, <1>5 DEF Init, Kept, Apart

Living == ctxs \subseteq Ctxs

LEMMA LivingKept == /\ Init => Living
                    /\ Living /\ [Next]_vars => Living'
  <1>1. Init => Living
    BY DEF Init, Living
  <1>2. ASSUME Living, [Next]_vars PROVE Living'
    <2>1. \/ UNCHANGED ctxs
          \/ \E c \in Ctxs : ContextCreate(c) \/ ContextDestroy(c)
          \/ Reset
      BY <1>2 DEF Next, vars, ctxVars, Create, CreateRefused, CreateBlob, Claim, ClaimRefused, Unref,
        Look, Attach, Detach, Describe, SetType, Bind, Unbind
    <2> QED BY <1>2, <2>1 DEF ContextCreate, ContextDestroy, Reset, Destroy, Living
  <1> QED BY <1>1, <1>2

LEMMA StepKeeps == Kept /\ Living /\ [Next]_vars => Kept'
  <1> SUFFICES ASSUME Kept, Living, [Next]_vars PROVE Kept'
    OBVIOUS
  <1>1. CASE UNCHANGED vars
    BY <1>1 DEF vars, tableVars, slotVars, storageVars, ctxVars, Kept
  <1>2. CASE \E h \in Handles : Create(h) \/ CreateRefused(h) \/ CreateBlob(h) \/ Unref(h)
    BY <1>2, CreateKeeps, CreateRefusedKeeps, CreateBlobKeeps, UnrefKeeps
  <1>3. CASE \E c \in Ctxs, h \in Handles : \/ Claim(h, c) \/ ClaimRefused(h, c)
                                            \/ Attach(c, h) \/ Detach(c, h)
                                            \/ SetType(c, h) \/ Bind(c, h)
    BY <1>3, ClaimKeeps, ClaimRefusedKeeps, AttachKeeps, DetachKeeps, SetTypeKeeps, BindKeeps
  <1>4. CASE \E c \in Ctxs : ContextCreate(c) \/ Describe(c) \/ Unbind(c) \/ ContextDestroy(c)
    BY <1>4, ContextCreateKeeps, DescribeKeeps, UnbindKeeps, ContextDestroyKeeps
  <1>5. CASE Look
    BY <1>5, LookKeeps
  <1>6. CASE Reset
    BY <1>6, ResetKeeps DEF Living
  <1> QED BY <1>1, <1>2, <1>3, <1>4, <1>5, <1>6 DEF Next

LEMMA KeptReconciled == Kept => Reconciled
  <1> SUFFICES ASSUME Kept PROVE Reconciled
    OBVIOUS
  <1>1. \A h \in Handles : Synced[h] = NoSlot \/ Synced[h].of = table[h]
    BY SyncKeeps DEF Apart, Named
  <1> QED BY <1>1 DEF Kept, Reconciled

LEMMA KeptTextures == Kept => TexturesKept
  <1> SUFFICES ASSUME Kept PROVE TexturesKept
    OBVIOUS
  <1>1. \A r : r \in Owned <=> \/ \E h \in Handles : map[h].typed /\ map[h].of = r
                               \/ \E p \in parked : p.typed /\ p.of = r
    BY DEF Owned, Textures
  <1>2. NoSlot.typed = FALSE /\ NoSlot.of = 0
    BY DEF NoSlot
  <1>3. \A c \in Ctxs : fb[c] # 0 => fb[c] \in Owned \cup doomed
    BY <1>1 DEF Kept, Drawn
  <1>4. deleted \cap (Owned \cup doomed) = {} /\ Owned \cap doomed = {}
    BY <1>1 DEF Kept, Apart, LetGo
  <1>5. \A c \in Ctxs : described[c] \notin deleted \cup doomed
    BY DEF Kept, Apart, LetGo
  <1>6. ASSUME NEW c \in Ctxs, NEW h \in Handles, map[h].typed, map[h].of = described[c]
        PROVE  FALSE
    <2>1. map[h].of # 0
      BY <1>2, <1>6 DEF Kept, Apart, Named
    <2>2. CASE h \in condemned
      BY <1>6, <2>1, <2>2 DEF Kept, Apart, LetGo
    <2>3. CASE h \notin condemned
      <3>1. map[h].of = table[h]
        BY <1>2, <1>6, <2>3 DEF Kept, Apart, Named
      <3>2. table[h] = described[c] => table[h] = 0
        BY DEF Kept, Apart, Named
      <3> QED BY <1>6, <2>1, <3>1, <3>2
    <2> QED BY <2>2, <2>3
  <1>7. \A c \in Ctxs, p \in parked : p.of # described[c]
    BY DEF Kept, Apart, LetGo
  <1> QED BY <1>1, <1>3, <1>4, <1>5, <1>6, <1>7 DEF TexturesKept

\* Whatever was freed and made again under a handle, vrend finds there the resource the
\* renderer's entry is (vrend/resource.rs Slots::sync).
THEOREM ReconciledAlways == Spec => []Reconciled
  <1>1. Init => Kept /\ Living
    BY Starts, LivingKept
  <1>2. Kept /\ Living /\ [Next]_vars => Kept' /\ Living'
    BY StepKeeps, LivingKept
  <1>3. Kept => Reconciled
    BY KeptReconciled
  <1> QED BY <1>1, <1>2, <1>3, PTL DEF Spec

\* A texture a framebuffer draws into is never deleted, and none twice
\* (vrend/vrend.rs sweep_condemned).
THEOREM TexturesKeptAlways == Spec => []TexturesKept
  <1>1. Init => Kept /\ Living
    BY Starts, LivingKept
  <1>2. Kept /\ Living /\ [Next]_vars => Kept' /\ Living'
    BY StepKeeps, LivingKept
  <1>3. Kept => TexturesKept
    BY KeptTextures
  <1> QED BY <1>1, <1>2, <1>3, PTL DEF Spec
TypedStep ==
  \A h \in Handles : Synced[h].typed /\ table'[h] = table[h] => Synced'[h] = Synced[h]

LEMMA TypedKept == Kept /\ [Next]_vars => TypedStep
  <1> SUFFICES ASSUME Kept, [Next]_vars, NEW h \in Handles, Synced[h].typed, table'[h] = table[h]
               PROVE  Synced'[h] = Synced[h]
    BY DEF TypedStep
  <1>1. NoSlot.typed = FALSE /\ Synced[h] # NoSlot /\ table[h] # 0
    BY SyncKeeps DEF NoSlot
  <1>2. Synced \in [Handles -> [of : 0..made, typed : BOOLEAN]]
    BY SyncKeeps DEF Apart, Shaped
  <1>3. Synced'[h] = IF h \in condemned' THEN NoSlot ELSE map'[h]
    BY DEF Synced
  <1>4. CASE UNCHANGED <<condemned, map>>
    BY <1>4 DEF Synced
  <1>5. CASE condemned' = {} /\ map'[h] = Synced[h]
    BY <1>3, <1>5
  <1>6. ASSUME NEW k \in Handles, NEW s, table[k] = 0, Sweep([Synced EXCEPT ![k] = s])
        PROVE  condemned' = {} /\ map'[h] = Synced[h]
    BY <1>1, <1>2, <1>6 DEF Sweep, SweepAnd
  <1>7. CASE \E k \in Handles : Create(k)
    BY <1>5, <1>6, <1>7 DEF Create, Free
  <1>8. CASE \E k \in Handles, c \in Ctxs : Claim(k, c)
    BY <1>5, <1>6, <1>8 DEF Claim, Free
  <1>9. CASE \E k \in Handles : CreateRefused(k)
    BY <1>5, <1>9 DEF CreateRefused, Sweep, SweepAnd
  <1>10. CASE \E k \in Handles : CreateBlob(k)
    BY <1>4, <1>10 DEF CreateBlob, slotVars
  <1>11. CASE \E k \in Handles : Unref(k)
    <2> PICK k \in Handles : Unref(k)
      BY <1>11
    <2>1. table'[k] = 0 /\ map' = map /\ condemned' = condemned \cup {k}
      BY DEF Unref, Kept, Apart, Shaped
    <2>2. k # h
      BY <1>1, <2>1
    <2> QED BY <2>1, <2>2 DEF Synced
  <1>12. CASE \E k \in Handles, c \in Ctxs : ClaimRefused(k, c)
    BY <1>5, <1>12 DEF ClaimRefused, SweepAnd
  <1>13. CASE \E k \in Handles, c \in Ctxs : Attach(c, k)
    <2> PICK k \in Handles, c \in Ctxs : Attach(c, k)
      BY <1>13
    <2>1. CASE table[k] \in blobs
      <3>1. condemned' = {} /\ map' = [Synced EXCEPT ![k] = Attachment(k)]
        BY <2>1 DEF Attach, Sync
      <3>2. k = h => Attachment(k) = Synced[h]
        BY <1>1 DEF Attachment
      <3> QED BY <1>2, <1>5, <3>1, <3>2
    <2> QED BY <1>4, <2>1 DEF Attach, slotVars
  <1>14. CASE \E k \in Handles, c \in Ctxs : Detach(c, k)
    BY <1>4, <1>14 DEF Detach, slotVars
  <1>15. CASE \E k \in Handles, c \in Ctxs : SetType(c, k)
    <2> PICK k \in Handles, c \in Ctxs : SetType(c, k)
      BY <1>15
    <2>1. k # h
      BY DEF SetType
    <2> QED BY <1>2, <1>5, <2>1 DEF SetType, Sweep, SweepAnd
  <1>16. CASE \E k \in Handles, c \in Ctxs : Bind(c, k)
    BY <1>5, <1>16 DEF Bind, Sweep, SweepAnd
  <1>17. CASE \E c \in Ctxs : ContextCreate(c) \/ Describe(c) \/ Unbind(c)
    BY <1>5, <1>17 DEF ContextCreate, Describe, Unbind, Sweep, SweepAnd
  <1>18. CASE \E c \in Ctxs : ContextDestroy(c)
    BY <1>5, <1>18 DEF ContextDestroy, Destroy
  <1>19. CASE Look
    BY <1>5, <1>19 DEF Look, Sync
  <1>20. CASE Reset
    BY <1>1, <1>20 DEF Reset
  <1>21. CASE UNCHANGED vars
    BY <1>4, <1>21 DEF vars, slotVars
  <1> QED BY <1>7, <1>8, <1>9, <1>10, <1>11, <1>12, <1>13, <1>14, <1>15, <1>16, <1>17, <1>18,
             <1>19, <1>20, <1>21 DEF Next

\* What a context's command gave a type keeps it as long as its handle does
\* (vrend/vrend.rs resource_attach_blob).
THEOREM TypedStaysAlways == Spec => TypedStays
  <1>1. Init => Kept /\ Living
    BY Starts, LivingKept
  <1>2. Kept /\ Living /\ [Next]_vars => Kept' /\ Living'
    BY StepKeeps, LivingKept
  <1>3. Kept /\ [Next]_vars => [TypedStep]_vars
    BY TypedKept
  <1>4. TypedStays <=> [][TypedStep]_vars
    BY DEF TypedStays, TypedStep
  <1> QED BY <1>1, <1>2, <1>3, <1>4, PTL DEF Spec

-----------------------------------------------------------------------------
(* The types of what nothing above speaks of                               *)

\* No more resources than there may be, and blobs and attachments are of what there is.
Filed ==
  /\ made \in 0..MaxMade /\ blobs \in SUBSET (1..made)
  /\ attached \in [Handles -> SUBSET Ctxs] /\ asserted \in BOOLEAN

\* An assertion failed or did not.
LEMMA AssertedIs == asserted \in BOOLEAN /\ [Next]_vars => asserted' \in BOOLEAN
  <1>1. ASSUME [Next]_vars, asserted \in BOOLEAN PROVE asserted' \in BOOLEAN
    <2>1. CASE \E h \in Handles : Create(h) \/ CreateRefused(h) \/ CreateBlob(h) \/ Unref(h)
      BY <1>1, <2>1 DEF Create, CreateRefused, CreateBlob, Unref
    <2>2. CASE \E c \in Ctxs, h \in Handles : Claim(h, c) \/ ClaimRefused(h, c)
      BY <2>2 DEF Claim, ClaimRefused
    <2>3. CASE \E c \in Ctxs, h \in Handles : Attach(c, h) \/ Detach(c, h) \/ SetType(c, h) \/ Bind(c, h)
      BY <1>1, <2>3 DEF Attach, Detach, SetType, Bind
    <2>4. CASE \E c \in Ctxs : ContextCreate(c) \/ Describe(c) \/ Unbind(c) \/ ContextDestroy(c)
      BY <1>1, <2>4 DEF ContextCreate, Describe, Unbind, ContextDestroy
    <2>5. CASE Look \/ Reset \/ UNCHANGED vars
      BY <1>1, <2>5 DEF Look, Reset, vars
    <2> QED BY <1>1, <2>1, <2>2, <2>3, <2>4, <2>5 DEF Next
  <1> QED BY <1>1

\* Every step keeps these types.
LEMMA FiledKept == /\ MaxMade \in Nat /\ Init => Filed
                   /\ MaxMade \in Nat /\ Living /\ Filed /\ [Next]_vars => Filed'
  <1>1. MaxMade \in Nat /\ Init => Filed
    <2> SUFFICES ASSUME MaxMade \in Nat, Init PROVE Filed
      OBVIOUS
    <2>1. made \in 0..MaxMade /\ blobs \in SUBSET (1..made)
      BY DEF Init
    <2>2. attached \in [Handles -> SUBSET Ctxs] /\ asserted \in BOOLEAN
      BY DEF Init
    <2> QED BY <2>1, <2>2 DEF Filed
  <1>2. ASSUME MaxMade \in Nat, Living, Filed, [Next]_vars PROVE Filed'
    <2>1. \/ made' = made
          \/ made < MaxMade /\ made' = made + 1
      BY <1>2 DEF Next, vars, tableVars, Create, CreateRefused, CreateBlob, Claim, ClaimRefused,
        Unref, Look, Attach, Detach, ContextCreate, Describe, SetType, Bind, Unbind, ContextDestroy,
        Reset
    <2>2. blobs' = blobs \/ (made' = made + 1 /\ blobs' = blobs \cup {made + 1})
      BY <1>2 DEF Next, vars, tableVars, Create, CreateRefused, CreateBlob, Claim, ClaimRefused,
        Unref, Look, Attach, Detach, ContextCreate, Describe, SetType, Bind, Unbind, ContextDestroy,
        Reset, File
    <2>3. attached' \in [Handles -> SUBSET Ctxs]
      <3>1. attached \in [Handles -> SUBSET Ctxs]
        BY <1>2 DEF Filed
      <3>2. CASE \E h \in Handles : Create(h) \/ CreateRefused(h) \/ CreateBlob(h) \/ Unref(h)
        BY <3>1, <3>2 DEF Create, CreateRefused, CreateBlob, Unref, File, tableVars
      <3>3. CASE \E c \in Ctxs, h \in Handles : Claim(h, c) \/ ClaimRefused(h, c)
        BY <3>1, <3>3 DEF Claim, ClaimRefused, tableVars
      <3>4. CASE \E c \in Ctxs, h \in Handles : Attach(c, h) \/ Detach(c, h)
        BY <3>1, <3>4 DEF Attach, Detach
      <3>5. CASE \E c \in Ctxs, h \in Handles : SetType(c, h) \/ Bind(c, h)
        BY <3>1, <3>5 DEF SetType, Bind, tableVars
      <3>6. CASE \E c \in Ctxs : ContextCreate(c) \/ Describe(c) \/ Unbind(c) \/ ContextDestroy(c)
        BY <3>1, <3>6 DEF ContextCreate, Describe, Unbind, ContextDestroy, tableVars
      <3>7. CASE Look \/ Reset \/ UNCHANGED vars
        BY <3>1, <3>7 DEF Look, Reset, vars, tableVars
      <3> QED BY <1>2, <3>2, <3>3, <3>4, <3>5, <3>6, <3>7 DEF Next
    <2>4. /\ made \in 0..MaxMade /\ made' \in 0..MaxMade
          /\ 1..made \subseteq 1..made' /\ (made' = made + 1 => made + 1 \in 1..made')
      BY <1>2, <2>1 DEF Filed
    <2> QED BY <1>2, <2>2, <2>3, <2>4, AssertedIs DEF Filed
  <1> QED BY <1>1, <1>2

\* With the invariant they are the module's.
LEMMA Typed == MaxMade \in Nat /\ Kept /\ Living /\ Filed => TypeOK
  <1> SUFFICES ASSUME MaxMade \in Nat, Kept, Living, Filed PROVE TypeOK
    OBVIOUS
  <1>1. Shaped(table, described, map, parked, doomed, deleted, made)
    BY DEF Kept, Apart
  <1>2. made \in Nat /\ 0..made \subseteq {0} \cup Made /\ 1..made \subseteq Made
    BY DEF Made, Filed
  <1>3. \A c \in Ctxs : fb[c] \in {0} \cup Made
    BY <1>1, <1>2 DEF Kept, Drawn, Shaped
  <1>4. fb \in [Ctxs -> {0} \cup Made]
    BY <1>3 DEF Kept, Drawn
  <1>5. /\ table \in [Handles -> {0} \cup Made] /\ described \in [Ctxs -> {0} \cup Made]
        /\ parked \subseteq [of : Made, typed : BOOLEAN] /\ doomed \subseteq Made
        /\ deleted \subseteq Made
    BY <1>1, <1>2 DEF Shaped
  <1>6. map \in [Handles -> [of : {0} \cup Made, typed : BOOLEAN]]
    BY <1>1, <1>2 DEF Shaped
  <1>7. made \in {0} \cup Made /\ blobs \subseteq Made
    BY <1>2 DEF Filed
  <1> QED BY <1>4, <1>5, <1>6, <1>7 DEF TypeOK, Kept, Living, Filed
=============================================================================
