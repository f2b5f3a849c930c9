------------------------------ MODULE HostTable ------------------------------
(***************************************************************************)
(* The two halves of the resource table: the renderer's entry under a      *)
(* guest-chosen handle (src/renderer.rs) and vrend's host storage under    *)
(* the same handle (src/vrend/resource.rs Slots, src/vrend/vrend.rs).  The *)
(* entry holds a claim; dropping it condemns the handle, and vrend takes   *)
(* the storage out of its map at the next look and deletes it at the next  *)
(* place with a GL context -- by when the handle may name another          *)
(* resource.  A framebuffer keeps a share of the texture it draws into.    *)
(*                                                                         *)
(* One thread does all of it: what is hard is the order of the guest's     *)
(* calls.  Only classic contexts are modelled; another kind's attach does  *)
(* not reach vrend.                                                        *)
(***************************************************************************)
EXTENDS Integers

CONSTANTS Handles, \* the handles the guest reuses
          Ctxs,    \* the classic contexts
          MaxMade  \* bound on the resources ever made or described

Made == 1..MaxMade

VARIABLES
  table,      \* Renderer::resources: the resource each handle names, or 0
  blobs,      \* the resources that are blobs
  attached,   \* Resource::attached
  made,       \* how many resources there have been
  condemned,  \* Condemned: the handles whose claim is gone
  map,        \* Slots::map: the resource each handle has storage of, or 0, and whether
              \* it is typed
  parked,     \* Slots::parked
  doomed,     \* Vrend::doomed: textures let go of while a framebuffer draws into them
  deleted,    \* textures deleted
  ctxs,       \* the contexts there are
  described,  \* Context::described: the resource a context described, or 0
  fb,         \* the texture a context's framebuffer holds a share of, or 0
  asserted    \* an assertion of vrend's failed

tableVars   == <<table, blobs, attached>>
slotVars    == <<condemned, map, parked>>
storageVars == <<doomed, deleted>>
ctxVars     == <<ctxs, described, fb>>
vars == <<tableVars, made, slotVars, storageVars, ctxVars, asserted>>

NoSlot == [of |-> 0, typed |-> FALSE]

Init ==
  /\ table = [h \in Handles |-> 0] /\ blobs = {} /\ attached = [h \in Handles |-> {}]
  /\ made = 0 /\ condemned = {} /\ map = [h \in Handles |-> NoSlot] /\ parked = {}
  /\ doomed = {} /\ deleted = {}
  /\ ctxs = {} /\ described = [c \in Ctxs |-> 0] /\ fb = [c \in Ctxs |-> 0]
  /\ asserted = FALSE

\* Slips, each the mutant of a definition below: a map read as it is; a sweep that
\* asks no framebuffer; a second attach that makes the blob's slot again.
Unsynced == map
HeldByNone(bound, t) == FALSE
Remade(h) == [of |-> table[h], typed |-> FALSE]

-----------------------------------------------------------------------------
(* Slots                                                                   *)

\* Slots::sync: what the map is once what is condemned has been taken out...
Synced == [h \in Handles |-> IF h \in condemned THEN NoSlot ELSE map[h]]

\* ...and what is parked then.
Parking == (parked \cup {map[h] : h \in condemned}) \ {NoSlot}

Sync(m) == condemned' = {} /\ map' = m /\ parked' = Parking

HeldBy(bound, t) == \E c \in Ctxs : bound[c] = t

\* An untyped slot owns a share of somebody's storage and no texture.
Textures(slots) == {s.of : s \in {u \in slots : u.typed}}

\* What sweep_condemned asks: nothing when nothing is parked, not even the doomed.
Asked == IF Parking = {} THEN {} ELSE doomed \cup Textures(Parking)
Swept == {t \in Asked : ~HeldBy(fb, t)}

\* sweep_condemned, with what else is deleted and the map then being m.
SweepAnd(also, m) ==
  /\ condemned' = {} /\ map' = m /\ parked' = {}
  /\ doomed' = (doomed \cup Asked) \ Swept
  /\ deleted' = deleted \cup Swept \cup also

Sweep(m) == SweepAnd({}, m)

-----------------------------------------------------------------------------
(* Resources                                                               *)

\* Renderer::free_handle
Free(h) == table[h] = 0

File(h, blob) ==
  /\ table' = [table EXCEPT ![h] = made + 1]
  /\ blobs' = IF blob THEN blobs \cup {made + 1} ELSE blobs
  /\ attached' = [attached EXCEPT ![h] = {}]

\* resource_create: vrend's half first, which sweeps, asserts the handle free and can
\* refuse; then the entry.
Create(h) ==
  /\ Free(h) /\ made < MaxMade
  /\ made' = made + 1
  /\ asserted' = (asserted \/ Synced[h] # NoSlot)
  /\ Sweep([Synced EXCEPT ![h] = [of |-> made + 1, typed |-> TRUE]])
  /\ File(h, FALSE)
  /\ UNCHANGED ctxVars

CreateRefused(h) ==
  /\ Free(h)
  /\ asserted' = (asserted \/ Synced[h] # NoSlot)
  /\ Sweep(Synced)
  /\ UNCHANGED <<tableVars, made, ctxVars>>

\* resource_create_blob, of memory vrend has no half of.
CreateBlob(h) ==
  /\ Free(h) /\ made < MaxMade
  /\ made' = made + 1
  /\ File(h, TRUE)
  /\ UNCHANGED <<slotVars, storageVars, ctxVars, asserted>>

\* resource_create_blob, of what a context described: vrend's claim_described...
Claim(h, c) ==
  /\ Free(h) /\ c \in ctxs /\ described[c] # 0
  /\ asserted' = (asserted \/ Synced[h] # NoSlot)
  /\ Sweep([Synced EXCEPT ![h] = [of |-> described[c], typed |-> TRUE]])
  /\ table' = [table EXCEPT ![h] = described[c]]
  /\ attached' = [attached EXCEPT ![h] = {}]
  /\ described' = [described EXCEPT ![c] = 0]
  /\ UNCHANGED <<blobs, made, ctxs, fb>>

\* ...whose buffer, when it cannot be mapped, is destroyed at once: nothing holds it.
ClaimRefused(h, c) ==
  /\ Free(h) /\ c \in ctxs /\ described[c] # 0
  /\ asserted' = (asserted \/ Synced[h] # NoSlot \/ HeldBy(fb, described[c]))
  /\ SweepAnd({described[c]}, Synced)
  /\ described' = [described EXCEPT ![c] = 0]
  /\ UNCHANGED <<tableVars, made, ctxs, fb>>

\* resource_unref: the entry goes, and its claim with it.
Unref(h) ==
  /\ table[h] # 0
  /\ table' = [table EXCEPT ![h] = 0]
  /\ attached' = [attached EXCEPT ![h] = {}]
  /\ condemned' = condemned \cup {h}
  /\ UNCHANGED <<blobs, made, map, parked, storageVars, ctxVars, asserted>>

\* Any look at vrend's half: a scanout, a mapping, a transfer.
Look ==
  /\ condemned # {}
  /\ Sync(Synced)
  /\ UNCHANGED <<tableVars, made, storageVars, ctxVars, asserted>>

\* resource_attach_blob, of a handle vrend has no slot under.
Attachment(h) == IF Synced[h] # NoSlot THEN Synced[h] ELSE [of |-> table[h], typed |-> FALSE]

\* ctx_attach_resource
Attach(c, h) ==
  /\ c \in ctxs /\ table[h] # 0
  /\ attached' = [attached EXCEPT ![h] = @ \cup {c}]
  /\ IF table[h] \in blobs THEN Sync([Synced EXCEPT ![h] = Attachment(h)])
                           ELSE UNCHANGED slotVars
  /\ UNCHANGED <<table, blobs, made, storageVars, ctxVars, asserted>>

Detach(c, h) ==
  /\ c \in attached[h]
  /\ attached' = [attached EXCEPT ![h] = @ \ {c}]
  /\ UNCHANGED <<table, blobs, made, slotVars, storageVars, ctxVars, asserted>>

-----------------------------------------------------------------------------
(* A context, and a batch of one command: it sweeps before it runs         *)

\* Guest::attached, and the slot it then finds.
Reaches(c, h) == c \in ctxs /\ c \in attached[h] /\ Synced[h] # NoSlot

ContextCreate(c) ==
  /\ c \notin ctxs
  /\ ctxs' = ctxs \cup {c}
  /\ Sweep(Synced)
  /\ UNCHANGED <<tableVars, made, described, fb, asserted>>

Describe(c) ==
  /\ c \in ctxs /\ described[c] = 0 /\ made < MaxMade
  /\ made' = made + 1
  /\ described' = [described EXCEPT ![c] = made + 1]
  /\ Sweep(Synced)
  /\ UNCHANGED <<tableVars, ctxs, fb, asserted>>

\* set_resource_type: a blob's slot becomes a texture.
SetType(c, h) ==
  /\ Reaches(c, h) /\ ~Synced[h].typed
  /\ Sweep([Synced EXCEPT ![h] = [of |-> Synced[h].of, typed |-> TRUE]])
  /\ UNCHANGED <<tableVars, made, ctxVars, asserted>>

\* set_framebuffer_state, with a surface of the texture or with none.
Bind(c, h) ==
  /\ Reaches(c, h) /\ Synced[h].typed
  /\ Sweep(Synced)
  /\ fb' = [fb EXCEPT ![c] = Synced[h].of]
  /\ UNCHANGED <<tableVars, made, ctxs, described, asserted>>

Unbind(c) ==
  /\ fb[c] # 0
  /\ Sweep(Synced)
  /\ fb' = [fb EXCEPT ![c] = 0]
  /\ UNCHANGED <<tableVars, made, ctxs, described, asserted>>

\* Context::destroy of some contexts, each after a sweep and before one of the
\* doomed; what they described and nobody claimed goes too.
Destroy(cs) ==
  LET left == [c \in Ctxs |-> IF c \in cs THEN 0 ELSE fb[c]]
      unclaimed == {described[c] : c \in cs} \ {0}
      waiting == doomed \cup Textures(Parking) IN
  /\ ctxs' = ctxs \ cs /\ fb' = left
  /\ described' = [c \in Ctxs |-> IF c \in cs THEN 0 ELSE described[c]]
  /\ doomed' = {t \in waiting : HeldBy(left, t)}
  /\ deleted' = deleted \cup {t \in waiting : ~HeldBy(left, t)} \cup unclaimed
  /\ map' = Synced /\ parked' = {}

\* context_destroy
ContextDestroy(c) ==
  /\ c \in ctxs
  /\ Destroy({c}) /\ condemned' = {}
  /\ attached' = [h \in Handles |-> attached[h] \ {c}]
  /\ UNCHANGED <<table, blobs, made, asserted>>

\* Renderer::reset: every context, and then every entry. With no context it is so many
\* unrefs.
Reset ==
  /\ ctxs # {}
  /\ Destroy(ctxs) /\ condemned' = {h \in Handles : table[h] # 0}
  /\ table' = [h \in Handles |-> 0]
  /\ attached' = [h \in Handles |-> {}]
  /\ UNCHANGED <<blobs, made, asserted>>

Next ==
  \/ \E h \in Handles : Create(h) \/ CreateRefused(h) \/ CreateBlob(h) \/ Unref(h)
  \/ \E c \in Ctxs, h \in Handles : \/ Claim(h, c) \/ ClaimRefused(h, c)
                                    \/ Attach(c, h) \/ Detach(c, h)
                                    \/ SetType(c, h) \/ Bind(c, h)
  \/ \E c \in Ctxs : ContextCreate(c) \/ Describe(c) \/ Unbind(c) \/ ContextDestroy(c)
  \/ Look \/ Reset

Spec == Init /\ [][Next]_vars

-----------------------------------------------------------------------------
(* Properties                                                              *)

TypeOK ==
  /\ table \in [Handles -> {0} \cup Made] /\ blobs \subseteq Made /\ made \in {0} \cup Made
  /\ attached \in [Handles -> SUBSET Ctxs] /\ condemned \subseteq Handles
  /\ map \in [Handles -> [of : {0} \cup Made, typed : BOOLEAN]]
  /\ parked \subseteq [of : Made, typed : BOOLEAN]
  /\ doomed \subseteq Made /\ deleted \subseteq Made
  /\ ctxs \subseteq Ctxs /\ described \in [Ctxs -> {0} \cup Made]
  /\ fb \in [Ctxs -> {0} \cup Made] /\ asserted \in BOOLEAN

\* Whatever was freed and made again under a handle, what vrend finds there is the
\* resource the renderer's entry is: never the storage of one the guest let go of
\* (Slots), and never any where there is no entry, which is what resource_create and
\* claim_described assert.
Reconciled ==
  /\ ~asserted
  /\ \A h \in Handles : Synced[h] # NoSlot => Synced[h].of = table[h]

\* The textures the map and the parked slots own.
Owned == Textures({map[h] : h \in Handles} \cup parked)

\* A texture a framebuffer draws into is never deleted, though the guest freed it and
\* its handle names another: BoundSurface's share is honoured by every sweep. And a
\* texture is deleted once: what is deleted, doomed or described is owned no more.
TexturesKept ==
  /\ \A c \in Ctxs : fb[c] # 0 => fb[c] \in Owned \cup doomed
  /\ deleted \cap (Owned \cup doomed) = {} /\ Owned \cap doomed = {}
  /\ \A c \in Ctxs : described[c] \notin deleted \cup doomed \cup Owned

\* What a context's command gave a type keeps it as long as its handle does, whoever
\* attaches it again (resource_attach_blob: "a later attach must not un-type what an
\* earlier one's SET_TYPE already settled").
TypedStays ==
  [][\A h \in Handles : Synced[h].typed /\ table'[h] = table[h] => Synced'[h] = Synced[h]]_vars
=============================================================================
