------------------------------- MODULE Journal -------------------------------
(***************************************************************************)
(* The snapshot journal of a venus context (src/venus/journal.rs): the     *)
(* commands a restore replays, what an export carries of them and what a   *)
(* compaction drops, with the object table (objects.rs) and the recorder   *)
(* (context.rs record) as far as they decide either.                       *)
(*                                                                         *)
(* A key is the number of an object made: a generation never comes back.   *)
(* Every step after a create is one command of a guest's stream, or the    *)
(* VMM's, chosen freely: what is hard is the histories.  "twin" is told    *)
(* everything "journal" is, and never compacted.                           *)
(***************************************************************************)
EXTENDS Naturals, FiniteSets

CONSTANTS
  Rings,    \* the rings a context may make
  MaxRefs,  \* bound on the others a command names
  Budgets   \* how many commands of each kind (a batch: objects at once), a set of choices

Kinds == {"create", "batch", "write", "free", "destroy", "export", "record", "reset", "ring"}

VARIABLES
  seq,      \* Journal::seq
  minted,   \* objects made
  buffers,  \* the command buffers among them
  alive,    \* Table::arena: what the guest holds
  held,     \* Context::exports: the allocations whose storage somebody holds
  journal,  \* Journal::entries and Journal::recordings
  twin,     \* a journal no compaction has touched
  slots,    \* Journal::ring_state, and the create of each ring there is
  tape,     \* what each buffer holds, as Vulkan says: the commands recorded... (history)
  runs,     \* ...the buffers they execute...
  void,     \* ...and whether Vulkan has invalidated them
  left      \* the commands there may still be

worldVars == <<minted, buffers, alive, held>>
tapeVars  == <<tape, runs, void>>
vars == <<seq, worldVars, journal, twin, slots, tapeVars, left>>

Keys == 1..minted

Init ==
  /\ seq = 0 /\ minted = 0 /\ buffers = {} /\ alive = {} /\ held = {}
  /\ journal = [entries |-> {}, tapes |-> <<>>] /\ twin = journal /\ slots = <<>>
  /\ tape = <<>> /\ runs = <<>> /\ void = {}
  /\ left \in Budgets

-----------------------------------------------------------------------------
(* What is worth keeping (keep_set).  An item is an entry or a command of  *)
(* a recording, whose key is its buffer's.                                 *)

Live == alive \cup held

Items(j) == j.entries \cup UNION {j.tapes[b].commands : b \in DOMAIN j.tapes}

Creates(j) == {e \in j.entries : e.about = "created"}

\* Slips, each the mutant of a definition below: a recording good as long as what it
\* executed lives; a create kept while its own objects live; an empty tape dropped; a
\* ring's slots told by where they go.
HoldsAny(j, live, x) == x.buffer \in live
Unreached(j, live) == {c \in Creates(j) : c.keys \cap live # {}}
Never(b, live) == FALSE
Unrouted(r) ==
  [s \in {t \in DOMAIN slots : t # <<r, "create">> /\ slots[t].route # r} |-> slots[s]]

\* Which recording a buffer holds: its first command, or 0.
Began(j, b) == IF b \in DOMAIN j.tapes THEN j.tapes[b].began ELSE 0

Holds(j, live, x) == x.buffer \in live /\ x.began # 0 /\ Began(j, x.buffer) = x.began

\* The most buffers that live and execute only one another, as they still are.
Replayable(j, live) ==
  UNION {S \in SUBSET (DOMAIN j.tapes \cap live) :
           \A b \in S : \A x \in j.tapes[b].executed : Holds(j, live, x) /\ x.buffer \in S}

TrueStill(j, live) ==
  {e \in j.entries : e.about \in {"created", "mutated"} /\ e.keys \cap live # {}}
    \cup UNION {j.tapes[b].commands : b \in Replayable(j, live)}

CreatorsOf(j, I) == {c \in Creates(j) : \E i \in I : c.keys \cap (i.refs \cup i.keys) # {}}

\* The fewest creates that make whatever is named, by what is true or by them.
Needed(j, live) ==
  LET true == TrueStill(j, live)
  IN {c \in Creates(j) : \A C \in SUBSET Creates(j) :
        CreatorsOf(j, true) \cup CreatorsOf(j, C) \subseteq C => c \in C}

KeepSet(j, live) ==
  LET reached == TrueStill(j, live) \cup Needed(j, live)
  IN reached \cup {u \in j.entries : u.about = "undoes" /\
                     \E c \in reached \cap Creates(j) : u.keys \cap c.keys # {}}

\* A live buffer's tape stays with nothing on it: what it executed still counts.
Stays(b, live) == b \in live

Compacted(j, live) ==
  LET keep  == KeepSet(j, live)
      on(b) == j.tapes[b].commands \cap keep
  IN [entries |-> j.entries \cap keep,
      tapes |-> [b \in {k \in DOMAIN j.tapes : on(k) # {} \/ Stays(k, live)} |->
                   [began |-> j.tapes[b].began, commands |-> on(b),
                    executed |-> j.tapes[b].executed]]]

-----------------------------------------------------------------------------
(* What the recorder writes (Journal::push, recorded, pool_reset).         *)

Item(about, keys, refs) == [seq |-> seq + 1, about |-> about, keys |-> keys, refs |-> refs]

Push(about, keys, refs) ==
  /\ seq' = seq + 1
  /\ journal' = [journal EXCEPT !.entries = @ \cup {Item(about, keys, refs)}]
  /\ twin' = [twin EXCEPT !.entries = @ \cup {Item(about, keys, refs)}]
  /\ UNCHANGED slots

\* The tapes of j after a command filed under b: over again if it resets, with the
\* recording each buffer it executes holds now.
Filed(j, b, resets, E, refs) ==
  LET new == [began |-> seq + 1, commands |-> {}, executed |-> {}]
      old == IF b \in DOMAIN j.tapes /\ ~resets THEN j.tapes[b] ELSE new
      now == [began    |-> old.began,
              commands |-> old.commands \cup {Item("recorded", {b}, refs \cup E)},
              executed |-> old.executed \cup {[buffer |-> e, began |-> Began(j, e)] : e \in E}]
  IN [j EXCEPT !.tapes = [k \in DOMAIN @ \cup {b} |-> IF k = b THEN now ELSE @[k]]]

\* The tapes of j with those of B discarded.
Without(j, B) == [j EXCEPT !.tapes = [k \in DOMAIN @ \ B |-> @[k]]]

-----------------------------------------------------------------------------
(* What Vulkan says of the recordings: a buffer begun again, reset or      *)
(* freed invalidates whatever executes it, and what executes that.         *)

Above(B) ==
  {p \in buffers : \A S \in SUBSET buffers :
     B \subseteq S /\ (\A q \in buffers : runs[q] \cap S # {} => q \in S) => p \in S} \ B

Ended(B) == void' = (void \ B) \cup Above(B)

-----------------------------------------------------------------------------
(* The guest's commands                                                    *)

Spend(kind) == left[kind] > 0 /\ left' = [left EXCEPT ![kind] = @ - 1]

\* A command that makes n objects and names others; a run of command buffers names
\* its pool, which is taken to stand throughout.
Create(n, refs, recorders) ==
  LET made == minted + 1..minted + n
  IN /\ Spend("create")
     /\ minted' = minted + n /\ alive' = alive \cup made
     /\ buffers' = IF recorders THEN buffers \cup made ELSE buffers
     /\ tape' = IF recorders THEN [b \in buffers' |-> IF b \in made THEN {} ELSE tape[b]] ELSE tape
     /\ runs' = IF recorders THEN [b \in buffers' |-> IF b \in made THEN {} ELSE runs[b]] ELSE runs
     /\ Push("created", made, refs)
     /\ UNCHANGED <<held, void>>

\* A bind or a descriptor write: about what it writes into.
Mutate(into, refs) ==
  /\ Spend("write") /\ into # {}
  /\ Push("mutated", into, refs)
  /\ UNCHANGED <<worldVars, tapeVars>>

\* A destroy, and all that was made under the object: nothing is written.
Destroy(K) ==
  /\ Spend("destroy") /\ K # {}
  /\ seq' = seq + 1
  /\ alive' = alive \ K /\ Ended(K \cap buffers)
  /\ UNCHANGED <<minted, buffers, held, journal, twin, slots, tape, runs>>

\* vkFreeMemory, vkFreeCommandBuffers, vkFreeDescriptorSets (releases_a_create):
\* one command may free what several made.
Free(K) ==
  /\ Spend("free") /\ K # {}
  /\ alive' = alive \ K /\ Ended(K \cap buffers)
  /\ Push("undoes", K, {})
  /\ UNCHANGED <<minted, buffers, held, tape, runs>>

\* The VMM exports an allocation, and later nobody holds it (memory_export, held).
Export(k) ==
  /\ Spend("export") /\ held' = held \cup {k}
  /\ UNCHANGED <<seq, minted, buffers, alive, journal, twin, slots, tapeVars>>

LetGo(k) ==
  /\ held' = held \ {k}
  /\ UNCHANGED <<seq, minted, buffers, alive, journal, twin, slots, tapeVars, left>>

Record(b, resets, E, refs) ==
  /\ Spend(IF resets THEN "reset" ELSE "record") /\ seq' = seq + 1
  /\ journal' = Filed(journal, b, resets, E, refs) /\ twin' = Filed(twin, b, resets, E, refs)
  /\ tape' = [tape EXCEPT ![b] = (IF resets THEN {} ELSE @) \cup {seq + 1}]
  /\ runs' = [runs EXCEPT ![b] = (IF resets THEN {} ELSE @) \cup E]
  /\ UNCHANGED <<worldVars, slots>>

Begin(b, refs) == Record(b, TRUE, {}, refs) /\ Ended({b})

\* A command recorded, by a buffer nothing valid has executed.
Add(b, E, refs) ==
  /\ \A q \in buffers \ void : b \notin runs[q]
  /\ Record(b, FALSE, E, refs)
  /\ void' = IF \E e \in E : e \in void \/ tape[e] = {} THEN void \cup {b} ELSE void

\* vkResetCommandPool: the buffers stay, what they hold does not.  A pool's are those
\* of any number of allocates.
PoolReset(B) ==
  /\ Spend("reset") /\ B # {} /\ seq' = seq + 1
  /\ journal' = Without(journal, B) /\ twin' = Without(twin, B)
  /\ tape' = [b \in buffers |-> IF b \in B THEN {} ELSE tape[b]]
  /\ runs' = [b \in buffers |-> IF b \in B THEN {} ELSE runs[b]]
  /\ Ended(B)
  /\ UNCHANGED <<worldVars, slots>>

\* A ring's create, and state a later command replaces: where a stream's replies go,
\* on the stream it is about, and a virtqueue seqno, on the context's.
Latest(owner, cmd, route) ==
  /\ Spend("ring") /\ seq' = seq + 1
  /\ slots' = [s \in DOMAIN slots \cup {<<owner, cmd>>} |->
                 IF s = <<owner, cmd>> THEN [seq |-> seq + 1, route |-> route] ELSE slots[s]]
  /\ UNCHANGED <<worldVars, journal, twin, tapeVars>>

Stands(owner) == owner = "context" \/ <<owner, "create">> \in DOMAIN slots

RingCreated(r) == ~Stands(r) /\ Latest(r, "create", "context")
SetReply(owner) == Stands(owner) /\ Latest(owner, "set", owner)
SeekReply(owner) == <<owner, "set">> \in DOMAIN slots /\ Latest(owner, "seek", owner)
RingSeqno(r) == Stands(r) /\ Latest(r, "seqno", "context")

\* What is left of the slots when a ring is gone: by owner, not by route.
Gone(r) == [s \in {t \in DOMAIN slots : t[1] # r} |-> slots[s]]

RingGone(r) ==
  /\ Stands(r) /\ seq' = seq + 1
  /\ slots' = Gone(r)
  /\ UNCHANGED <<worldVars, journal, twin, tapeVars, left>>

\* collect_journal: when it is due decides only when.
Compact ==
  /\ journal' = Compacted(journal, Live)
  /\ UNCHANGED <<seq, worldVars, twin, slots, tapeVars, left>>

Some(S, n) == {K \in SUBSET S : Cardinality(K) <= n}
Objects    == alive \ buffers
Recorders  == alive \cap buffers

Next ==
  \/ \E n \in 1..left["batch"], refs \in Some(Objects, MaxRefs), recorders \in BOOLEAN :
       Create(n, refs, recorders)
  \/ \E into \in Some(Objects, left["batch"]), refs \in Some(Objects, MaxRefs) : Mutate(into, refs)
  \/ \E K \in SUBSET alive : Destroy(K)
  \/ \E K \in (SUBSET Recorders) \cup (SUBSET Objects) : Free(K)
  \/ \E k \in Objects : Export(k)
  \/ \E k \in held : LetGo(k)
  \/ \E b \in Recorders, refs \in Some(Objects, MaxRefs) : Begin(b, refs) \/ Add(b, {}, refs)
  \/ \E b \in Recorders : \E E \in Some(Recorders \ {b}, MaxRefs) \ {{}} : Add(b, E, {})
  \/ \E A \in SUBSET Creates(twin) : PoolReset(UNION {c.keys \cap Recorders : c \in A})
  \/ \E r \in Rings : RingCreated(r) \/ RingSeqno(r) \/ RingGone(r)
  \/ \E o \in Rings \cup {"context"} : SetReply(o) \/ SeekReply(o)
  \/ Compact

Spec == Init /\ [][Next]_vars

-----------------------------------------------------------------------------
(* Properties                                                              *)

TypeOK ==
  /\ seq \in Nat /\ minted \in Nat /\ void \subseteq buffers
  /\ buffers \subseteq Keys /\ alive \subseteq Keys /\ held \subseteq Keys \ buffers
  /\ \A j \in {journal, twin} :
       /\ \A i \in Items(j) : i.seq \in 1..seq /\ i.keys \cup i.refs \subseteq Keys
       /\ DOMAIN j.tapes \subseteq buffers
  /\ DOMAIN tape = buffers /\ DOMAIN runs = buffers
  /\ DOMAIN slots \subseteq (Rings \cup {"context"}) \X {"create", "set", "seek", "seqno"}

\* A compaction is never seen, in an export now or after whatever the guest does
\* next: "dropping it changes no export that could still happen" (compact).
CompactionUnseen == KeepSet(journal, Live) = KeepSet(twin, Live)

\* What is there when a replay of X comes to the command recorded at n.
There(X, n) ==
  {k \in Keys : \E c \in X :
     /\ c.about = "created" /\ k \in c.keys /\ c.seq < n
     /\ \A u \in X : u.about = "undoes" /\ k \in u.keys => u.seq >= n}

\* What a command names that is not there; a create's own objects it makes.
Missed(X, i) ==
  (i.refs \cup IF i.about = "created" THEN {} ELSE i.keys) \ There(X, i.seq)

\* What a free names that no create of X makes: other creates' objects, freed with some
\* that one did.
Strays(X, i) ==
  IF i.about = "undoes"
  THEN {k \in i.keys : \A c \in X : c.about = "created" => k \notin c.keys}
  ELSE {}

\* A free replays as it was sent: "a free replayed when its create was not names objects
\* that do not exist, and a lookup miss poisons the whole restore" (journal.rs Undoes).
FreesFit == \A i \in KeepSet(journal, Live) : Strays(KeepSet(journal, Live), i) = {}

\* A restore remakes what the guest holds.  No command of it misses what it names, but
\* for a free's strays; at its end there is all that lives and nothing the guest freed;
\* what is shared was made; each buffer is given exactly what it holds, and only if
\* Vulkan has not invalidated it (keep_set); and what is about a ring comes after the
\* ring's create, and is gone with it (ring_gone).
RestoreFaithful ==
  LET X   == KeepSet(journal, Live)
      End == There(X, seq + 1)
  IN /\ \A i \in X : Missed(X, i) \subseteq Strays(X, i)
     /\ alive \subseteq End
     /\ \A u \in twin.entries : u.about = "undoes" => u.keys \cap End = {}
     /\ \A k \in held : \E c \in X : c.about = "created" /\ k \in c.keys
     /\ \A b \in buffers :
          {i.seq : i \in {x \in X : x.about = "recorded" /\ x.keys = {b}}}
            = IF b \in alive \ void THEN tape[b] ELSE {}
     /\ \A s \in DOMAIN slots : s[1] # "context" =>
          Stands(s[1]) /\ slots[<<s[1], "create">>].seq <= slots[s].seq
=============================================================================
