----------------------------- MODULE JournalProofs -----------------------------
(***************************************************************************)
(* A compaction of a venus context's journal is never seen, whatever the   *)
(* guest does before and after, and what a restore of it remakes is what   *)
(* the guest made of what stands: for any objects, commands and rings.     *)
(***************************************************************************)
EXTENDS Journal, TLAPS

-----------------------------------------------------------------------------
(* What keep_set computes: the most buffers that replay, the fewest creates *)
(* needed.                                                                  *)

\* A set of buffers that live and execute only one another.
Closed(j, live, S) ==
  /\ S \subseteq DOMAIN j.tapes /\ S \subseteq live
  /\ \A b \in S : \A x \in j.tapes[b].executed : Holds(j, live, x) /\ x.buffer \in S

LEMMA ReplayableIs ==
  ASSUME NEW j, NEW live
  PROVE  /\ Closed(j, live, Replayable(j, live))
         /\ \A S : Closed(j, live, S) => S \subseteq Replayable(j, live)
  <1> DEFINE Good == {S \in SUBSET (DOMAIN j.tapes \cap live) :
                        \A b \in S : \A x \in j.tapes[b].executed :
                          Holds(j, live, x) /\ x.buffer \in S}
  <1>1. Replayable(j, live) = UNION Good
    BY DEF Replayable
  <1>2. \A S : S \in Good <=> Closed(j, live, S)
    BY DEF Closed
  <1> HIDE DEF Good
  <1>3. \A S : Closed(j, live, S) => S \subseteq Replayable(j, live)
    BY <1>1, <1>2
  <1>4. ASSUME NEW b \in Replayable(j, live)
        PROVE  /\ b \in DOMAIN j.tapes /\ b \in live
               /\ \A x \in j.tapes[b].executed :
                    Holds(j, live, x) /\ x.buffer \in Replayable(j, live)
    <2>1. PICK S \in Good : b \in S
      BY <1>1, <1>4
    <2>2. Closed(j, live, S) /\ S \subseteq Replayable(j, live)
      BY <1>1, <1>2, <2>1
    <2> QED BY <2>1, <2>2 DEF Closed
  <1> QED BY <1>3, <1>4 DEF Closed

\* A set of creates that makes whatever is named by what is true, or by them.
Making(j, live, C) ==
  /\ C \subseteq Creates(j)
  /\ CreatorsOf(j, TrueStill(j, live)) \subseteq C /\ CreatorsOf(j, C) \subseteq C

LEMMA CreatorsGrow ==
  ASSUME NEW j, NEW A, NEW B, A \subseteq B
  PROVE  CreatorsOf(j, A) \subseteq CreatorsOf(j, B) /\ CreatorsOf(j, A) \subseteq Creates(j)
  BY DEF CreatorsOf

LEMMA NeededIs ==
  ASSUME NEW j, NEW live
  PROVE  /\ Making(j, live, Needed(j, live))
         /\ \A C : Making(j, live, C) => Needed(j, live) \subseteq C
  <1> DEFINE N == Needed(j, live)
  <1>1. \A c : c \in N <=> c \in Creates(j) /\ \A C : Making(j, live, C) => c \in C
    BY DEF Needed, Making
  <1> HIDE DEF N
  <1>2. \A C : Making(j, live, C) => N \subseteq C
    BY <1>1
  <1>3. N \subseteq Creates(j)
    BY <1>1
  <1>4. CreatorsOf(j, TrueStill(j, live)) \subseteq N
    <2>1. CreatorsOf(j, TrueStill(j, live)) \subseteq Creates(j)
      BY DEF CreatorsOf
    <2> QED BY <1>1, <2>1 DEF Making
  <1>5. CreatorsOf(j, N) \subseteq N
    <2>1. CreatorsOf(j, N) \subseteq Creates(j)
      BY DEF CreatorsOf
    <2>2. ASSUME NEW C, Making(j, live, C) PROVE CreatorsOf(j, N) \subseteq C
      <3>1. CreatorsOf(j, N) \subseteq CreatorsOf(j, C)
        BY <1>2, <2>2, CreatorsGrow
      <3> QED BY <2>2, <3>1 DEF Making
    <2> QED BY <1>1, <2>1, <2>2
  <1> QED BY <1>2, <1>3, <1>4, <1>5 DEF Making, N

Reached(j, live) == TrueStill(j, live) \cup Needed(j, live)

LEMMA KeepIs ==
  ASSUME NEW j, NEW live
  PROVE  \A i : i \in KeepSet(j, live) <=>
           \/ i \in Reached(j, live)
           \/ /\ i \in j.entries /\ i.about = "undoes"
              /\ \E c \in Reached(j, live) \cap Creates(j) : i.keys \cap c.keys # {}
  BY DEF KeepSet, Reached

LEMMA ReachedMakes ==
  ASSUME NEW j, NEW live
  PROVE  CreatorsOf(j, Reached(j, live)) \subseteq Needed(j, live)
  <1>1. /\ CreatorsOf(j, TrueStill(j, live)) \subseteq Needed(j, live)
        /\ CreatorsOf(j, Needed(j, live)) \subseteq Needed(j, live)
    BY NeededIs DEF Making
  <1> QED BY <1>1 DEF CreatorsOf, Reached

\* What is kept later was kept before, or is new and names nothing that was not made by
\* something true: "retention only ever falls" (journal.rs compact).
LEMMA KeepGrows ==
  ASSUME NEW j, NEW live, NEW k, NEW later, NEW New,
         k.entries \subseteq j.entries \cup New,
         TrueStill(k, later) \subseteq TrueStill(j, live) \cup New,
         \A e \in New : \A c \in Creates(j) :
           c.keys \cap (e.refs \cup e.keys) # {} => c \in TrueStill(j, live),
         \A e \in New : e.about = "created" => \A u \in j.entries : u.keys \cap e.keys = {}
  PROVE  KeepSet(k, later) \subseteq KeepSet(j, live) \cup New
  <1> DEFINE R == Reached(j, live)
             C == Creates(k) \cap (R \cup New)
  <1>1. \A c \in Creates(k) : c \in Creates(j) \/ c \in New
    BY DEF Creates
  <1>2. CreatorsOf(j, R) \subseteq R
    BY ReachedMakes DEF Reached
  <1>3. TrueStill(j, live) \subseteq R
    BY DEF Reached
  <1> HIDE DEF R
  <1>4. ASSUME NEW c \in Creates(k), NEW i \in R \cup New, c.keys \cap (i.refs \cup i.keys) # {}
        PROVE  c \in C
    <2>1. CASE c \in New
      BY <2>1
    <2>2. CASE c \in Creates(j) /\ i \in New
      BY <1>3, <1>4, <2>2
    <2>3. CASE c \in Creates(j) /\ i \in R
      <3>1. c \in CreatorsOf(j, R)
        BY <1>4, <2>3 DEF CreatorsOf
      <3> QED BY <1>2, <3>1
    <2> QED BY <1>1, <1>4, <2>1, <2>2, <2>3
  <1>5. Making(k, later, C)
    BY <1>3, <1>4 DEF Making, CreatorsOf
  <1>6. Reached(k, later) \subseteq R \cup New
    <2>1. Needed(k, later) \subseteq C
      BY <1>5, NeededIs
    <2> QED BY <1>3, <2>1 DEF Reached
  <1>7. ASSUME NEW u \in k.entries, u.about = "undoes",
               NEW c \in Reached(k, later) \cap Creates(k), u.keys \cap c.keys # {}
        PROVE  u \in KeepSet(j, live) \cup New
    <2>1. CASE u \in New
      BY <2>1
    <2>2. CASE u \in j.entries
      <3>1. c \in Creates(j) \cap R \/ c \in New
        BY <1>1, <1>6
      <3>2. c.about = "created"
        BY DEF Creates
      <3>3. c \in Creates(j) \cap R
        BY <1>7, <2>2, <3>1, <3>2
      <3> QED BY <1>7, <2>2, <3>3, KeepIs DEF R
    <2> QED BY <2>1, <2>2
  <1>8. ASSUME NEW i \in KeepSet(k, later) PROVE i \in KeepSet(j, live) \cup New
    <2>1. CASE i \in Reached(k, later)
      BY <1>6, <2>1, KeepIs DEF R
    <2>2. CASE i \notin Reached(k, later)
      BY <1>7, <1>8, <2>2, KeepIs
    <2> QED BY <2>1, <2>2
  <1> QED BY <1>8

-----------------------------------------------------------------------------
(* A journal that was compacted, and one that was not.                     *)

\* The first is part of the second, and has of it whatever is still kept; what a live
\* buffer holds is in both.
Part(j, t, live) ==
  /\ j.entries \subseteq t.entries
  /\ DOMAIN j.tapes \subseteq DOMAIN t.tapes
  /\ \A b \in DOMAIN j.tapes :
       /\ j.tapes[b].began = t.tapes[b].began /\ j.tapes[b].executed = t.tapes[b].executed
       /\ j.tapes[b].commands \subseteq t.tapes[b].commands
  /\ \A b \in DOMAIN t.tapes \cap live : b \in DOMAIN j.tapes
  /\ \A b \in Replayable(t, live) : j.tapes[b].commands = t.tapes[b].commands
  /\ KeepSet(t, live) \cap t.entries \subseteq j.entries

\* Their buffers replay in one and in the other.
LEMMA PartReplays ==
  ASSUME NEW j, NEW t, NEW live, Part(j, t, live)
  PROVE  Replayable(j, live) = Replayable(t, live)
  <1>1. \A b \in live : (b \in DOMAIN j.tapes <=> b \in DOMAIN t.tapes)
    BY DEF Part
  <1>2. \A b \in DOMAIN j.tapes :
          j.tapes[b].began = t.tapes[b].began /\ j.tapes[b].executed = t.tapes[b].executed
    BY DEF Part
  <1>3. \A b \in live : Began(j, b) = Began(t, b)
    BY <1>1, <1>2 DEF Began
  <1>4. \A x : Holds(j, live, x) <=> Holds(t, live, x)
    BY <1>3 DEF Holds
  <1>5. \A S : Closed(j, live, S) <=> Closed(t, live, S)
    BY <1>1, <1>2, <1>4 DEF Closed
  <1> QED BY <1>5, ReplayableIs

LEMMA TrueIs ==
  ASSUME NEW j, NEW live
  PROVE  \A i : i \in TrueStill(j, live) <=>
           \/ /\ i \in j.entries /\ i.about \in {"created", "mutated"} /\ i.keys \cap live # {}
           \/ \E b \in Replayable(j, live) : i \in j.tapes[b].commands
  BY DEF TrueStill

\* An export carries the same of both.
LEMMA PartKeeps ==
  ASSUME NEW j, NEW t, NEW live, Part(j, t, live)
  PROVE  KeepSet(j, live) = KeepSet(t, live)
  <1> DEFINE N == Needed(t, live)
  <1>1. j.entries \subseteq t.entries /\ KeepSet(t, live) \cap t.entries \subseteq j.entries
    BY DEF Part
  <1>2. \A i : i \in Reached(t, live) => i \in KeepSet(t, live)
    BY KeepIs
  <1>3. TrueStill(j, live) = TrueStill(t, live)
    <2>1. \A b \in Replayable(t, live) : j.tapes[b].commands = t.tapes[b].commands
      BY DEF Part
    <2>2. \A i \in TrueStill(t, live) : i \in KeepSet(t, live)
      BY <1>2 DEF Reached
    <2>3. \A i : i \in TrueStill(j, live) => i \in TrueStill(t, live)
      BY <1>1, <2>1, PartReplays, TrueIs
    <2>4. \A i : i \in TrueStill(t, live) => i \in TrueStill(j, live)
      BY <1>1, <2>1, <2>2, PartReplays, TrueIs
    <2> QED BY <2>3, <2>4
  <1>4. Creates(j) \subseteq Creates(t) /\ \A c \in Creates(t) : c \in KeepSet(t, live) => c \in Creates(j)
    BY <1>1 DEF Creates
  <1>5. N \subseteq Creates(j) /\ Making(t, live, N)
    BY <1>2, <1>4, NeededIs DEF Making, Reached
  <1>6. \A I : CreatorsOf(j, I) \subseteq CreatorsOf(t, I)
    BY <1>4 DEF CreatorsOf
  <1>7. Making(j, live, N)
    BY <1>3, <1>5, <1>6 DEF Making
  <1>8. N \subseteq Needed(j, live)
    <2> DEFINE M == Needed(j, live)
    <2>1. Making(j, live, M) /\ M \subseteq N
      BY <1>7, NeededIs
    <2>2. \A c : c \in CreatorsOf(t, TrueStill(t, live)) \cup CreatorsOf(t, M) => c \in N
      BY <1>5, <2>1, CreatorsGrow DEF Making
    <2>3. \A I : \A c \in CreatorsOf(t, I) : c \in Creates(j) => c \in CreatorsOf(j, I)
      BY DEF CreatorsOf
    <2>4. M \subseteq Creates(t)
      BY <1>4, <2>1 DEF Making
    <2>5. CreatorsOf(t, TrueStill(t, live)) \subseteq M /\ CreatorsOf(t, M) \subseteq M
      BY <1>3, <1>5, <2>1, <2>2, <2>3 DEF Making
    <2> HIDE DEF M
    <2>6. Making(t, live, M)
      BY <2>4, <2>5 DEF Making
    <2> QED BY <2>6, NeededIs DEF M
  <1>9. Reached(j, live) = Reached(t, live)
    BY <1>3, <1>7, <1>8, NeededIs DEF Reached
  <1>10. \A c \in Reached(t, live) : c \in Creates(j) <=> c \in Creates(t)
    BY <1>2, <1>4
  <1>11. \A i : i \in KeepSet(j, live) => i \in KeepSet(t, live)
    BY <1>1, <1>9, <1>10, KeepIs
  <1>12. \A i : i \in KeepSet(t, live) => i \in KeepSet(j, live)
    BY <1>1, <1>9, <1>10, KeepIs
  <1> QED BY <1>11, <1>12

-----------------------------------------------------------------------------
(* What the steps do to the two                                            *)

\* Objects are numbered to m and commands to s.
Numbered(t, live, m, s) ==
  /\ m \in Nat /\ s \in Nat /\ live \subseteq 1..m
  /\ \A i \in t.entries : i.keys \subseteq 1..m /\ i.about # "recorded"
  /\ DOMAIN t.tapes \subseteq 1..m
  /\ \A b \in DOMAIN t.tapes :
       /\ t.tapes[b].began \in 1..s
       /\ \A x \in t.tapes[b].executed : x.began \in 0..s

Shaped(j) == j = [entries |-> j.entries, tapes |-> j.tapes]

\* Fewer live: no more replay, and no more is kept.
LEMMA Fewer ==
  ASSUME NEW j, NEW t, NEW live, NEW later \in SUBSET live, Part(j, t, live)
  PROVE  Part(j, t, later)
  <1>1. \A x : Holds(t, later, x) => Holds(t, live, x)
    BY DEF Holds
  <1>2. Closed(t, live, Replayable(t, later))
    BY <1>1, ReplayableIs DEF Closed
  <1>3. Replayable(t, later) \subseteq Replayable(t, live)
    BY <1>2, ReplayableIs
  <1>4. \A i \in TrueStill(t, later) : i \in TrueStill(t, live)
    BY <1>3, TrueIs
  <1>5. KeepSet(t, later) \subseteq KeepSet(t, live)
    <2>1. KeepSet(t, later) \subseteq KeepSet(t, live) \cup {}
      BY <1>4, KeepGrows
    <2> QED BY <2>1
  <1> QED BY <1>3, <1>5 DEF Part

\* A compaction keeps what is kept.
LEMMA Compacts ==
  ASSUME NEW j, NEW t, NEW live, Part(j, t, live)
  PROVE  Part(Compacted(j, live), t, live)
  <1> DEFINE c == Compacted(j, live)
             K == KeepSet(j, live)
  <1>1. c.entries = j.entries \cap K
    BY DEF Compacted
  <1>2. /\ DOMAIN c.tapes \subseteq DOMAIN j.tapes
        /\ \A b \in DOMAIN j.tapes : b \in live => b \in DOMAIN c.tapes
        /\ \A b \in DOMAIN c.tapes : /\ c.tapes[b].began = j.tapes[b].began
                                     /\ c.tapes[b].executed = j.tapes[b].executed
                                     /\ c.tapes[b].commands = j.tapes[b].commands \cap K
    BY DEF Compacted, Stays
  <1>3. K = KeepSet(t, live)
    BY PartKeeps
  <1> HIDE DEF c, K
  <1>4. ASSUME NEW b \in Replayable(t, live) PROVE c.tapes[b].commands = t.tapes[b].commands
    <2>1. b \in Replayable(j, live) /\ b \in DOMAIN j.tapes /\ b \in live
      BY PartReplays, ReplayableIs DEF Closed
    <2>2. j.tapes[b].commands = t.tapes[b].commands
      BY DEF Part
    <2>3. \A i \in j.tapes[b].commands : i \in K
      BY <2>1, TrueIs, KeepIs DEF K, Reached
    <2> QED BY <1>2, <2>1, <2>2, <2>3
  <1>5. KeepSet(t, live) \cap t.entries \subseteq c.entries
    BY <1>1, <1>3 DEF Part
  <1>6. c.entries \subseteq t.entries /\ DOMAIN c.tapes \subseteq DOMAIN t.tapes
    BY <1>1, <1>2 DEF Part
  <1>7. \A b \in DOMAIN c.tapes :
          /\ c.tapes[b].began = t.tapes[b].began /\ c.tapes[b].executed = t.tapes[b].executed
          /\ c.tapes[b].commands \subseteq t.tapes[b].commands
    BY <1>2 DEF Part
  <1>8. \A b \in DOMAIN t.tapes \cap live : b \in DOMAIN c.tapes
    BY <1>2 DEF Part
  <1> QED BY <1>4, <1>5, <1>6, <1>7, <1>8 DEF Part, c

\* A buffer that replays later does so now, when what is new was never recorded.
LEMMA StillReplays ==
  ASSUME NEW t, NEW k, NEW live, NEW later, NEW m, NEW s, Numbered(t, live, m, s),
         k.tapes = t.tapes, later \cap 1..m \subseteq live
  PROVE  Replayable(k, later) \subseteq Replayable(t, live)
  <1>1. \A b : Began(k, b) = Began(t, b)
    BY DEF Began
  <1>2. \A b : Began(t, b) # 0 => b \in DOMAIN t.tapes
    BY DEF Began
  <1>3. DOMAIN t.tapes \subseteq 1..m
    BY DEF Numbered
  <1>4. \A x : Holds(k, later, x) => Holds(t, live, x)
    BY <1>1, <1>2, <1>3 DEF Holds
  <1>5. Closed(k, later, Replayable(k, later))
    BY ReplayableIs
  <1>6. Closed(t, live, Replayable(k, later))
    BY <1>3, <1>4, <1>5 DEF Closed
  <1> QED BY <1>6, ReplayableIs

\* What an entry names was made by something true, or with it.
LEMMA NamedMade ==
  ASSUME NEW t, NEW live, NEW m, NEW s, Numbered(t, live, m, s), NEW e,
         e.refs \subseteq live,
         e.about = "created" => e.keys \cap 1..m = {},
         e.about # "created" => e.keys \subseteq live
  PROVE  /\ \A c \in Creates(t) : c.keys \cap (e.refs \cup e.keys) # {} => c \in TrueStill(t, live)
         /\ e.about = "created" => \A u \in t.entries : u.keys \cap e.keys = {}
  <1>1. \A u \in t.entries : u.keys \subseteq 1..m
    BY DEF Numbered
  <1>2. e.about = "created" => \A u \in t.entries : u.keys \cap e.keys = {}
    BY <1>1
  <1>3. ASSUME NEW c \in Creates(t), c.keys \cap (e.refs \cup e.keys) # {}
        PROVE  c \in TrueStill(t, live)
    <2>1. c \in t.entries /\ c.about = "created"
      BY DEF Creates
    <2>2. c.keys \cap live # {}
      BY <1>2, <1>3, <2>1
    <2> QED BY <2>1, <2>2, TrueIs
  <1> QED BY <1>2, <1>3

\* A command pushed on both, as something may be made with it.
LEMMA Pushes ==
  ASSUME NEW j, NEW t, NEW jj, NEW tt, NEW live, NEW later, NEW m, NEW s, NEW e,
         Part(j, t, live), Numbered(t, live, m, s),
         jj.entries = j.entries \cup {e}, jj.tapes = j.tapes,
         tt.entries = t.entries \cup {e}, tt.tapes = t.tapes,
         later \cap 1..m \subseteq live, e.refs \subseteq live,
         e.about = "created" => e.keys \cap 1..m = {},
         e.about # "created" => e.keys \subseteq live
  PROVE  Part(jj, tt, later)
  <1>1. Replayable(tt, later) \subseteq Replayable(t, live)
    BY StillReplays
  <1>2. \A u \in t.entries : u.keys \subseteq 1..m
    BY DEF Numbered
  <1>3. \A i \in TrueStill(tt, later) : i \in TrueStill(t, live) \/ i = e
    BY <1>1, <1>2, TrueIs
  <1>4. KeepSet(tt, later) \subseteq KeepSet(t, live) \cup {e}
    <2> DEFINE New == {e}
    <2>1. /\ \A n \in New : \A c \in Creates(t) :
               c.keys \cap (n.refs \cup n.keys) # {} => c \in TrueStill(t, live)
          /\ \A n \in New : n.about = "created" => \A u \in t.entries : u.keys \cap n.keys = {}
      <3>1. /\ \A c \in Creates(t) : c.keys \cap (e.refs \cup e.keys) # {} => c \in TrueStill(t, live)
            /\ e.about = "created" => \A u \in t.entries : u.keys \cap e.keys = {}
        BY NamedMade
      <3> QED BY <3>1
    <2>2. tt.entries \subseteq t.entries \cup New
          /\ TrueStill(tt, later) \subseteq TrueStill(t, live) \cup New
      BY <1>3
    <2> HIDE DEF New
    <2>3. KeepSet(tt, later) \subseteq KeepSet(t, live) \cup New
      BY <2>1, <2>2, KeepGrows
    <2> QED BY <2>3 DEF New
  <1>5. KeepSet(tt, later) \cap tt.entries \subseteq jj.entries
    BY <1>4 DEF Part
  <1>6. jj.entries \subseteq tt.entries /\ DOMAIN jj.tapes \subseteq DOMAIN tt.tapes
    BY DEF Part
  <1>7. \A b \in DOMAIN jj.tapes :
          /\ jj.tapes[b].began = tt.tapes[b].began /\ jj.tapes[b].executed = tt.tapes[b].executed
          /\ jj.tapes[b].commands \subseteq tt.tapes[b].commands
    BY DEF Part
  <1>8. \A b \in DOMAIN tt.tapes \cap later : b \in DOMAIN jj.tapes
    BY DEF Part, Numbered
  <1>9. \A b \in Replayable(tt, later) : jj.tapes[b].commands = tt.tapes[b].commands
    BY <1>1 DEF Part
  <1> QED BY <1>5, <1>6, <1>7, <1>8, <1>9 DEF Part

\* A pool reset, which both do: nothing replays for it that did not.
LEMMA Empties ==
  ASSUME NEW j, NEW t, NEW live, NEW m, NEW s, NEW B,
         Part(j, t, live), Numbered(t, live, m, s),
         Shaped(j), Shaped(t)
  PROVE  Part(Without(j, B), Without(t, B), live)
  <1> DEFINE jj == Without(j, B)
             tt == Without(t, B)
  <1>1. /\ jj.entries = j.entries /\ DOMAIN jj.tapes = DOMAIN j.tapes \ B
        /\ \A b \in DOMAIN jj.tapes : jj.tapes[b] = j.tapes[b]
    BY DEF Without, Shaped
  <1>2. /\ tt.entries = t.entries /\ DOMAIN tt.tapes = DOMAIN t.tapes \ B
        /\ \A b \in DOMAIN tt.tapes : tt.tapes[b] = t.tapes[b]
    BY DEF Without, Shaped
  <1> HIDE DEF jj, tt
  <1>3. \A b : Began(tt, b) # 0 => Began(t, b) = Began(tt, b)
    BY <1>2 DEF Began
  <1>4. \A x : Holds(tt, live, x) => Holds(t, live, x)
    BY <1>3 DEF Holds
  <1>5. Closed(tt, live, Replayable(tt, live))
    BY ReplayableIs
  <1>6. Closed(t, live, Replayable(tt, live))
    BY <1>2, <1>4, <1>5 DEF Closed
  <1>7. Replayable(tt, live) \subseteq Replayable(t, live)
    BY <1>6, ReplayableIs
  <1>8. \A b \in Replayable(tt, live) : b \in DOMAIN tt.tapes /\ b \in live
    BY <1>5 DEF Closed
  <1>9. \A i \in TrueStill(tt, live) : i \in TrueStill(t, live)
    BY <1>2, <1>7, <1>8, TrueIs
  <1>10. KeepSet(tt, live) \subseteq KeepSet(t, live) \cup {}
    BY <1>2, <1>9, KeepGrows
  <1>11. KeepSet(tt, live) \cap tt.entries \subseteq jj.entries
    BY <1>1, <1>2, <1>10 DEF Part
  <1>12. jj.entries \subseteq tt.entries /\ DOMAIN jj.tapes \subseteq DOMAIN tt.tapes
    BY <1>1, <1>2 DEF Part
  <1>13. \A b \in DOMAIN jj.tapes :
           /\ jj.tapes[b].began = tt.tapes[b].began /\ jj.tapes[b].executed = tt.tapes[b].executed
           /\ jj.tapes[b].commands \subseteq tt.tapes[b].commands
    BY <1>1, <1>2, <1>12 DEF Part
  <1>14. \A b \in DOMAIN tt.tapes \cap live : b \in DOMAIN jj.tapes
    BY <1>1, <1>2 DEF Part
  <1>15. \A b \in Replayable(tt, live) : jj.tapes[b].commands = tt.tapes[b].commands
    BY <1>1, <1>2, <1>7, <1>8, <1>14 DEF Part
  <1> QED BY <1>11, <1>12, <1>13, <1>14, <1>15 DEF Part, jj, tt

\* The recordings a command sees the buffers of E hold.
Saw(j, E) == {[buffer |-> x, began |-> Began(j, x)] : x \in E}

\* f is j after i was filed under b, seeing those recordings.
IsFiled(f, j, b, resets, saw, i) ==
  /\ f.entries = j.entries /\ Shaped(f)
  /\ DOMAIN f.tapes = DOMAIN j.tapes \cup {b}
  /\ \A a \in DOMAIN j.tapes : a # b => f.tapes[a] = j.tapes[a]
  /\ b \notin DOMAIN j.tapes \/ resets =>
       f.tapes[b].began = seq + 1 /\ f.tapes[b].commands = {i} /\ f.tapes[b].executed = saw
  /\ b \in DOMAIN j.tapes /\ ~resets =>
       /\ f.tapes[b].began = j.tapes[b].began
       /\ f.tapes[b].commands = j.tapes[b].commands \cup {i}
       /\ f.tapes[b].executed = j.tapes[b].executed \cup saw

LEMMA FiledIs ==
  ASSUME NEW j, Shaped(j), NEW b, NEW resets \in BOOLEAN, NEW E, NEW refs
  PROVE  IsFiled(Filed(j, b, resets, E, refs), j, b, resets, Saw(j, E),
                 Item("recorded", {b}, refs \cup E))
  <1> DEFINE i == Item("recorded", {b}, refs \cup E)
             new == [began |-> seq + 1, commands |-> {}, executed |-> {}]
             old == IF b \in DOMAIN j.tapes /\ ~resets THEN j.tapes[b] ELSE new
             now == [began |-> old.began, commands |-> old.commands \cup {i},
                     executed |-> old.executed \cup Saw(j, E)]
             tapes == [k \in DOMAIN j.tapes \cup {b} |-> IF k = b THEN now ELSE j.tapes[k]]
  <1>1. Filed(j, b, resets, E, refs) = [j EXCEPT !.tapes = tapes]
    BY DEF Filed, Saw
  <1> HIDE DEF tapes, i, Saw
  <1>2. [j EXCEPT !.tapes = tapes] = [entries |-> j.entries, tapes |-> tapes]
    BY DEF Shaped
  <1>3. DOMAIN tapes = DOMAIN j.tapes \cup {b} /\ tapes[b] = now
        /\ \A a \in DOMAIN j.tapes : a # b => tapes[a] = j.tapes[a]
    BY DEF tapes
  <1>4. b \notin DOMAIN j.tapes \/ resets =>
          now.began = seq + 1 /\ now.commands = {i} /\ now.executed = Saw(j, E)
    OBVIOUS
  <1>5. b \in DOMAIN j.tapes /\ ~resets =>
          /\ now.began = j.tapes[b].began /\ now.commands = j.tapes[b].commands \cup {i}
          /\ now.executed = j.tapes[b].executed \cup Saw(j, E)
    OBVIOUS
  <1> HIDE DEF now
  <1> DEFINE f == [entries |-> j.entries, tapes |-> tapes]
  <1>6. f.entries = j.entries /\ f.tapes = tapes /\ Shaped(f)
    BY DEF Shaped
  <1> HIDE DEF f
  <1>7. IsFiled(f, j, b, resets, Saw(j, E), i)
    BY <1>3, <1>4, <1>5, <1>6 DEF IsFiled
  <1> QED BY <1>1, <1>2, <1>7 DEF i, f

\* What replays after a command is recorded did before, but for a buffer it starts over.
LEMMA RecordReplays ==
  ASSUME NEW t, NEW k, NEW live, NEW m, Numbered(t, live, m, seq),
         NEW b \in live, NEW resets \in BOOLEAN, NEW saw, NEW i,
         IsFiled(k, t, b, resets, saw, i), NEW a \in Replayable(k, live),
         a # b \/ (b \in DOMAIN t.tapes /\ ~resets)
  PROVE  a \in Replayable(t, live)
  <1> DEFINE fresh == b \notin DOMAIN t.tapes \/ resets
             R == Replayable(k, live)
  <1>1. /\ DOMAIN k.tapes = DOMAIN t.tapes \cup {b}
        /\ \A c \in DOMAIN t.tapes : c # b => k.tapes[c] = t.tapes[c]
        /\ fresh => k.tapes[b].began = seq + 1
        /\ ~fresh => /\ k.tapes[b].began = t.tapes[b].began
                     /\ k.tapes[b].executed = t.tapes[b].executed \cup saw
    BY DEF IsFiled
  <1>2. Closed(k, live, R)
    BY ReplayableIs
  <1>3. seq \in Nat /\ \A c \in DOMAIN t.tapes : \A x \in t.tapes[c].executed : x.began \in 0..seq
    BY DEF Numbered
  <1> HIDE DEF R
  <1>4. ASSUME NEW c \in DOMAIN t.tapes, NEW x \in t.tapes[c].executed, Holds(k, live, x)
        PROVE  Holds(t, live, x) /\ (fresh => x.buffer # b)
    <2>1. x.began # 0 /\ x.buffer \in live /\ Began(k, x.buffer) = x.began
      BY <1>4 DEF Holds
    <2>2. CASE x.buffer # b
      <3>1. Began(k, x.buffer) = Began(t, x.buffer)
        BY <1>1, <2>2 DEF Began
      <3> QED BY <2>1, <2>2, <3>1 DEF Holds
    <2>3. CASE x.buffer = b /\ fresh
      <3>1. Began(k, b) = seq + 1
        BY <1>1, <2>3 DEF Began
      <3>2. x.began \in 0..seq
        BY <1>3
      <3> QED BY <1>3, <2>1, <2>3, <3>1, <3>2
    <2>4. CASE x.buffer = b /\ ~fresh
      <3>1. Began(k, b) = Began(t, b)
        BY <1>1, <2>4 DEF Began
      <3> QED BY <2>1, <2>4, <3>1 DEF Holds
    <2> QED BY <2>2, <2>3, <2>4
  <1> DEFINE Q == IF fresh THEN R \ {b} ELSE R
  <1>5. ASSUME NEW c \in Q
        PROVE  /\ c \in DOMAIN t.tapes /\ c \in live
               /\ \A x \in t.tapes[c].executed : Holds(t, live, x) /\ x.buffer \in Q
    <2>1. c \in DOMAIN k.tapes /\ c \in live
          /\ \A x \in k.tapes[c].executed : Holds(k, live, x) /\ x.buffer \in R
      BY <1>2 DEF Closed
    <2>2. c \in DOMAIN t.tapes /\ t.tapes[c].executed \subseteq k.tapes[c].executed
      BY <1>1, <2>1
    <2> QED BY <1>4, <2>1, <2>2
  <1>6. Closed(t, live, Q)
    BY <1>5 DEF Closed
  <1>7. a \in Q
    BY DEF R
  <1> QED BY <1>6, <1>7, ReplayableIs

\* A command recorded on both: what replays did, but for the buffer it starts over.
LEMMA Records ==
  ASSUME NEW j, NEW t, NEW live, NEW m, Part(j, t, live), Numbered(t, live, m, seq),
         Shaped(j), Shaped(t),
         NEW b \in live, NEW resets \in BOOLEAN, NEW E \in SUBSET live, NEW refs \in SUBSET live
  PROVE  Part(Filed(j, b, resets, E, refs), Filed(t, b, resets, E, refs), live)
  <1> DEFINE jj == Filed(j, b, resets, E, refs)
             tt == Filed(t, b, resets, E, refs)
             i == Item("recorded", {b}, refs \cup E)
             fresh == b \notin DOMAIN t.tapes \/ resets
  <1>0. /\ IsFiled(jj, j, b, resets, Saw(j, E), i)
        /\ IsFiled(tt, t, b, resets, Saw(t, E), i)
    BY FiledIs
  <1>3. i.about = "recorded" /\ i.keys = {b} /\ i.refs = refs \cup E
    BY DEF Item
  <1> HIDE DEF jj, tt, i
  <1>1. /\ jj.entries = j.entries /\ DOMAIN jj.tapes = DOMAIN j.tapes \cup {b}
        /\ \A a \in DOMAIN j.tapes : a # b => jj.tapes[a] = j.tapes[a]
        /\ b \notin DOMAIN j.tapes \/ resets =>
             /\ jj.tapes[b].began = seq + 1 /\ jj.tapes[b].commands = {i}
             /\ jj.tapes[b].executed = Saw(j, E)
        /\ b \in DOMAIN j.tapes /\ ~resets =>
             /\ jj.tapes[b].began = j.tapes[b].began
             /\ jj.tapes[b].commands = j.tapes[b].commands \cup {i}
             /\ jj.tapes[b].executed = j.tapes[b].executed \cup Saw(j, E)
    BY <1>0 DEF IsFiled
  <1>2. /\ tt.entries = t.entries /\ DOMAIN tt.tapes = DOMAIN t.tapes \cup {b}
        /\ \A a \in DOMAIN t.tapes : a # b => tt.tapes[a] = t.tapes[a]
        /\ fresh => /\ tt.tapes[b].began = seq + 1 /\ tt.tapes[b].commands = {i}
                    /\ tt.tapes[b].executed = Saw(t, E)
        /\ ~fresh => /\ tt.tapes[b].began = t.tapes[b].began
                     /\ tt.tapes[b].commands = t.tapes[b].commands \cup {i}
                     /\ tt.tapes[b].executed = t.tapes[b].executed \cup Saw(t, E)
    BY <1>0 DEF IsFiled
  <1>4. \A a \in live : (a \in DOMAIN j.tapes <=> a \in DOMAIN t.tapes)
    BY DEF Part
  <1>5. \A a \in DOMAIN j.tapes :
          /\ j.tapes[a].began = t.tapes[a].began /\ j.tapes[a].executed = t.tapes[a].executed
          /\ j.tapes[a].commands \subseteq t.tapes[a].commands
    BY DEF Part
  <1>6. Saw(j, E) = Saw(t, E)
    <2>1. \A a \in live : Began(j, a) = Began(t, a)
      BY <1>4, <1>5 DEF Began
    <2> QED BY <2>1 DEF Saw
  <1> DEFINE R == Replayable(tt, live)
  <1>7. Closed(tt, live, R)
    BY ReplayableIs
  <1> HIDE DEF R
  <1>8. /\ \A a \in R : a # b => a \in Replayable(t, live)
        /\ b \in R /\ ~fresh => b \in Replayable(t, live)
    BY <1>0, RecordReplays DEF R
  <1>9. \A a \in R : a \in live /\ a \in DOMAIN tt.tapes
    BY <1>7 DEF Closed
  <1>10. \A n \in TrueStill(tt, live) : n \in TrueStill(t, live) \/ n = i
    <2>1. ASSUME NEW a \in R, NEW n \in tt.tapes[a].commands PROVE n \in TrueStill(t, live) \/ n = i
      <3>1. CASE a # b
        BY <1>2, <1>8, <1>9, <2>1, <3>1, TrueIs
      <3>2. CASE a = b /\ fresh
        BY <1>2, <2>1, <3>2
      <3>3. CASE a = b /\ ~fresh
        BY <1>2, <1>8, <2>1, <3>3, TrueIs
      <3> QED BY <3>1, <3>2, <3>3
    <2> QED BY <1>2, <2>1, TrueIs DEF R
  <1>11. KeepSet(tt, live) \subseteq KeepSet(t, live) \cup {i}
    <2> DEFINE New == {i}
    <2>1. \A c \in Creates(t) : c.keys \cap (i.refs \cup i.keys) # {} => c \in TrueStill(t, live)
      <3>1. i.refs \cup i.keys \subseteq live
        BY <1>3
      <3>2. \A c \in Creates(t) : c \in t.entries /\ c.about = "created"
        BY DEF Creates
      <3> QED BY <3>1, <3>2, TrueIs
    <2>2. /\ \A n \in New : \A c \in Creates(t) :
               c.keys \cap (n.refs \cup n.keys) # {} => c \in TrueStill(t, live)
          /\ \A n \in New : n.about = "created" => \A u \in t.entries : u.keys \cap n.keys = {}
      BY <1>3, <2>1
    <2>3. tt.entries \subseteq t.entries \cup New
          /\ TrueStill(tt, live) \subseteq TrueStill(t, live) \cup New
      BY <1>2, <1>10
    <2> HIDE DEF New
    <2>4. KeepSet(tt, live) \subseteq KeepSet(t, live) \cup New
      BY <2>2, <2>3, KeepGrows
    <2> QED BY <2>4 DEF New
  <1>12. KeepSet(tt, live) \cap tt.entries \subseteq jj.entries
    <2>1. ASSUME NEW n \in t.entries, n \in KeepSet(tt, live) PROVE n \in j.entries
      <3>1. CASE n \in KeepSet(t, live)
        BY <2>1, <3>1 DEF Part
      <3>2. CASE n = i
        <4>1. n.about # "recorded"
          BY DEF Numbered
        <4> QED BY <1>3, <3>2, <4>1
      <3> QED BY <1>11, <2>1, <3>1, <3>2
    <2> QED BY <1>1, <1>2, <2>1
  <1>13. jj.entries \subseteq tt.entries /\ DOMAIN jj.tapes \subseteq DOMAIN tt.tapes
    BY <1>1, <1>2 DEF Part
  <1>14. \A a \in DOMAIN jj.tapes :
           /\ jj.tapes[a].began = tt.tapes[a].began /\ jj.tapes[a].executed = tt.tapes[a].executed
           /\ jj.tapes[a].commands \subseteq tt.tapes[a].commands
    BY <1>1, <1>2, <1>4, <1>5, <1>6, ZenonT(60) DEF Part
  <1>15. \A a \in DOMAIN tt.tapes \cap live : a \in DOMAIN jj.tapes
    BY <1>1, <1>2, <1>4
  <1>16. \A a \in R : jj.tapes[a].commands = tt.tapes[a].commands
    <2>1. \A a \in Replayable(t, live) : j.tapes[a].commands = t.tapes[a].commands
      BY DEF Part
    <2> QED BY <1>1, <1>2, <1>4, <1>8, <1>9, <2>1
  <1> QED BY <1>12, <1>13, <1>14, <1>15, <1>16 DEF Part, R, jj, tt

-----------------------------------------------------------------------------
(* Every step                                                              *)

\* The numbers only grow.
LEMMA StillNumbered ==
  ASSUME NEW t, NEW k, NEW live, NEW later, NEW m, NEW s, NEW mm \in Nat, NEW ss \in Nat,
         Numbered(t, live, m, s), m <= mm, s <= ss, later \subseteq 1..mm,
         \A i \in k.entries : i \in t.entries \/ (i.keys \subseteq 1..mm /\ i.about # "recorded"),
         DOMAIN k.tapes \subseteq DOMAIN t.tapes,
         \A b \in DOMAIN k.tapes : k.tapes[b] = t.tapes[b]
  PROVE  Numbered(k, later, mm, ss)
  <1>1. 1..m \subseteq 1..mm /\ 1..s \subseteq 1..ss /\ 0..s \subseteq 0..ss
    BY DEF Numbered
  <1>2. \A i \in k.entries : i.keys \subseteq 1..mm /\ i.about # "recorded"
    BY <1>1 DEF Numbered
  <1>3. DOMAIN k.tapes \subseteq 1..mm
    BY <1>1 DEF Numbered
  <1>4. ASSUME NEW b \in DOMAIN k.tapes
        PROVE  /\ k.tapes[b].began \in 1..ss
               /\ \A x \in k.tapes[b].executed : x.began \in 0..ss
    <2>1. b \in DOMAIN t.tapes /\ k.tapes[b] = t.tapes[b]
      OBVIOUS
    <2>2. t.tapes[b].began \in 1..s /\ \A x \in t.tapes[b].executed : x.began \in 0..s
      BY <2>1 DEF Numbered
    <2> QED BY <1>1, <2>1, <2>2
  <1> QED BY <1>2, <1>3, <1>4 DEF Numbered

LEMMA FiledNumbered ==
  ASSUME NEW t, NEW live, NEW m, Numbered(t, live, m, seq), Shaped(t),
         NEW b \in live, NEW resets \in BOOLEAN, NEW E, NEW refs
  PROVE  Numbered(Filed(t, b, resets, E, refs), live, m, seq + 1)
  <1> DEFINE k == Filed(t, b, resets, E, refs)
             i == Item("recorded", {b}, refs \cup E)
  <1>1. IsFiled(k, t, b, resets, Saw(t, E), i)
    BY FiledIs
  <1> HIDE DEF k, i
  <1>2. m \in Nat /\ seq \in Nat /\ live \subseteq 1..m
    BY DEF Numbered
  <1>3. 1..seq \subseteq 1..seq + 1 /\ 0..seq \subseteq 0..seq + 1 /\ seq + 1 \in 1..seq + 1
        /\ 1..seq \subseteq 0..seq
    BY <1>2
  <1>4. \A x \in Saw(t, E) : x.began \in 0..seq
    <2>1. \A a : Began(t, a) \in 0..seq
      BY <1>2, <1>3 DEF Began, Numbered
    <2> QED BY <2>1 DEF Saw
  <1>5. ASSUME NEW a \in DOMAIN k.tapes
        PROVE  /\ k.tapes[a].began \in 1..seq + 1
               /\ \A x \in k.tapes[a].executed : x.began \in 0..seq + 1
    <2>1. \A c \in DOMAIN t.tapes :
            t.tapes[c].began \in 1..seq /\ \A x \in t.tapes[c].executed : x.began \in 0..seq
      BY DEF Numbered
    <2>2. CASE a # b
      <3>1. a \in DOMAIN t.tapes /\ k.tapes[a] = t.tapes[a]
        BY <1>1, <2>2 DEF IsFiled
      <3> QED BY <1>3, <2>1, <3>1
    <2>3. CASE a = b /\ (b \notin DOMAIN t.tapes \/ resets)
      <3>1. k.tapes[a].began = seq + 1 /\ k.tapes[a].executed = Saw(t, E)
        BY <1>1, <2>3 DEF IsFiled
      <3> QED BY <1>3, <1>4, <3>1
    <2>4. CASE a = b /\ b \in DOMAIN t.tapes /\ ~resets
      <3>1. k.tapes[a].began = t.tapes[a].began
            /\ k.tapes[a].executed = t.tapes[a].executed \cup Saw(t, E)
        BY <1>1, <2>4 DEF IsFiled
      <3> QED BY <1>3, <1>4, <2>1, <2>4, <3>1
    <2> QED BY <2>2, <2>3, <2>4
  <1>6. k.entries = t.entries /\ DOMAIN k.tapes = DOMAIN t.tapes \cup {b}
    BY <1>1 DEF IsFiled
  <1>7. \A e \in k.entries : e.keys \subseteq 1..m /\ e.about # "recorded"
    BY <1>6 DEF Numbered
  <1>8. DOMAIN k.tapes \subseteq 1..m
    BY <1>2, <1>6 DEF Numbered
  <1>9. seq + 1 \in Nat
    BY <1>2
  <1>10. Numbered(k, live, m, seq + 1)
    BY <1>2, <1>5, <1>7, <1>8, <1>9 DEF Numbered
  <1> QED BY <1>10 DEF k

\* A context may send some number of commands of each kind.
Afforded == Budgets \subseteq [Kinds -> Nat]

\* What every step keeps: the journal is what is left of its twin.
IInv ==
  /\ Part(journal, twin, Live) /\ Numbered(twin, Live, minted, seq)
  /\ Shaped(journal) /\ Shaped(twin)
  /\ left \in [Kinds -> Nat]

LEMMA Pushed ==
  ASSUME NEW about, NEW keys, NEW refs, Push(about, keys, refs), IInv,
         minted' \in Nat, minted <= minted', Live' \subseteq 1..minted',
         Live' \cap 1..minted \subseteq Live, refs \subseteq Live,
         about \in {"created", "mutated", "undoes"}, keys \subseteq 1..minted',
         about = "created" => keys \cap 1..minted = {},
         about # "created" => keys \subseteq Live
  PROVE  /\ Part(journal', twin', Live') /\ Numbered(twin', Live', minted', seq')
         /\ Shaped(journal') /\ Shaped(twin')
  <1> DEFINE e == Item(about, keys, refs)
             later == Live'
  <1>1. /\ seq' = seq + 1
        /\ journal' = [journal EXCEPT !.entries = @ \cup {e}]
        /\ twin' = [twin EXCEPT !.entries = @ \cup {e}]
    BY DEF Push
  <1>2. e.about = about /\ e.keys = keys /\ e.refs = refs
    BY DEF Item
  <1> HIDE DEF e, later
  <1>3. /\ journal'.entries = journal.entries \cup {e} /\ journal'.tapes = journal.tapes
        /\ twin'.entries = twin.entries \cup {e} /\ twin'.tapes = twin.tapes
        /\ Shaped(journal') /\ Shaped(twin')
    BY <1>1 DEF IInv, Shaped
  <1>4. Part(journal, twin, Live) /\ Numbered(twin, Live, minted, seq)
    BY DEF IInv
  <1>5. later \cap 1..minted \subseteq Live /\ later \subseteq 1..minted'
    BY DEF later
  <1>6. Part(journal', twin', later)
    <2>1. /\ e.refs \subseteq Live
          /\ e.about = "created" => e.keys \cap 1..minted = {}
          /\ e.about # "created" => e.keys \subseteq Live
      BY <1>2
    <2> DEFINE jj == journal'
               tt == twin'
               now == Live
    <2>2. /\ Part(journal, twin, now) /\ Numbered(twin, now, minted, seq)
          /\ jj.entries = journal.entries \cup {e} /\ jj.tapes = journal.tapes
          /\ tt.entries = twin.entries \cup {e} /\ tt.tapes = twin.tapes
          /\ later \cap 1..minted \subseteq now /\ e.refs \subseteq now
          /\ e.about = "created" => e.keys \cap 1..minted = {}
          /\ e.about # "created" => e.keys \subseteq now
      BY <1>3, <1>4, <1>5, <2>1
    <2> HIDE DEF jj, tt, now
    <2>3. Part(jj, tt, later)
      BY <2>2, Pushes
    <2> QED BY <2>3 DEF jj, tt
  <1>7. seq \in Nat /\ seq' \in Nat /\ seq <= seq'
    BY <1>1, <1>4 DEF Numbered
  <1>8. \A i \in twin'.entries :
          i \in twin.entries \/ (i.keys \subseteq 1..minted' /\ i.about # "recorded")
    BY <1>2, <1>3
  <1>9. Numbered(twin', later, minted', seq')
    BY <1>3, <1>4, <1>5, <1>7, <1>8, StillNumbered
  <1> QED BY <1>3, <1>6, <1>9 DEF later

LEMMA Spent ==
  ASSUME IInv, NEW kind \in Kinds, Spend(kind)
  PROVE  left' \in [Kinds -> Nat]
  <1>1. left \in [Kinds -> Nat] /\ left[kind] > 0 /\ left' = [left EXCEPT ![kind] = @ - 1]
    BY DEF IInv, Spend
  <1>2. left[kind] - 1 \in Nat
    BY <1>1
  <1> QED BY <1>1, <1>2

LEMMA CreateKeeps ==
  ASSUME IInv, NEW n \in Nat, NEW refs \in SUBSET Objects, NEW recorders \in BOOLEAN,
         Create(n, refs, recorders)
  PROVE  IInv'
  <1> DEFINE made == minted + 1..minted + n
  <1>1. /\ Spend("create") /\ Push("created", made, refs)
        /\ minted' = minted + n /\ alive' = alive \cup made /\ held' = held
    BY DEF Create
  <1>2. minted \in Nat /\ Live \subseteq 1..minted
    BY DEF IInv, Numbered
  <1>3. /\ minted' \in Nat /\ minted <= minted' /\ made \subseteq 1..minted'
        /\ made \cap 1..minted = {} /\ 1..minted \subseteq 1..minted'
    BY <1>1, <1>2
  <1> HIDE DEF made
  <1>4. Live' = Live \cup made /\ refs \subseteq Live
    BY <1>1 DEF Live, Objects
  <1>5. Live' \subseteq 1..minted' /\ Live' \cap 1..minted \subseteq Live
    BY <1>2, <1>3, <1>4
  <1>6. /\ Part(journal', twin', Live') /\ Numbered(twin', Live', minted', seq')
        /\ Shaped(journal') /\ Shaped(twin')
    BY <1>1, <1>3, <1>4, <1>5, Pushed
  <1>7. left' \in [Kinds -> Nat]
    BY <1>1, Spent DEF Kinds
  <1> QED BY <1>6, <1>7 DEF IInv

LEMMA MutateKeeps ==
  ASSUME IInv, NEW into \in SUBSET Objects, NEW refs \in SUBSET Objects, Mutate(into, refs)
  PROVE  IInv'
  <1>1. /\ Spend("write") /\ Push("mutated", into, refs)
        /\ minted' = minted /\ alive' = alive /\ held' = held
    BY DEF Mutate, worldVars
  <1>2. minted \in Nat /\ Live \subseteq 1..minted
    BY DEF IInv, Numbered
  <1>3. Live' = Live /\ refs \subseteq Live /\ into \subseteq Live
    BY <1>1 DEF Live, Objects
  <1>4. /\ minted' \in Nat /\ minted <= minted' /\ Live' \subseteq 1..minted'
        /\ Live' \cap 1..minted \subseteq Live /\ into \subseteq 1..minted'
    BY <1>1, <1>2, <1>3
  <1>5. /\ Part(journal', twin', Live') /\ Numbered(twin', Live', minted', seq')
        /\ Shaped(journal') /\ Shaped(twin')
    BY <1>1, <1>3, <1>4, Pushed
  <1>6. left' \in [Kinds -> Nat]
    BY <1>1, Spent DEF Kinds
  <1> QED BY <1>5, <1>6 DEF IInv

LEMMA FreeKeeps ==
  ASSUME IInv, NEW K \in SUBSET alive, Free(K)
  PROVE  IInv'
  <1> DEFINE none == {}
  <1>1. /\ Spend("free") /\ Push("undoes", K, none)
        /\ minted' = minted /\ alive' = alive \ K /\ held' = held
    BY DEF Free
  <1>2. minted \in Nat /\ Live \subseteq 1..minted
    BY DEF IInv, Numbered
  <1>3. Live' \subseteq Live /\ K \subseteq Live
    BY <1>1 DEF Live
  <1>4. /\ minted' \in Nat /\ minted <= minted' /\ Live' \subseteq 1..minted'
        /\ Live' \cap 1..minted \subseteq Live /\ K \subseteq 1..minted' /\ none \subseteq Live
    BY <1>1, <1>2, <1>3
  <1> HIDE DEF none
  <1>5. /\ Part(journal', twin', Live') /\ Numbered(twin', Live', minted', seq')
        /\ Shaped(journal') /\ Shaped(twin')
    BY <1>1, <1>3, <1>4, Pushed
  <1>6. left' \in [Kinds -> Nat]
    BY <1>1, Spent DEF Kinds
  <1> QED BY <1>5, <1>6 DEF IInv

\* A step that writes nothing, and after which no more is live.
LEMMA Unwritten ==
  ASSUME IInv, minted' = minted, seq' = seq \/ seq' = seq + 1, journal' = journal, twin' = twin,
         Live' \subseteq Live, left' \in [Kinds -> Nat]
  PROVE  IInv'
  <1>1. Part(journal, twin, Live) /\ Numbered(twin, Live, minted, seq)
    BY DEF IInv
  <1>2. seq \in Nat /\ minted \in Nat /\ Live \subseteq 1..minted
    BY <1>1 DEF Numbered
  <1> DEFINE later == Live'
             s == seq'
  <1>3. later \subseteq Live /\ later \subseteq 1..minted /\ s \in Nat /\ seq <= s
    BY <1>2
  <1> HIDE DEF later, s
  <1>4. Part(journal, twin, later)
    BY <1>1, <1>3, Fewer
  <1>5. Numbered(twin, later, minted, s)
    <2>1. minted <= minted
      BY <1>2
    <2> DEFINE now == Live
    <2>2. Numbered(twin, now, minted, seq) /\ later \subseteq 1..minted
      BY <1>1, <1>3
    <2> HIDE DEF now
    <2> QED BY <1>2, <1>3, <2>1, <2>2, StillNumbered
  <1> QED BY <1>4, <1>5 DEF IInv, later, s

LEMMA RecordKeeps ==
  ASSUME IInv, NEW b \in Recorders, NEW resets \in BOOLEAN, NEW E \in SUBSET Recorders,
         NEW refs \in SUBSET Objects, Record(b, resets, E, refs)
  PROVE  IInv'
  <1>1. /\ Spend(IF resets THEN "reset" ELSE "record") /\ seq' = seq + 1
        /\ journal' = Filed(journal, b, resets, E, refs)
        /\ twin' = Filed(twin, b, resets, E, refs)
        /\ minted' = minted /\ alive' = alive /\ held' = held
    BY DEF Record, worldVars
  <1>2. /\ Part(journal, twin, Live) /\ Numbered(twin, Live, minted, seq)
        /\ Shaped(journal) /\ Shaped(twin)
    BY DEF IInv
  <1>3. b \in Live /\ E \subseteq Live /\ refs \subseteq Live /\ Live' = Live
    BY <1>1 DEF Live, Recorders, Objects
  <1> DEFINE now == Live
             jj == Filed(journal, b, resets, E, refs)
             tt == Filed(twin, b, resets, E, refs)
  <1>4. Part(jj, tt, now)
    <2> HIDE DEF now
    <2> QED BY <1>2, <1>3, Records DEF now
  <1>5. Numbered(tt, now, minted, seq + 1)
    <2> HIDE DEF now
    <2> QED BY <1>2, <1>3, FiledNumbered DEF now
  <1>6. Shaped(jj) /\ Shaped(tt)
    <2>1. /\ IsFiled(jj, journal, b, resets, Saw(journal, E), Item("recorded", {b}, refs \cup E))
          /\ IsFiled(tt, twin, b, resets, Saw(twin, E), Item("recorded", {b}, refs \cup E))
      BY <1>2, FiledIs
    <2> HIDE DEF jj, tt
    <2> QED BY <2>1 DEF IsFiled
  <1>7. left' \in [Kinds -> Nat]
    BY <1>1, Spent DEF Kinds
  <1> HIDE DEF jj, tt
  <1>8. /\ Part(journal', twin', Live') /\ Numbered(twin', Live', minted', seq')
        /\ Shaped(journal') /\ Shaped(twin')
    BY <1>1, <1>3, <1>4, <1>5, <1>6 DEF jj, tt
  <1> QED BY <1>7, <1>8 DEF IInv

LEMMA PoolResetKeeps ==
  ASSUME IInv, NEW B, PoolReset(B)
  PROVE  IInv'
  <1>1. /\ Spend("reset") /\ seq' = seq + 1
        /\ journal' = Without(journal, B) /\ twin' = Without(twin, B)
        /\ minted' = minted /\ alive' = alive /\ held' = held
    BY DEF PoolReset, worldVars
  <1>2. /\ Part(journal, twin, Live) /\ Numbered(twin, Live, minted, seq)
        /\ Shaped(journal) /\ Shaped(twin)
    BY DEF IInv
  <1>3. Live' = Live
    BY <1>1 DEF Live
  <1> DEFINE now == Live
             jj == Without(journal, B)
             tt == Without(twin, B)
  <1>4. Part(jj, tt, now)
    <2> HIDE DEF now
    <2> QED BY <1>2, Empties DEF now
  <1>5. /\ tt.entries = twin.entries /\ DOMAIN tt.tapes \subseteq DOMAIN twin.tapes
        /\ \A b \in DOMAIN tt.tapes : tt.tapes[b] = twin.tapes[b]
        /\ Shaped(jj) /\ Shaped(tt)
    BY <1>2 DEF Without, Shaped
  <1> HIDE DEF jj, tt, now
  <1>6. Numbered(tt, now, minted, seq + 1)
    <2>1. /\ minted \in Nat /\ minted <= minted /\ seq + 1 \in Nat /\ seq <= seq + 1
          /\ now \subseteq 1..minted
      BY <1>2 DEF Numbered, now
    <2>2. Numbered(twin, now, minted, seq)
      BY <1>2 DEF now
    <2> QED BY <1>5, <2>1, <2>2, StillNumbered
  <1>7. left' \in [Kinds -> Nat]
    BY <1>1, Spent DEF Kinds
  <1>8. /\ Part(journal', twin', Live') /\ Numbered(twin', Live', minted', seq')
        /\ Shaped(journal') /\ Shaped(twin')
    BY <1>1, <1>3, <1>4, <1>5, <1>6 DEF jj, tt, now
  <1> QED BY <1>7, <1>8 DEF IInv

LEMMA CompactKeeps ==
  ASSUME IInv, Compact
  PROVE  IInv'
  <1>1. /\ journal' = Compacted(journal, Live) /\ seq' = seq /\ twin' = twin
        /\ minted' = minted /\ alive' = alive /\ held' = held /\ left' = left
    BY DEF Compact, worldVars
  <1>2. /\ Part(journal, twin, Live) /\ Numbered(twin, Live, minted, seq) /\ Shaped(twin)
        /\ left \in [Kinds -> Nat]
    BY DEF IInv
  <1>3. Live' = Live
    BY <1>1 DEF Live
  <1>4. Part(Compacted(journal, Live), twin, Live)
    BY <1>2, Compacts
  <1>5. Shaped(Compacted(journal, Live))
    BY DEF Compacted, Shaped
  <1>6. /\ Part(journal', twin', Live') /\ Numbered(twin', Live', minted', seq')
        /\ Shaped(journal') /\ Shaped(twin') /\ left' \in [Kinds -> Nat]
    BY <1>1, <1>2, <1>3, <1>4, <1>5
  <1> QED BY <1>6 DEF IInv

LEMMA StepKeeps ==
  ASSUME IInv, [Next]_vars
  PROVE  IInv'
  <1>1. minted \in Nat /\ left \in [Kinds -> Nat]
    BY DEF IInv, Numbered
  <1>2. ASSUME NEW n \in 1..left["batch"], NEW refs \in Some(Objects, MaxRefs),
               NEW recorders \in BOOLEAN, Create(n, refs, recorders)
        PROVE  IInv'
    <2>1. left["batch"] \in Nat
      BY <1>1 DEF Kinds
    <2>2. n \in Nat /\ refs \in SUBSET Objects
      BY <2>1 DEF Some
    <2> QED BY <1>2, <2>2, CreateKeeps
  <1>3. ASSUME NEW into \in Some(Objects, left["batch"]), NEW refs \in Some(Objects, MaxRefs),
               Mutate(into, refs)
        PROVE  IInv'
    <2>1. into \in SUBSET Objects /\ refs \in SUBSET Objects
      BY DEF Some
    <2> QED BY <1>3, <2>1, MutateKeeps
  <1>4. ASSUME NEW K \in SUBSET alive, Destroy(K)
        PROVE  IInv'
    <2>1. /\ Spend("destroy") /\ minted' = minted /\ seq' = seq + 1 /\ journal' = journal
          /\ twin' = twin /\ alive' = alive \ K /\ held' = held
      BY <1>4 DEF Destroy
    <2>2. Live' \subseteq Live /\ left' \in [Kinds -> Nat]
      BY <2>1, Spent DEF Live, Kinds
    <2> QED BY <2>1, <2>2, Unwritten
  <1>5. ASSUME NEW K \in (SUBSET Recorders) \cup (SUBSET Objects), Free(K)
        PROVE  IInv'
    <2>1. K \in SUBSET alive
      BY DEF Recorders, Objects
    <2> QED BY <1>5, <2>1, FreeKeeps
  <1>6. ASSUME NEW k \in Objects, Export(k)
        PROVE  IInv'
    <2>1. /\ Spend("export") /\ minted' = minted /\ seq' = seq /\ journal' = journal
          /\ twin' = twin /\ alive' = alive /\ held' = held \cup {k}
      BY <1>6 DEF Export
    <2>2. Live' \subseteq Live /\ left' \in [Kinds -> Nat]
      BY <2>1, Spent DEF Live, Objects, Kinds
    <2> QED BY <2>1, <2>2, Unwritten
  <1>7. ASSUME NEW k \in held, LetGo(k)
        PROVE  IInv'
    <2>1. /\ left' = left /\ minted' = minted /\ seq' = seq /\ journal' = journal
          /\ twin' = twin /\ alive' = alive /\ held' = held \ {k}
      BY <1>7 DEF LetGo
    <2>2. Live' \subseteq Live /\ left' \in [Kinds -> Nat]
      BY <1>1, <2>1 DEF Live
    <2> QED BY <2>1, <2>2, Unwritten
  <1>8. ASSUME NEW b \in Recorders, NEW refs \in Some(Objects, MaxRefs),
               Begin(b, refs) \/ Add(b, {}, refs)
        PROVE  IInv'
    <2>1. refs \in SUBSET Objects /\ {} \in SUBSET Recorders
      BY DEF Some
    <2>2. \E resets \in BOOLEAN : Record(b, resets, {}, refs)
      BY <1>8 DEF Begin, Add
    <2> QED BY <2>1, <2>2, RecordKeeps
  <1>9. ASSUME NEW b \in Recorders, NEW E \in Some(Recorders \ {b}, MaxRefs) \ {{}}, Add(b, E, {})
        PROVE  IInv'
    <2>1. E \in SUBSET Recorders /\ {} \in SUBSET Objects
      BY DEF Some
    <2>2. Record(b, FALSE, E, {})
      BY <1>9 DEF Add
    <2> QED BY <2>1, <2>2, RecordKeeps
  <1>10. ASSUME NEW B, PoolReset(B)
         PROVE  IInv'
    BY <1>10, PoolResetKeeps
  <1>11. ASSUME NEW owner, NEW cmd, NEW route, Latest(owner, cmd, route)
         PROVE  IInv'
    <2>1. /\ Spend("ring") /\ minted' = minted /\ seq' = seq + 1 /\ journal' = journal
          /\ twin' = twin /\ alive' = alive /\ held' = held
      BY <1>11 DEF Latest, worldVars
    <2>2. Live' \subseteq Live /\ left' \in [Kinds -> Nat]
      BY <2>1, Spent DEF Live, Kinds
    <2> QED BY <2>1, <2>2, Unwritten
  <1>12. ASSUME NEW r, RingGone(r)
         PROVE  IInv'
    <2>1. /\ left' = left /\ minted' = minted /\ seq' = seq + 1 /\ journal' = journal
          /\ twin' = twin /\ alive' = alive /\ held' = held
      BY <1>12 DEF RingGone, worldVars
    <2>2. Live' \subseteq Live /\ left' \in [Kinds -> Nat]
      BY <1>1, <2>1 DEF Live
    <2> QED BY <2>1, <2>2, Unwritten
  <1>13. ASSUME NEW r \in Rings, RingCreated(r) \/ RingSeqno(r) \/ RingGone(r)
         PROVE  IInv'
    BY <1>11, <1>12, <1>13 DEF RingCreated, RingSeqno
  <1>14. ASSUME NEW o \in Rings \cup {"context"}, SetReply(o) \/ SeekReply(o)
         PROVE  IInv'
    BY <1>11, <1>14 DEF SetReply, SeekReply
  <1>15. CASE UNCHANGED vars
    <2>1. /\ left' = left /\ minted' = minted /\ seq' = seq /\ journal' = journal
          /\ twin' = twin /\ alive' = alive /\ held' = held
      BY <1>15 DEF vars, worldVars
    <2>2. Live' \subseteq Live /\ left' \in [Kinds -> Nat]
      BY <1>1, <2>1 DEF Live
    <2> QED BY <2>1, <2>2, Unwritten
  <1>16. CASE Next
    <2>1. \/ \E n \in 1..left["batch"], refs \in Some(Objects, MaxRefs), recorders \in BOOLEAN :
               Create(n, refs, recorders)
          \/ \E into \in Some(Objects, left["batch"]), refs \in Some(Objects, MaxRefs) :
               Mutate(into, refs)
          \/ \E K \in SUBSET alive : Destroy(K)
          \/ \E K \in (SUBSET Recorders) \cup (SUBSET Objects) : Free(K)
          \/ \E k \in Objects : Export(k)
          \/ \E k \in held : LetGo(k)
          \/ \E b \in Recorders, refs \in Some(Objects, MaxRefs) :
               Begin(b, refs) \/ Add(b, {}, refs)
          \/ \E b \in Recorders : \E E \in Some(Recorders \ {b}, MaxRefs) \ {{}} : Add(b, E, {})
          \/ \E B : PoolReset(B)
          \/ \E r \in Rings : RingCreated(r) \/ RingSeqno(r) \/ RingGone(r)
          \/ \E o \in Rings \cup {"context"} : SetReply(o) \/ SeekReply(o)
          \/ Compact
      BY <1>16, Zenon DEF Next
    <2> QED BY <1>2, <1>3, <1>4, <1>5, <1>6, <1>7, <1>8, <1>9, <1>10, <1>13, <1>14, <2>1,
               CompactKeeps, ZenonT(60)
  <1> QED BY <1>15, <1>16

LEMMA Starts ==
  ASSUME Afforded, Init
  PROVE  IInv
  <1>1. /\ seq = 0 /\ minted = 0 /\ alive = {} /\ held = {} /\ left \in [Kinds -> Nat]
        /\ journal = [entries |-> {}, tapes |-> <<>>] /\ twin = journal
    BY DEF Init, Afforded
  <1>2. Live = {} /\ journal.entries = {} /\ DOMAIN journal.tapes = {} /\ Shaped(journal)
    BY <1>1 DEF Live, Shaped
  <1>3. Numbered(twin, Live, minted, seq)
    BY <1>1, <1>2 DEF Numbered
  <1>4. KeepSet(twin, Live) \cap twin.entries \subseteq journal.entries
    BY <1>1
  <1>5. \A b \in Replayable(twin, Live) : journal.tapes[b].commands = twin.tapes[b].commands
    BY <1>1
  <1>6. Part(journal, twin, Live)
    BY <1>1, <1>2, <1>4, <1>5 DEF Part
  <1> QED BY <1>1, <1>2, <1>3, <1>6 DEF IInv

LEMMA Unseen == IInv => CompactionUnseen
  BY PartKeeps DEF IInv, CompactionUnseen

\* A compaction is never seen: whatever the guest creates, writes, records, frees and
\* destroys, and whenever the journal is compacted on the way, an export carries what it
\* would if none had been (journal.rs compact: "dropping it changes no export that could
\* still happen").
THEOREM CompactionUnseenAlways == ASSUME Afforded PROVE Spec => []CompactionUnseen
  <1>1. Init => IInv
    BY Starts
  <1>2. IInv /\ [Next]_vars => IInv'
    BY StepKeeps
  <1>3. IInv => CompactionUnseen
    BY Unseen
  <1> QED BY <1>1, <1>2, <1>3, PTL DEF Spec

-----------------------------------------------------------------------------
(* What a restore remakes                                                  *)

\* What an item names was made before it, and nothing undid it before.
Named(t, i) ==
  \A k \in i.refs \cup (IF i.about = "created" THEN {} ELSE i.keys) :
    /\ \E c \in Creates(t) : k \in c.keys /\ c.seq < i.seq
    /\ \A u \in t.entries : u.about = "undoes" /\ k \in u.keys => i.seq <= u.seq

\* The entries: each object has one create, and what stands was not undone.
Storied(t, s, standing, live) ==
  /\ \A i \in t.entries : /\ i.about \in {"created", "mutated", "undoes"}
                          /\ i.seq \in 1..s /\ Named(t, i)
  /\ \A u \in t.entries : u.about = "undoes" => u.refs = {} /\ u.keys \cap standing = {}
  /\ \A c, d \in Creates(t) : c.keys \cap d.keys # {} => c = d
  /\ \A k \in live : \E c \in Creates(t) : k \in c.keys

\* The recordings: what each of the buffers B holds, and what it executes, is its tape's.
TapeOf(t, s, b) ==
  \A i \in t.tapes[b].commands :
    i.about = "recorded" /\ i.keys = {b} /\ i.seq \in 1..s /\ Named(t, i)

Taped(t, s, B, holds, executes) ==
  /\ DOMAIN t.tapes \subseteq B /\ DOMAIN holds = B /\ DOMAIN executes = B
  /\ \A b \in DOMAIN t.tapes :
       /\ TapeOf(t, s, b) /\ holds[b] # {}
       /\ holds[b] = {i.seq : i \in t.tapes[b].commands}
       /\ executes[b] = {x.buffer : x \in t.tapes[b].executed}
  /\ \A b \in B \ DOMAIN t.tapes : holds[b] = {} /\ executes[b] = {}

\* What Vulkan holds valid replays, with all it executes; what it does not, does not.
Judged(t, live, standing, dead) ==
  /\ dead \subseteq DOMAIN t.tapes
  /\ dead \cap Replayable(t, live) = {}
  /\ Closed(t, live, (standing \ dead) \cap DOMAIN t.tapes)

\* A ring's slots come after its create.
Slotted ==
  /\ DOMAIN slots \subseteq (Rings \cup {"context"}) \X {"create", "set", "seek", "seqno"}
  /\ \A s \in DOMAIN slots : slots[s].seq \in 1..seq
  /\ \A s \in DOMAIN slots : s[1] # "context" =>
       Stands(s[1]) /\ slots[<<s[1], "create">>].seq <= slots[s].seq

Placed ==
  seq \in Nat /\ buffers \subseteq Keys /\ alive \subseteq Keys /\ held \subseteq Keys \ buffers

Remade ==
  /\ Placed /\ Storied(twin, seq, alive, Live) /\ Taped(twin, seq, buffers, tape, runs)
  /\ Judged(twin, Live, alive, void) /\ Slotted

-----------------------------------------------------------------------------
(* What it says of a restore                                               *)

\* What is kept is of the journal, and whatever it makes or recorded was reached.
LEMMA KeptIs ==
  ASSUME Remade, NEW i \in KeepSet(twin, Live)
  PROVE  /\ i.seq \in 1..seq /\ Named(twin, i)
         /\ \/ i \in twin.entries /\ i.about \in {"created", "mutated", "undoes"}
            \/ /\ i.about = "recorded"
               /\ \E b \in Replayable(twin, Live) : i \in twin.tapes[b].commands /\ i.keys = {b}
         /\ i.about # "undoes" => i \in Reached(twin, Live)
         /\ i.about = "undoes" => i \in twin.entries /\ i.refs = {}
         /\ i.about = "created" => i \in Creates(twin)
  <1>1. Storied(twin, seq, alive, Live) /\ Taped(twin, seq, buffers, tape, runs)
    BY DEF Remade
  <1>2. \A e \in twin.entries : /\ e.about \in {"created", "mutated", "undoes"}
                                /\ e.seq \in 1..seq /\ Named(twin, e)
                                /\ e.about = "undoes" => e.refs = {}
    BY <1>1 DEF Storied
  <1>3. ASSUME NEW b \in Replayable(twin, Live), NEW e \in twin.tapes[b].commands
        PROVE  e.about = "recorded" /\ e.keys = {b} /\ e.seq \in 1..seq /\ Named(twin, e)
    <2>1. b \in DOMAIN twin.tapes
      BY ReplayableIs DEF Closed
    <2> QED BY <1>1, <2>1 DEF Taped, TapeOf
  <1>4. CASE i \in Reached(twin, Live)
    <2>1. CASE i \in twin.entries /\ i.about \in {"created", "mutated"}
      BY <1>2, <1>4, <2>1 DEF Creates
    <2>2. CASE \E b \in Replayable(twin, Live) : i \in twin.tapes[b].commands
      BY <1>3, <1>4, <2>2
    <2>3. CASE i \in Needed(twin, Live)
      <3>1. i \in Creates(twin)
        BY <2>3, NeededIs DEF Making
      <3> QED BY <1>4, <2>1, <3>1 DEF Creates
    <2> QED BY <1>4, <2>1, <2>2, <2>3, TrueIs DEF Reached
  <1>5. CASE i \notin Reached(twin, Live)
    BY <1>2, <1>5, KeepIs
  <1> QED BY <1>4, <1>5

\* Who makes what a kept item names is kept.
LEMMA MakerKept ==
  ASSUME Remade, NEW i \in KeepSet(twin, Live), i.about # "undoes",
         NEW c \in Creates(twin), c.keys \cap (i.refs \cup i.keys) # {}
  PROVE  c \in KeepSet(twin, Live)
  <1>1. c \in CreatorsOf(twin, Reached(twin, Live))
    BY KeptIs DEF CreatorsOf
  <1> QED BY <1>1, ReachedMakes, KeepIs DEF Reached

LEMMA NothingMissed ==
  ASSUME IInv, Remade, NEW i \in KeepSet(twin, Live)
  PROVE  Missed(KeepSet(twin, Live), i) \subseteq Strays(KeepSet(twin, Live), i)
  <1> DEFINE X == KeepSet(twin, Live)
  <1>1. ASSUME NEW k \in Missed(X, i) PROVE k \in Strays(X, i)
    <2>1. k \in i.refs \cup IF i.about = "created" THEN {} ELSE i.keys
      BY <1>1 DEF Missed
    <2>2. PICK c \in Creates(twin) : k \in c.keys /\ c.seq < i.seq
      BY <2>1, KeptIs DEF Named
    <2>3. \A u \in twin.entries : u.about = "undoes" /\ k \in u.keys => i.seq <= u.seq
      BY <2>1, KeptIs DEF Named
    <2>4. c \in twin.entries /\ c.about = "created"
      BY DEF Creates
    <2>5. k \in Keys
      BY <2>2, <2>4 DEF IInv, Numbered, Keys
    <2>6. \A u \in X : u.about = "undoes" /\ k \in u.keys => u.seq >= i.seq
      <3>1. ASSUME NEW u \in X, u.about = "undoes", k \in u.keys PROVE u.seq >= i.seq
        <4>1. i.seq <= u.seq
          BY <2>3, <3>1, KeptIs
        <4>2. i.seq \in Nat /\ u.seq \in Nat
          BY <3>1, KeptIs
        <4> QED BY <4>1, <4>2
      <3> QED BY <3>1
    <2>7. \A d \in X : d.about = "created" /\ k \in d.keys => d = c
      BY <2>2, KeptIs DEF Remade, Storied
    <2>8. c \in X => k \in There(X, i.seq)
      BY <2>2, <2>4, <2>5, <2>6 DEF There
    <2>9. c \notin X
      BY <1>1, <2>8 DEF Missed
    <2>10. i.about = "undoes"
      <3>1. k \in i.refs \cup i.keys
        BY <2>1
      <3> QED BY <2>2, <2>9, <3>1, MakerKept
    <2>11. k \in i.keys
      BY <2>1, <2>10, KeptIs
    <2> QED BY <2>7, <2>9, <2>10, <2>11 DEF Strays
  <1> QED BY <1>1

\* At its end there is what stands, and nothing that was undone.
LEMMA EndsRight ==
  ASSUME IInv, Remade
  PROVE  /\ alive \subseteq There(KeepSet(twin, Live), seq + 1)
         /\ \A u \in twin.entries : u.about = "undoes" =>
              u.keys \cap There(KeepSet(twin, Live), seq + 1) = {}
         /\ \A k \in held : \E c \in KeepSet(twin, Live) : c.about = "created" /\ k \in c.keys
  <1> DEFINE X == KeepSet(twin, Live)
             n == seq + 1
  <1>1. Storied(twin, seq, alive, Live) /\ seq \in Nat
    BY DEF Remade, Placed
  <1>2. ASSUME NEW k \in Live
        PROVE  k \in Keys /\ \E c \in X : c.about = "created" /\ k \in c.keys /\ c.seq < n
    <2>1. PICK c \in Creates(twin) : k \in c.keys
      BY <1>1 DEF Storied
    <2>2. c \in twin.entries /\ c.about = "created"
      BY DEF Creates
    <2>3. c \in X
      BY <2>1, <2>2, TrueIs, KeepIs DEF Reached
    <2>4. c.seq < n /\ k \in Keys
      <3>1. c.seq \in 1..seq
        BY <2>3, KeptIs
      <3> QED BY <1>1, <3>1, <2>1, <2>2 DEF IInv, Numbered, Keys
    <2> QED BY <2>1, <2>2, <2>3, <2>4
  <1>3. ASSUME NEW k \in alive PROVE k \in There(X, n)
    <2>1. k \in Live
      BY DEF Live
    <2>2. \A u \in X : ~(u.about = "undoes" /\ k \in u.keys)
      BY <1>1, KeptIs DEF Storied
    <2> HIDE DEF X, n
    <2> QED BY <1>2, <2>1, <2>2 DEF There
  <1>4. ASSUME NEW u \in twin.entries, u.about = "undoes", NEW k \in u.keys, k \in There(X, n)
        PROVE  FALSE
    <2>1. PICK c \in X : /\ c.about = "created" /\ k \in c.keys
                         /\ \A v \in X : v.about = "undoes" /\ k \in v.keys => v.seq >= n
      BY <1>4 DEF There
    <2>2. c \in Reached(twin, Live) \cap Creates(twin)
      BY <2>1, KeptIs
    <2>3. u.keys \cap c.keys # {}
      BY <1>4, <2>1
    <2>4. u \in X
      BY <1>4, <2>2, <2>3, KeepIs
    <2>5. u.seq \in 1..seq /\ u.seq >= n
      BY <1>4, <2>1, <2>4, KeptIs
    <2> QED BY <1>1, <2>5
  <1>5. \A k \in held : k \in Live
    BY DEF Live
  <1> QED BY <1>2, <1>3, <1>4, <1>5

\* Each buffer is given what it holds, if it may hold anything.
LEMMA TapesRemade ==
  ASSUME Remade, NEW b \in buffers
  PROVE  {i.seq : i \in {x \in KeepSet(twin, Live) : x.about = "recorded" /\ x.keys = {b}}}
           = IF b \in alive \ void THEN tape[b] ELSE {}
  <1> DEFINE X == KeepSet(twin, Live)
             R == Replayable(twin, Live)
             mine == {x \in X : x.about = "recorded" /\ x.keys = {b}}
  <1>1. /\ Taped(twin, seq, buffers, tape, runs) /\ Judged(twin, Live, alive, void)
        /\ held \cap buffers = {}
    BY DEF Remade, Placed
  <1>2. \A i \in mine : b \in R /\ i \in twin.tapes[b].commands
    BY KeptIs
  <1>3. b \in R => \A i \in twin.tapes[b].commands : i \in mine
    <2>1. ASSUME b \in R, NEW i \in twin.tapes[b].commands PROVE i \in mine
      <3>1. i \in X
        BY <2>1, TrueIs, KeepIs DEF Reached
      <3>2. b \in DOMAIN twin.tapes
        BY <2>1, ReplayableIs DEF Closed
      <3>3. i.about = "recorded" /\ i.keys = {b}
        BY <1>1, <3>2 DEF Taped, TapeOf
      <3> QED BY <3>1, <3>3
    <2> QED BY <2>1
  <1> HIDE DEF mine
  <1>4. CASE b \in R
    <2>1. b \in DOMAIN twin.tapes /\ b \in Live
      BY <1>4, ReplayableIs DEF Closed
    <2>2. b \in alive \ void
      BY <1>1, <1>4, <2>1 DEF Judged, Live
    <2>3. mine = twin.tapes[b].commands
      BY <1>2, <1>3, <1>4
    <2>4. tape[b] = {i.seq : i \in twin.tapes[b].commands}
      BY <1>1, <2>1 DEF Taped
    <2> QED BY <2>2, <2>3, <2>4 DEF mine
  <1>5. CASE b \notin R
    <2>1. mine = {}
      BY <1>2, <1>5
    <2>2. b \in alive \ void => b \notin DOMAIN twin.tapes
      <3>1. (alive \ void) \cap DOMAIN twin.tapes \subseteq R
        BY <1>1, ReplayableIs DEF Judged
      <3> QED BY <1>5, <3>1
    <2>3. b \in alive \ void => tape[b] = {}
      BY <1>1, <2>2 DEF Taped
    <2> QED BY <2>1, <2>3 DEF mine
  <1> QED BY <1>4, <1>5

LEMMA Faithful == IInv /\ Remade => RestoreFaithful
  <1> SUFFICES ASSUME IInv, Remade PROVE RestoreFaithful
    OBVIOUS
  <1>1. KeepSet(journal, Live) = KeepSet(twin, Live)
    BY Unseen DEF CompactionUnseen
  <1> DEFINE X == KeepSet(twin, Live)
  <1>2. \A i \in X : Missed(X, i) \subseteq Strays(X, i)
    BY NothingMissed
  <1>3. /\ alive \subseteq There(X, seq + 1)
        /\ \A u \in twin.entries : u.about = "undoes" => u.keys \cap There(X, seq + 1) = {}
        /\ \A k \in held : \E c \in X : c.about = "created" /\ k \in c.keys
    BY EndsRight
  <1>4. \A b \in buffers :
          {i.seq : i \in {x \in X : x.about = "recorded" /\ x.keys = {b}}}
            = IF b \in alive \ void THEN tape[b] ELSE {}
    BY TapesRemade
  <1>5. \A s \in DOMAIN slots : s[1] # "context" =>
          Stands(s[1]) /\ slots[<<s[1], "create">>].seq <= slots[s].seq
    BY DEF Remade, Slotted
  <1> HIDE DEF X
  <1> QED BY <1>1, <1>2, <1>3, <1>4, <1>5 DEF RestoreFaithful, X

-----------------------------------------------------------------------------
(* What the steps do to the entries and the tapes                          *)

\* What an item named before stays so, with one more entry.
LEMMA NamedStays ==
  ASSUME NEW t, NEW k, NEW s \in Nat, NEW E, NEW i, Named(t, i), i.seq \in 1..s,
         k.entries = t.entries \cup E, \A e \in E : e.seq = s + 1
  PROVE  Named(k, i)
  <1>1. \A c \in Creates(t) : c \in Creates(k)
    BY DEF Creates
  <1>2. \A e \in E : i.seq <= e.seq
    OBVIOUS
  <1> QED BY <1>1, <1>2 DEF Named

\* A new item names what stands.
LEMMA NamedNow ==
  ASSUME NEW t, NEW k, NEW s \in Nat, NEW standing, NEW live, Storied(t, s, standing, live),
         standing \subseteq live, NEW E, NEW i, i.seq = s + 1,
         k.entries = t.entries \cup E, \A e \in E : e.seq = s + 1,
         i.refs \subseteq standing, i.about # "created" => i.keys \subseteq standing
  PROVE  Named(k, i)
  <1>1. ASSUME NEW x \in i.refs \cup (IF i.about = "created" THEN {} ELSE i.keys)
        PROVE  /\ \E c \in Creates(k) : x \in c.keys /\ c.seq < i.seq
               /\ \A u \in k.entries : u.about = "undoes" /\ x \in u.keys => i.seq <= u.seq
    <2>1. x \in standing /\ x \in live
      OBVIOUS
    <2>2. PICK c \in Creates(t) : x \in c.keys
      BY <2>1 DEF Storied
    <2>3. c \in t.entries /\ c \in Creates(k)
      BY DEF Creates
    <2>4. c.seq < i.seq
      <3>1. c.seq \in 1..s
        BY <2>3 DEF Storied
      <3> QED BY <3>1
    <2>5. \A u \in t.entries : u.about = "undoes" => x \notin u.keys
      BY <2>1 DEF Storied
    <2>6. \A e \in E : i.seq <= e.seq
      OBVIOUS
    <2> QED BY <2>2, <2>3, <2>4, <2>5, <2>6
  <1> QED BY <1>1 DEF Named

\* A command pushed.
LEMMA StoryGrows ==
  ASSUME NEW t, NEW k, NEW s \in Nat, NEW m \in Nat, NEW standing, NEW live,
         Storied(t, s, standing, live), \A i \in t.entries : i.keys \subseteq 1..m,
         standing \subseteq live,
         NEW e, k.entries = t.entries \cup {e}, e.seq = s + 1,
         e.about \in {"created", "mutated", "undoes"}, e.refs \subseteq standing,
         IF e.about = "created" THEN e.keys \cap 1..m = {} ELSE e.keys \subseteq standing,
         NEW stands, NEW later,
         stands \subseteq standing \cup (IF e.about = "created" THEN e.keys ELSE {}),
         later \subseteq live \cup (IF e.about = "created" THEN e.keys ELSE {}),
         e.about = "undoes" => e.refs = {} /\ e.keys \cap stands = {}
  PROVE  Storied(k, s + 1, stands, later)
  <1> DEFINE E == {e}
             n == s + 1
  <1>1. k.entries = t.entries \cup E /\ \A x \in E : x.seq = s + 1
    OBVIOUS
  <1>2. 1..s \subseteq 1..n /\ n \in 1..n
    OBVIOUS
  <1>3. \A i \in t.entries : /\ i.about \in {"created", "mutated", "undoes"}
                             /\ i.seq \in 1..s /\ Named(t, i)
    BY DEF Storied
  <1>4. Named(k, e)
    <2> HIDE DEF E
    <2> QED BY <1>1, NamedNow
  <1>5. \A i \in t.entries : Named(k, i)
    <2> HIDE DEF E
    <2> QED BY <1>1, <1>3, NamedStays
  <1>6. \A i \in k.entries : /\ i.about \in {"created", "mutated", "undoes"}
                             /\ i.seq \in 1..n /\ Named(k, i)
    BY <1>2, <1>3, <1>4, <1>5
  <1>7. \A u \in k.entries : u.about = "undoes" => u.refs = {} /\ u.keys \cap stands = {}
    <2>1. ASSUME NEW u \in t.entries, u.about = "undoes"
          PROVE  u.refs = {} /\ u.keys \cap stands = {}
      <3>1. u.refs = {} /\ u.keys \cap standing = {} /\ u.keys \subseteq 1..m
        BY <2>1 DEF Storied
      <3> QED BY <3>1
    <2> QED BY <2>1
  <1>8. \A c \in Creates(k) : c \in Creates(t) \/ (c = e /\ e.about = "created")
    BY DEF Creates
  <1>9. \A c, d \in Creates(k) : c.keys \cap d.keys # {} => c = d
    <2>1. \A c, d \in Creates(t) : c.keys \cap d.keys # {} => c = d
      BY DEF Storied
    <2>2. \A c \in Creates(t) : e.about = "created" => c.keys \cap e.keys = {}
      BY DEF Creates
    <2> QED BY <1>8, <2>1, <2>2
  <1>10. \A x \in later : \E c \in Creates(k) : x \in c.keys
    <2>1. ASSUME NEW x \in live PROVE \E c \in Creates(k) : x \in c.keys
      <3>1. PICK c \in Creates(t) : x \in c.keys
        BY DEF Storied
      <3>2. c \in Creates(k)
        BY DEF Creates
      <3> QED BY <3>1, <3>2
    <2>2. e.about = "created" => e \in Creates(k)
      BY DEF Creates
    <2> QED BY <2>1, <2>2
  <1> QED BY <1>6, <1>7, <1>9, <1>10 DEF Storied

\* Nothing pushed, and no more stands.
LEMMA StoryStays ==
  ASSUME NEW t, NEW k, NEW s \in Nat, NEW n \in Nat, NEW standing, NEW live,
         Storied(t, s, standing, live), k.entries = t.entries, s <= n,
         NEW stands \in SUBSET standing, NEW later \in SUBSET live
  PROVE  Storied(k, n, stands, later)
  <1>1. 1..s \subseteq 1..n /\ Creates(k) = Creates(t)
    BY DEF Creates
  <1>2. \A i : Named(t, i) => Named(k, i)
    BY <1>1 DEF Named
  <1> QED BY <1>1, <1>2 DEF Storied

\* The tapes as they were, of more buffers perhaps.
LEMMA TapesStay ==
  ASSUME NEW t, NEW k, seq \in Nat, NEW n \in Nat,
         Taped(t, seq, buffers, tape, runs), k.tapes = t.tapes, seq <= n,
         \A i : i.seq \in 1..seq /\ Named(t, i) => Named(k, i),
         NEW C, buffers \subseteq C, NEW tapes, NEW running,
         DOMAIN tapes = C, DOMAIN running = C,
         \A b \in C : tapes[b] = (IF b \in buffers THEN tape[b] ELSE {}),
         \A b \in C : running[b] = (IF b \in buffers THEN runs[b] ELSE {})
  PROVE  Taped(k, n, C, tapes, running)
  <1>1. 1..seq \subseteq 1..n /\ DOMAIN t.tapes \subseteq buffers
    BY DEF Taped
  <1>2. ASSUME NEW b \in DOMAIN k.tapes
        PROVE  /\ TapeOf(k, n, b) /\ tapes[b] # {}
               /\ tapes[b] = {i.seq : i \in k.tapes[b].commands}
               /\ running[b] = {x.buffer : x \in k.tapes[b].executed}
    <2>1. b \in DOMAIN t.tapes /\ b \in buffers /\ b \in C /\ k.tapes[b] = t.tapes[b]
      BY <1>1
    <2>2. TapeOf(k, n, b)
      BY <1>1, <2>1 DEF Taped, TapeOf
    <2>3. tapes[b] = tape[b] /\ running[b] = runs[b]
      BY <2>1
    <2> QED BY <2>1, <2>2, <2>3 DEF Taped
  <1>3. \A b \in C \ DOMAIN k.tapes : tapes[b] = {} /\ running[b] = {}
    BY DEF Taped
  <1>4. DOMAIN k.tapes \subseteq C
    BY <1>1
  <1> QED BY <1>2, <1>3, <1>4 DEF Taped

\* What the buffers hold and execute when the command n, which executes E, is b's.
Wound(tapes, running, b, resets, n, E) ==
  /\ DOMAIN tapes = buffers /\ DOMAIN running = buffers
  /\ tapes[b] = (IF resets THEN {} ELSE tape[b]) \cup {n}
  /\ running[b] = (IF resets THEN {} ELSE runs[b]) \cup E
  /\ \A a \in buffers : a # b => tapes[a] = tape[a] /\ running[a] = runs[a]

\* A command recorded.
LEMMA TapesGrow ==
  ASSUME NEW t, NEW k, seq \in Nat, NEW n, n = seq + 1,
         Taped(t, seq, buffers, tape, runs), k.entries = t.entries,
         NEW b \in buffers, NEW resets \in BOOLEAN, NEW E, NEW refs,
         IsFiled(k, t, b, resets, Saw(t, E), Item("recorded", {b}, refs \cup E)),
         Named(k, Item("recorded", {b}, refs \cup E)),
         NEW tapes, NEW running,
         Wound(tapes, running, b, resets, n, E)
  PROVE  Taped(k, n, buffers, tapes, running)
  <1> DEFINE i == Item("recorded", {b}, refs \cup E)
             saw == Saw(t, E)
  <1>1. i.about = "recorded" /\ i.keys = {b} /\ i.seq = n
    BY DEF Item
  <1>2. E = {x.buffer : x \in saw}
    <2> DEFINE see(e) == [buffer |-> e, began |-> Began(t, e)]
    <2>1. saw = {see(e) : e \in E}
      BY DEF Saw
    <2>2. \A e : see(e).buffer = e
      OBVIOUS
    <2> HIDE DEF see, saw
    <2> QED BY <2>1, <2>2
  <1>3. IsFiled(k, t, b, resets, saw, i) /\ Named(k, i)
    OBVIOUS
  <1>4. 1..seq \subseteq 1..n /\ n \in 1..n
    OBVIOUS
  <1>5. /\ DOMAIN tape = buffers /\ DOMAIN runs = buffers /\ DOMAIN t.tapes \subseteq buffers
    BY DEF Taped
  <1>6. /\ tapes[b] = (IF resets THEN {} ELSE tape[b]) \cup {n}
        /\ running[b] = (IF resets THEN {} ELSE runs[b]) \cup E
        /\ DOMAIN tapes = buffers /\ DOMAIN running = buffers
        /\ \A a \in buffers : a # b => tapes[a] = tape[a] /\ running[a] = runs[a]
    BY DEF Wound
  <1> HIDE DEF i, saw
  <1>7. \A x : Named(t, x) => Named(k, x)
    BY DEF Named, Creates
  <1>8. DOMAIN k.tapes = DOMAIN t.tapes \cup {b}
    BY <1>3 DEF IsFiled
  <1>9. ASSUME NEW a \in DOMAIN k.tapes
        PROVE  /\ TapeOf(k, n, a) /\ tapes[a] # {}
               /\ tapes[a] = {x.seq : x \in k.tapes[a].commands}
               /\ running[a] = {x.buffer : x \in k.tapes[a].executed}
    <2>1. CASE a # b
      <3>1. a \in DOMAIN t.tapes /\ k.tapes[a] = t.tapes[a] /\ a \in buffers
        BY <1>3, <1>5, <1>8, <2>1 DEF IsFiled
      <3>2. TapeOf(k, n, a)
        BY <1>4, <1>7, <3>1 DEF Taped, TapeOf
      <3> QED BY <1>6, <2>1, <3>1, <3>2 DEF Taped
    <2>2. CASE a = b /\ (b \notin DOMAIN t.tapes \/ resets)
      <3>1. k.tapes[b].commands = {i} /\ k.tapes[b].executed = saw
        BY <1>3, <2>2 DEF IsFiled
      <3>2. TapeOf(k, n, b)
        BY <1>1, <1>3, <1>4, <3>1 DEF TapeOf
      <3>3. ~resets => tape[b] = {} /\ runs[b] = {}
        BY <2>2 DEF Taped
      <3>4. tapes[b] = {n} /\ running[b] = E
        BY <1>6, <3>3
      <3> QED BY <1>1, <1>2, <2>2, <3>1, <3>2, <3>4
    <2>3. CASE a = b /\ b \in DOMAIN t.tapes /\ ~resets
      <3>1. /\ k.tapes[b].commands = t.tapes[b].commands \cup {i}
            /\ k.tapes[b].executed = t.tapes[b].executed \cup saw
        BY <1>3, <2>3 DEF IsFiled
      <3>2. TapeOf(k, n, b)
        BY <1>1, <1>3, <1>4, <1>7, <2>3, <3>1 DEF Taped, TapeOf
      <3>3. /\ tape[b] = {x.seq : x \in t.tapes[b].commands}
            /\ runs[b] = {x.buffer : x \in t.tapes[b].executed}
        BY <2>3 DEF Taped
      <3>4. tapes[b] = tape[b] \cup {n} /\ running[b] = runs[b] \cup E
        BY <1>6, <2>3
      <3>5. tapes[a] = {x.seq : x \in k.tapes[a].commands}
        BY <1>1, <2>3, <3>1, <3>3, <3>4
      <3>6. running[a] = {x.buffer : x \in k.tapes[a].executed}
        BY <1>2, <2>3, <3>1, <3>3, <3>4
      <3> QED BY <2>3, <3>2, <3>4, <3>5, <3>6
    <2> QED BY <2>1, <2>2, <2>3
  <1>10. \A a \in buffers \ DOMAIN k.tapes : tapes[a] = {} /\ running[a] = {}
    BY <1>6, <1>8 DEF Taped
  <1> QED BY <1>5, <1>6, <1>8, <1>9, <1>10 DEF Taped

\* What they hold and execute when the tapes of D are discarded.
Unwound(tapes, running, D) ==
  /\ DOMAIN tapes = buffers /\ DOMAIN running = buffers
  /\ \A b \in buffers : /\ tapes[b] = (IF b \in D THEN {} ELSE tape[b])
                         /\ running[b] = (IF b \in D THEN {} ELSE runs[b])

\* A pool's tapes discarded.
LEMMA TapesDrop ==
  ASSUME NEW t, NEW k, seq \in Nat, NEW n \in Nat,
         Taped(t, seq, buffers, tape, runs), k.entries = t.entries, seq <= n,
         NEW D, DOMAIN k.tapes = DOMAIN t.tapes \ D,
         \A b \in DOMAIN k.tapes : k.tapes[b] = t.tapes[b],
         NEW tapes, NEW running,
         Unwound(tapes, running, D)
  PROVE  Taped(k, n, buffers, tapes, running)
  <1>1. 1..seq \subseteq 1..n /\ DOMAIN t.tapes \subseteq buffers
    BY DEF Taped
  <1>2. \A x : Named(t, x) => Named(k, x)
    BY DEF Named, Creates
  <1>3. ASSUME NEW b \in DOMAIN k.tapes
        PROVE  /\ TapeOf(k, n, b) /\ tapes[b] # {}
               /\ tapes[b] = {i.seq : i \in k.tapes[b].commands}
               /\ running[b] = {x.buffer : x \in k.tapes[b].executed}
    <2>1. b \in DOMAIN t.tapes /\ b \in buffers /\ b \notin D /\ k.tapes[b] = t.tapes[b]
      BY <1>1
    <2>2. TapeOf(k, n, b)
      BY <1>1, <1>2, <2>1 DEF Taped, TapeOf
    <2>3. tapes[b] = tape[b] /\ running[b] = runs[b]
      BY <2>1 DEF Unwound
    <2> QED BY <2>1, <2>2, <2>3 DEF Taped
  <1>4. \A b \in buffers \ DOMAIN k.tapes : tapes[b] = {} /\ running[b] = {}
    BY DEF Taped, Unwound
  <1>5. DOMAIN tape = buffers /\ DOMAIN runs = buffers /\ DOMAIN tapes = buffers
        /\ DOMAIN running = buffers /\ DOMAIN k.tapes \subseteq buffers
    BY <1>1 DEF Taped, Unwound
  <1> QED BY <1>3, <1>4, <1>5 DEF Taped

-----------------------------------------------------------------------------
(* What the steps do to what is valid                                      *)

LEMMA AboveIs ==
  ASSUME NEW B \in SUBSET buffers
  PROVE  /\ Above(B) \subseteq buffers \ B
         /\ \A p \in buffers \ B : runs[p] \cap (B \cup Above(B)) # {} => p \in Above(B)
         /\ \A S \in SUBSET buffers :
              B \subseteq S /\ (\A q \in buffers : runs[q] \cap S # {} => q \in S)
                => Above(B) \subseteq S
  <1> DEFINE Up(S) == B \subseteq S /\ (\A q \in buffers : runs[q] \cap S # {} => q \in S)
  <1>1. \A p : p \in Above(B) <=>
           p \in buffers \ B /\ \A S \in SUBSET buffers : Up(S) => p \in S
    BY DEF Above
  <1> HIDE DEF Up
  <1>2. \A S \in SUBSET buffers : Up(S) => Above(B) \subseteq S
    BY <1>1
  <1>3. ASSUME NEW p \in buffers \ B, runs[p] \cap (B \cup Above(B)) # {} PROVE p \in Above(B)
    <2>1. ASSUME NEW S \in SUBSET buffers, Up(S) PROVE p \in S
      <3>1. B \cup Above(B) \subseteq S
        BY <1>2, <2>1 DEF Up
      <3>2. runs[p] \cap S # {}
        BY <1>3, <3>1
      <3> QED BY <2>1, <3>2 DEF Up
    <2> QED BY <1>1, <1>3, <2>1
  <1> QED BY <1>1, <1>2, <1>3 DEF Up

\* The recordings of B ended: they are not live, or discarded, or begun again.
LEMMA Judges ==
  ASSUME NEW t, NEW k, NEW s, NEW live, NEW standing, NEW B \in SUBSET buffers,
         Taped(t, s, buffers, tape, runs), Judged(t, live, standing, void),
         DOMAIN k.tapes \subseteq buffers,
         \A a \in buffers \ B : /\ a \in DOMAIN k.tapes <=> a \in DOMAIN t.tapes
                                /\ a \in DOMAIN t.tapes => k.tapes[a] = t.tapes[a],
         NEW later, NEW stands, stands \subseteq later,
         \A b \in B : b \in later \cap DOMAIN k.tapes =>
           /\ k.tapes[b].executed = {}
           /\ \A a \in DOMAIN t.tapes : \A x \in t.tapes[a].executed :
                x.buffer = b => x.began # k.tapes[b].began,
         \A a \in DOMAIN t.tapes \ B : /\ a \in later => a \in live
                                       /\ a \in stands <=> a \in standing
  PROVE  Judged(k, later, stands, (void \ B) \cup Above(B))
  <1> DEFINE R == Replayable(k, later)
             up == Above(B)
             dead == (void \ B) \cup up
             V == (standing \ void) \cap DOMAIN t.tapes
             W == (stands \ dead) \cap DOMAIN k.tapes
  <1>1. /\ DOMAIN t.tapes \subseteq buffers /\ void \subseteq DOMAIN t.tapes
        /\ \A b \in DOMAIN t.tapes : runs[b] = {x.buffer : x \in t.tapes[b].executed}
        /\ \A b \in buffers \ DOMAIN t.tapes : runs[b] = {}
    BY DEF Taped, Judged
  <1>2. /\ up \subseteq buffers \ B
        /\ \A p \in buffers \ B : runs[p] \cap (B \cup up) # {} => p \in up
        /\ \A S \in SUBSET buffers :
             B \subseteq S /\ (\A q \in buffers : runs[q] \cap S # {} => q \in S)
               => up \subseteq S
    BY AboveIs
  <1>3. Closed(k, later, R)
    BY ReplayableIs
  <1>4. Closed(t, live, V)
    BY DEF Judged
  <1> HIDE DEF R, up
  <1>5. \A a \in buffers \ B : Began(k, a) = Began(t, a)
    BY DEF Began
  <1>6. ASSUME NEW a \in R \ B
        PROVE  /\ a \in DOMAIN t.tapes /\ a \in live
               /\ \A x \in t.tapes[a].executed : Holds(t, live, x) /\ x.buffer \in R \ B
    <2>1. a \in DOMAIN k.tapes /\ a \in later
          /\ \A x \in k.tapes[a].executed : Holds(k, later, x) /\ x.buffer \in R
      BY <1>3 DEF Closed
    <2>2. a \in DOMAIN t.tapes /\ k.tapes[a] = t.tapes[a] /\ a \in live
      BY <2>1
    <2>3. ASSUME NEW x \in t.tapes[a].executed PROVE Holds(t, live, x) /\ x.buffer \in R \ B
      <3>1. Holds(k, later, x) /\ x.buffer \in R
        BY <2>1, <2>2
      <3>2. x.buffer \in DOMAIN k.tapes /\ x.buffer \in later
        BY <1>3, <3>1 DEF Closed
      <3>3. x.buffer \notin B
        <4>1. Began(k, x.buffer) = k.tapes[x.buffer].began
          BY <3>2 DEF Began
        <4>2. x.began = k.tapes[x.buffer].began
          BY <3>1, <4>1 DEF Holds
        <4> QED BY <2>2, <3>2, <4>2
      <3>4. x.buffer \in buffers \ B
        BY <3>2, <3>3
      <3>5. x.buffer \in live
        BY <3>2, <3>4
      <3> QED BY <1>5, <3>1, <3>4, <3>5 DEF Holds
    <2> QED BY <2>2, <2>3
  <1>7. Closed(t, live, R \ B)
    BY <1>6 DEF Closed
  <1>8. R \ B \subseteq Replayable(t, live)
    BY <1>7, ReplayableIs
  <1>9. up \cap R = {}
    <2> DEFINE S == (buffers \ R) \cup B
    <2>1. ASSUME NEW q \in buffers, runs[q] \cap S # {}, q \notin S PROVE FALSE
      <3>1. q \in R \ B /\ q \in DOMAIN t.tapes
        BY <1>6, <2>1
      <3>2. PICK x \in t.tapes[q].executed : x.buffer \in S
        BY <1>1, <2>1, <3>1
      <3> QED BY <1>6, <3>1, <3>2
    <2>2. up \subseteq S
      BY <1>2, <2>1
    <2> QED BY <1>2, <2>2
  <1>10. dead \cap R = {}
    <2>1. void \cap Replayable(t, live) = {}
      BY DEF Judged
    <2> QED BY <1>8, <1>9, <2>1
  <1>11. dead \subseteq DOMAIN k.tapes
    <2> DEFINE S == B \cup {q \in buffers : runs[q] # {}}
    <2>1. up \subseteq S
      <3>1. \A q \in buffers : runs[q] \cap S # {} => q \in S
        OBVIOUS
      <3> HIDE DEF S
      <3>2. S \in SUBSET buffers /\ B \subseteq S
        BY DEF S
      <3> QED BY <1>2, <3>1, <3>2
    <2>2. up \subseteq DOMAIN t.tapes
      BY <1>1, <1>2, <2>1
    <2> QED BY <1>1, <1>2, <2>2
  <1>12. ASSUME NEW a \in W
         PROVE  \A x \in k.tapes[a].executed : Holds(k, later, x) /\ x.buffer \in W
    <2>1. CASE a \in B
      <3>1. k.tapes[a].executed = {}
        BY <2>1
      <3> QED BY <3>1
    <2>2. CASE a \notin B
      <3>1. a \in DOMAIN t.tapes /\ k.tapes[a] = t.tapes[a] /\ a \notin up /\ a \in buffers
        BY <2>2
      <3>2. a \in V
        BY <2>2, <3>1
      <3>3. ASSUME NEW x \in t.tapes[a].executed PROVE Holds(k, later, x) /\ x.buffer \in W
        <4>1. Holds(t, live, x) /\ x.buffer \in V
          BY <1>4, <3>2 DEF Closed
        <4>2. x.buffer \in runs[a]
          BY <1>1, <3>1
        <4>3. x.buffer \notin B \cup up
          BY <1>2, <2>2, <3>1, <4>2
        <4>4. x.buffer \in buffers \ B /\ x.buffer \in DOMAIN t.tapes /\ x.buffer \notin void
          BY <1>1, <4>1, <4>3
        <4>5. x.buffer \in W /\ x.buffer \in later
          BY <4>1, <4>3, <4>4
        <4> QED BY <1>5, <4>1, <4>4, <4>5 DEF Holds
      <3> QED BY <3>1, <3>3
    <2> QED BY <2>1, <2>2
  <1>13. Closed(k, later, W)
    BY <1>12 DEF Closed
  <1> HIDE DEF dead
  <1>14. Judged(k, later, stands, dead)
    BY <1>10, <1>11, <1>13 DEF Judged, R
  <1> QED BY <1>14 DEF dead, up

\* A command recorded into a buffer nothing valid executes.
LEMMA Adds ==
  ASSUME NEW t, NEW k, NEW m, NEW live, NEW standing \in SUBSET live,
         Numbered(t, live, m, seq),
         Taped(t, seq, buffers, tape, runs), Judged(t, live, standing, void),
         NEW b \in buffers \cap standing, \A q \in buffers \ void : b \notin runs[q],
         NEW E \in SUBSET ((buffers \cap standing) \ {b}), NEW i,
         IsFiled(k, t, b, FALSE, Saw(t, E), i)
  PROVE  Judged(k, live, standing,
                IF \E e \in E : e \in void \/ tape[e] = {} THEN void \cup {b} ELSE void)
  <1> DEFINE R == Replayable(k, live)
             bad == \E e \in E : e \in void \/ tape[e] = {}
             dead == IF bad THEN void \cup {b} ELSE void
             V == (standing \ void) \cap DOMAIN t.tapes
             W == (standing \ dead) \cap DOMAIN k.tapes
             saw == Saw(t, E)
  <1>1. /\ DOMAIN t.tapes \subseteq buffers /\ void \subseteq DOMAIN t.tapes
        /\ \A a \in DOMAIN t.tapes : runs[a] = {x.buffer : x \in t.tapes[a].executed}
        /\ \A a \in buffers : tape[a] # {} <=> a \in DOMAIN t.tapes
    BY DEF Taped, Judged
  <1>2. /\ DOMAIN k.tapes = DOMAIN t.tapes \cup {b}
        /\ \A a \in DOMAIN t.tapes : a # b => k.tapes[a] = t.tapes[a]
        /\ b \notin DOMAIN t.tapes => k.tapes[b].executed = saw
        /\ b \in DOMAIN t.tapes => /\ k.tapes[b].executed = t.tapes[b].executed \cup saw
                                   /\ k.tapes[b].began = t.tapes[b].began
    BY DEF IsFiled
  <1>3. /\ \A x \in saw : x.buffer \in E /\ x.began = Began(t, x.buffer)
        /\ \A e \in E : \E x \in saw : x.buffer = e
    <2> DEFINE see(e) == [buffer |-> e, began |-> Began(t, e)]
    <2>1. saw = {see(e) : e \in E}
      BY DEF Saw
    <2>2. \A e : see(e).buffer = e /\ see(e).began = Began(t, e)
      OBVIOUS
    <2> HIDE DEF see, saw
    <2> QED BY <2>1, <2>2
  <1>4. Closed(k, live, R) /\ Closed(t, live, V)
    BY ReplayableIs DEF Judged
  <1>5. void \cap Replayable(t, live) = {}
    BY DEF Judged
  <1>6. \A a : a # b => Began(k, a) = Began(t, a)
    BY <1>2 DEF Began
  <1>7. \A a \in DOMAIN t.tapes : t.tapes[a].began # 0
    BY DEF Numbered
  <1>8. \A a \in R : a # b \/ b \in DOMAIN t.tapes => a \in Replayable(t, live)
    BY RecordReplays
  <1>9. void \cap R = {}
    <2>1. ASSUME NEW a \in void, a \in R PROVE FALSE
      <3>1. a # b \/ b \in DOMAIN t.tapes
        BY <1>1, <2>1
      <3> QED BY <1>5, <1>8, <2>1, <3>1
    <2> QED BY <2>1
  <1> HIDE DEF R, saw
  \* It does not replay if it executes what does not.
  <1>10. bad => b \notin R
    <2>1. ASSUME NEW e \in E, e \in void \/ tape[e] = {}, b \in R PROVE FALSE
      <3>1. PICK x \in saw : x.buffer = e
        BY <1>3
      <3>2. x \in k.tapes[b].executed
        BY <1>2
      <3>3. Holds(k, live, x) /\ e \in R
        BY <1>4, <2>1, <3>1, <3>2 DEF Closed
      <3>4. e \in void => FALSE
        BY <1>9, <3>3
      <3>5. e \in DOMAIN k.tapes /\ e # b /\ e \in buffers
        BY <1>4, <3>3 DEF Closed
      <3> QED BY <1>1, <1>2, <2>1, <3>4, <3>5
    <2> QED BY <2>1
  <1>11. dead \cap R = {} /\ dead \subseteq DOMAIN k.tapes
    BY <1>1, <1>2, <1>9, <1>10
  \* What was valid is, and executes only that.
  <1>12. ASSUME NEW a \in V, a # b \/ ~bad, NEW x \in t.tapes[a].executed
         PROVE  Holds(k, live, x) /\ x.buffer \in W
    <2>1. Holds(t, live, x) /\ x.buffer \in V
      BY <1>4 DEF Closed
    <2>2. x.buffer \in runs[a] /\ a \in buffers \ void
      BY <1>1
    <2>3. x.buffer # b
      BY <2>2
    <2>4. x.buffer \in W
      BY <1>2, <2>1, <2>3
    <2> QED BY <1>6, <2>1, <2>3, <2>4 DEF Holds
  <1>13. ASSUME ~bad, NEW x \in saw PROVE Holds(k, live, x) /\ x.buffer \in W
    <2>1. x.buffer \in E /\ x.began = Began(t, x.buffer)
      BY <1>3
    <2>2. x.buffer \in DOMAIN t.tapes /\ x.buffer \notin void /\ x.buffer # b
      BY <1>1, <1>13, <2>1
    <2>3. x.buffer \in W /\ x.buffer \in live
      BY <1>2, <1>13, <2>1, <2>2
    <2>4. x.began # 0
      BY <1>7, <2>1, <2>2 DEF Began
    <2> QED BY <1>6, <2>1, <2>2, <2>3, <2>4 DEF Holds
  <1>14. ASSUME NEW a \in W, NEW x \in k.tapes[a].executed
         PROVE  Holds(k, live, x) /\ x.buffer \in W
    <2>1. CASE a # b
      <3>1. a \in V /\ x \in t.tapes[a].executed
        BY <1>2, <1>14, <2>1
      <3> QED BY <1>12, <2>1, <3>1
    <2>2. CASE a = b
      <3>1. ~bad
        BY <1>14, <2>2
      <3>2. x \in saw \/ (b \in V /\ x \in t.tapes[b].executed)
        BY <1>2, <1>14, <2>2
      <3> QED BY <1>12, <1>13, <3>1, <3>2
    <2> QED BY <2>1, <2>2
  <1>15. W \subseteq DOMAIN k.tapes /\ W \subseteq live
    OBVIOUS
  <1>16. Closed(k, live, W)
    BY <1>14, <1>15 DEF Closed
  <1> HIDE DEF dead
  <1>17. Judged(k, live, standing, dead)
    BY <1>11, <1>16 DEF Judged, R
  <1> QED BY <1>17 DEF dead

-----------------------------------------------------------------------------
(* Every step, and what a restore remakes                                  *)

LEMMA Known ==
  ASSUME IInv, Remade
  PROVE  /\ seq \in Nat /\ minted \in Nat /\ Live \subseteq 1..minted /\ alive \subseteq Live
         /\ held \subseteq Live /\ held \cap buffers = {} /\ buffers \subseteq 1..minted
         /\ \A i \in twin.entries : i.keys \subseteq 1..minted
         /\ DOMAIN twin.tapes \subseteq buffers
         /\ Storied(twin, seq, alive, Live) /\ Taped(twin, seq, buffers, tape, runs)
         /\ Judged(twin, Live, alive, void) /\ Slotted /\ Numbered(twin, Live, minted, seq)
         /\ Shaped(twin)
  BY DEF IInv, Numbered, Remade, Placed, Live, Keys, Taped

LEMMA PushStory ==
  ASSUME IInv, Remade, NEW about \in {"created", "mutated", "undoes"}, NEW keys,
         NEW refs \in SUBSET alive, Push(about, keys, refs),
         IF about = "created" THEN keys \cap 1..minted = {} ELSE keys \subseteq alive,
         alive' \subseteq alive \cup (IF about = "created" THEN keys ELSE {}),
         Live' \subseteq Live \cup (IF about = "created" THEN keys ELSE {}),
         about = "undoes" => refs = {} /\ keys \cap alive' = {}
  PROVE  /\ Storied(twin', seq + 1, alive', Live')
         /\ seq' = seq + 1 /\ slots' = slots /\ twin'.tapes = twin.tapes
         /\ \A i : i.seq \in 1..seq /\ Named(twin, i) => Named(twin', i)
  <1> DEFINE e == Item(about, keys, refs)
             k == twin'
             stands == alive'
             later == Live'
             now == Live
             E == {e}
  <1>1. e.about = about /\ e.keys = keys /\ e.refs = refs /\ e.seq = seq + 1
    BY DEF Item
  <1>2. k.entries = twin.entries \cup {e} /\ k.tapes = twin.tapes
    BY Known DEF Push, Shaped
  <1>3. /\ seq \in Nat /\ minted \in Nat /\ alive \subseteq now
        /\ \A i \in twin.entries : i.keys \subseteq 1..minted
        /\ Storied(twin, seq, alive, now)
    BY Known
  <1>4. /\ e.refs \subseteq alive
        /\ IF e.about = "created" THEN e.keys \cap 1..minted = {} ELSE e.keys \subseteq alive
        /\ stands \subseteq alive \cup (IF e.about = "created" THEN e.keys ELSE {})
        /\ later \subseteq now \cup (IF e.about = "created" THEN e.keys ELSE {})
        /\ e.about = "undoes" => e.refs = {} /\ e.keys \cap stands = {}
        /\ e.about \in {"created", "mutated", "undoes"}
    BY <1>1
  <1>5. k.entries = twin.entries \cup E /\ \A x \in E : x.seq = seq + 1
    BY <1>1, <1>2
  <1> HIDE DEF e, k, stands, later, now, E
  <1>6. Storied(k, seq + 1, stands, later)
    BY <1>1, <1>2, <1>3, <1>4, StoryGrows
  <1>7. \A i : i.seq \in 1..seq /\ Named(twin, i) => Named(k, i)
    BY <1>3, <1>5, NamedStays
  <1> QED BY <1>2, <1>6, <1>7 DEF Push, k, stands, later

\* The tapes and what they hold are as they were.
LEMMA TapesHeld ==
  ASSUME IInv, Remade, seq' \in Nat, seq <= seq', twin'.tapes = twin.tapes,
         \A i : i.seq \in 1..seq /\ Named(twin, i) => Named(twin', i),
         buffers' = buffers, tape' = tape, runs' = runs
  PROVE  Taped(twin', seq', buffers', tape', runs')
  <1> DEFINE k == twin'
             n == seq'
  <1>1. /\ seq \in Nat /\ n \in Nat /\ seq <= n /\ k.tapes = twin.tapes
        /\ Taped(twin, seq, buffers, tape, runs)
        /\ \A i : i.seq \in 1..seq /\ Named(twin, i) => Named(k, i)
    BY Known
  <1>2. DOMAIN tape = buffers /\ DOMAIN runs = buffers
    BY <1>1 DEF Taped
  <1> HIDE DEF k, n
  <1>3. Taped(k, n, buffers, tape, runs)
    BY <1>1, <1>2, TapesStay
  <1> QED BY <1>3 DEF k, n

\* Some objects are no more: what executes their buffers is void.
LEMMA JudgedFewer ==
  ASSUME IInv, Remade, NEW K, twin'.tapes = twin.tapes, alive' = alive \ K,
         Live' \subseteq Live, Live' \cap (K \cap buffers) = {}, alive' \subseteq Live',
         Ended(K \cap buffers)
  PROVE  Judged(twin', Live', alive', void')
  <1> DEFINE k == twin'
             stands == alive'
             later == Live'
             now == Live
             B == K \cap buffers
  <1>1. /\ Taped(twin, seq, buffers, tape, runs) /\ Judged(twin, now, alive, void)
        /\ B \in SUBSET buffers /\ k.tapes = twin.tapes /\ DOMAIN k.tapes \subseteq buffers
        /\ stands = alive \ K /\ later \subseteq now /\ later \cap B = {}
        /\ stands \subseteq later
    BY Known
  <1>2. /\ \A a \in buffers \ B : /\ a \in DOMAIN k.tapes <=> a \in DOMAIN twin.tapes
                                  /\ a \in DOMAIN twin.tapes => k.tapes[a] = twin.tapes[a]
        /\ \A b \in B : b \in later \cap DOMAIN k.tapes =>
             /\ k.tapes[b].executed = {}
             /\ \A a \in DOMAIN twin.tapes : \A x \in twin.tapes[a].executed :
                  x.buffer = b => x.began # k.tapes[b].began
    BY <1>1
  <1>3. \A a \in DOMAIN twin.tapes \ B : /\ a \in later => a \in now
                                         /\ a \in stands <=> a \in alive
    BY <1>1
  <1> HIDE DEF k, stands, later, now, B
  <1>4. Judged(k, later, stands, (void \ B) \cup Above(B))
    BY <1>1, <1>2, <1>3, Judges
  <1> QED BY <1>4 DEF Ended, k, stands, later, B

\* No recording ends, and what is new is no recorded buffer.
LEMMA JudgedHeld ==
  ASSUME IInv, Remade, twin'.tapes = twin.tapes, void' = void,
         Live' \cap buffers \subseteq Live, alive' \cap buffers = alive \cap buffers,
         alive' \subseteq Live'
  PROVE  Judged(twin', Live', alive', void')
  <1> DEFINE k == twin'
             stands == alive'
             later == Live'
             now == Live
             B == {}
  <1>1. /\ Taped(twin, seq, buffers, tape, runs) /\ Judged(twin, now, alive, void)
        /\ B \in SUBSET buffers /\ k.tapes = twin.tapes /\ DOMAIN k.tapes \subseteq buffers
        /\ DOMAIN twin.tapes \subseteq buffers
        /\ later \cap buffers \subseteq now /\ stands \cap buffers = alive \cap buffers
        /\ stands \subseteq later
    BY Known
  <1>2. \A a \in DOMAIN twin.tapes \ B : /\ a \in later => a \in now
                                         /\ a \in stands <=> a \in alive
    BY <1>1
  <1>3. Above(B) = {}
    <2>1. \A q \in buffers : runs[q] \cap B # {} => q \in B
      OBVIOUS
    <2>2. B \in SUBSET buffers /\ B \subseteq B
      OBVIOUS
    <2> HIDE DEF B
    <2>3. Above(B) \subseteq B /\ Above(B) \cap B = {}
      BY <2>1, <2>2, AboveIs
    <2> QED BY <2>3
  <1>4. /\ \A a \in buffers \ B : /\ a \in DOMAIN k.tapes <=> a \in DOMAIN twin.tapes
                                  /\ a \in DOMAIN twin.tapes => k.tapes[a] = twin.tapes[a]
        /\ \A b \in B : b \in later \cap DOMAIN k.tapes =>
             /\ k.tapes[b].executed = {}
             /\ \A a \in DOMAIN twin.tapes : \A x \in twin.tapes[a].executed :
                  x.buffer = b => x.began # k.tapes[b].began
    BY <1>1
  <1>5. (void \ B) \cup Above(B) = void
    BY <1>3
  <1> HIDE DEF k, stands, later, now, B
  <1>6. Judged(k, later, stands, (void \ B) \cup Above(B))
    BY <1>1, <1>2, <1>4, Judges
  <1> QED BY <1>5, <1>6 DEF k, stands, later

LEMMA SlotsHeld ==
  ASSUME Remade, slots' = slots, seq' \in Nat, seq <= seq'
  PROVE  Slotted'
  <1>1. seq \in Nat /\ Slotted
    BY DEF Remade, Placed
  <1> DEFINE n == seq'
  <1>2. n \in Nat /\ seq <= n
    OBVIOUS
  <1> HIDE DEF n
  <1>3. 1..seq \subseteq 1..n
    BY <1>1, <1>2
  <1> QED BY <1>1, <1>3 DEF Slotted, Stands, n

LEMMA CreateRemakes ==
  ASSUME IInv, Remade, NEW n \in Nat, NEW refs \in SUBSET Objects, NEW recorders \in BOOLEAN,
         Create(n, refs, recorders)
  PROVE  Remade'
  <1> DEFINE made == minted + 1..minted + n
  <1>1. /\ Push("created", made, refs) /\ minted' = minted + n /\ alive' = alive \cup made
        /\ buffers' = (IF recorders THEN buffers \cup made ELSE buffers)
        /\ tape' = (IF recorders THEN [b \in buffers' |-> IF b \in made THEN {} ELSE tape[b]]
                    ELSE tape)
        /\ runs' = (IF recorders THEN [b \in buffers' |-> IF b \in made THEN {} ELSE runs[b]]
                    ELSE runs)
        /\ held' = held /\ void' = void
    BY DEF Create
  <1>2. /\ minted \in Nat /\ seq \in Nat /\ alive \subseteq 1..minted /\ buffers \subseteq 1..minted
        /\ held \subseteq 1..minted /\ held \cap buffers = {}
    BY Known
  <1>3. /\ made \cap 1..minted = {} /\ made \subseteq 1..minted + n
        /\ 1..minted \subseteq 1..minted + n
    BY <1>2
  <1> HIDE DEF made
  <1>4. Live' = Live \cup made /\ refs \subseteq alive /\ alive' \subseteq Live'
    BY <1>1 DEF Live, Objects
  <1>5. /\ Storied(twin', seq + 1, alive', Live') /\ seq' = seq + 1 /\ slots' = slots
        /\ twin'.tapes = twin.tapes
        /\ \A i : i.seq \in 1..seq /\ Named(twin, i) => Named(twin', i)
    BY <1>1, <1>3, <1>4, PushStory
  <1>6. seq' \in Nat /\ seq <= seq'
    BY <1>2, <1>5
  <1>7. Taped(twin', seq', buffers', tape', runs')
    <2> DEFINE k == twin'
               s == seq'
               C == buffers'
               tapes == tape'
               running == runs'
    <2>1. /\ seq \in Nat /\ s \in Nat /\ seq <= s /\ k.tapes = twin.tapes
          /\ Taped(twin, seq, buffers, tape, runs)
          /\ \A i : i.seq \in 1..seq /\ Named(twin, i) => Named(k, i)
      BY <1>5, <1>6, Known
    <2>2. DOMAIN tape = buffers /\ DOMAIN runs = buffers
      BY <2>1 DEF Taped
    <2>3. buffers \cap made = {}
      BY <1>2, <1>3
    <2>4. /\ buffers \subseteq C /\ DOMAIN tapes = C /\ DOMAIN running = C
          /\ \A b \in C : tapes[b] = (IF b \in buffers THEN tape[b] ELSE {})
          /\ \A b \in C : running[b] = (IF b \in buffers THEN runs[b] ELSE {})
      <3>1. CASE recorders
        BY <1>1, <2>2, <2>3, <3>1
      <3>2. CASE ~recorders
        BY <1>1, <2>2, <3>2
      <3> QED BY <3>1, <3>2
    <2> HIDE DEF k, s, C, tapes, running
    <2>5. Taped(k, s, C, tapes, running)
      BY <2>1, <2>4, TapesStay
    <2> QED BY <2>5 DEF k, s, C, tapes, running
  <1>8. Judged(twin', Live', alive', void')
    <2>1. Live' \cap buffers \subseteq Live /\ alive' \cap buffers = alive \cap buffers
      BY <1>1, <1>2, <1>3, <1>4
    <2> QED BY <1>1, <1>4, <1>5, <2>1, JudgedHeld
  <1>9. Slotted'
    BY <1>5, <1>6, SlotsHeld
  <1>10. Placed'
    <2>1. alive' \subseteq 1..minted' /\ buffers' \subseteq 1..minted' /\ held' \subseteq 1..minted'
      BY <1>1, <1>2, <1>3
    <2>2. held' \cap buffers' = {}
      BY <1>1, <1>2, <1>3
    <2> QED BY <1>6, <2>1, <2>2 DEF Placed, Keys
  <1> QED BY <1>5, <1>7, <1>8, <1>9, <1>10 DEF Remade

\* A push after which no recording is different.
LEMMA MutateRemakes ==
  ASSUME IInv, Remade, NEW into \in SUBSET Objects, NEW refs \in SUBSET Objects,
         Mutate(into, refs)
  PROVE  Remade'
  <1>1. /\ Push("mutated", into, refs)
        /\ minted' = minted /\ buffers' = buffers /\ alive' = alive /\ held' = held
        /\ tape' = tape /\ runs' = runs /\ void' = void
    BY DEF Mutate, worldVars, tapeVars
  <1>2. Live' = Live /\ refs \subseteq alive /\ into \subseteq alive /\ alive' \subseteq Live'
    BY <1>1 DEF Live, Objects
  <1>3. /\ Storied(twin', seq + 1, alive', Live') /\ seq' = seq + 1 /\ slots' = slots
        /\ twin'.tapes = twin.tapes
        /\ \A i : i.seq \in 1..seq /\ Named(twin, i) => Named(twin', i)
    BY <1>1, <1>2, PushStory
  <1>4. seq' \in Nat /\ seq <= seq'
    BY <1>3, Known
  <1>5. Taped(twin', seq', buffers', tape', runs')
    BY <1>1, <1>3, <1>4, TapesHeld
  <1>6. Judged(twin', Live', alive', void')
    BY <1>1, <1>2, <1>3, JudgedHeld
  <1>7. Slotted' /\ Placed'
    BY <1>1, <1>3, <1>4, SlotsHeld DEF Remade, Placed, Keys
  <1> QED BY <1>3, <1>5, <1>6, <1>7 DEF Remade

LEMMA FreeRemakes ==
  ASSUME IInv, Remade, NEW K \in SUBSET alive, Free(K)
  PROVE  Remade'
  <1> DEFINE none == {}
  <1>1. /\ Push("undoes", K, none) /\ alive' = alive \ K /\ Ended(K \cap buffers)
        /\ minted' = minted /\ buffers' = buffers /\ held' = held
        /\ tape' = tape /\ runs' = runs
    BY DEF Free
  <1>2. /\ Live' \subseteq Live /\ Live' \cap (K \cap buffers) = {} /\ alive' \subseteq Live'
        /\ alive' \subseteq alive /\ K \cap alive' = {} /\ none \subseteq alive
    BY <1>1, Known DEF Live
  <1>3. /\ Storied(twin', seq + 1, alive', Live') /\ seq' = seq + 1 /\ slots' = slots
        /\ twin'.tapes = twin.tapes
        /\ \A i : i.seq \in 1..seq /\ Named(twin, i) => Named(twin', i)
    BY <1>1, <1>2, PushStory
  <1>4. seq' \in Nat /\ seq <= seq'
    BY <1>3, Known
  <1>5. Taped(twin', seq', buffers', tape', runs')
    BY <1>1, <1>3, <1>4, TapesHeld
  <1>6. Judged(twin', Live', alive', void')
    BY <1>1, <1>2, <1>3, JudgedFewer
  <1>7. Slotted' /\ Placed'
    BY <1>1, <1>3, <1>4, SlotsHeld DEF Remade, Placed, Keys
  <1> QED BY <1>3, <1>5, <1>6, <1>7 DEF Remade

\* Nothing pushed or recorded, and no more stands.
LEMMA StoryHeld ==
  ASSUME IInv, Remade, seq' \in Nat, seq <= seq', twin' = twin,
         alive' \subseteq alive, Live' \subseteq Live
  PROVE  Storied(twin', seq', alive', Live')
  <1> DEFINE n == seq'
             stands == alive'
             later == Live'
             now == Live
  <1>1. /\ seq \in Nat /\ n \in Nat /\ seq <= n /\ Storied(twin, seq, alive, now)
        /\ stands \in SUBSET alive /\ later \in SUBSET now
    BY Known
  <1> HIDE DEF n, stands, later, now
  <1>2. Storied(twin, n, stands, later)
    BY <1>1, StoryStays
  <1> QED BY <1>2 DEF n, stands, later

LEMMA DestroyRemakes ==
  ASSUME IInv, Remade, NEW K \in SUBSET alive, Destroy(K)
  PROVE  Remade'
  <1>1. /\ seq' = seq + 1 /\ alive' = alive \ K /\ Ended(K \cap buffers)
        /\ minted' = minted /\ buffers' = buffers /\ held' = held /\ twin' = twin
        /\ slots' = slots /\ tape' = tape /\ runs' = runs
    BY DEF Destroy
  <1>2. /\ Live' \subseteq Live /\ Live' \cap (K \cap buffers) = {} /\ alive' \subseteq Live'
        /\ alive' \subseteq alive
    BY <1>1, Known DEF Live
  <1>3. seq' \in Nat /\ seq <= seq'
    BY <1>1, Known
  <1>4. Storied(twin', seq', alive', Live')
    BY <1>1, <1>2, <1>3, StoryHeld
  <1>5. Taped(twin', seq', buffers', tape', runs')
    BY <1>1, <1>3, TapesHeld
  <1>6. Judged(twin', Live', alive', void')
    BY <1>1, <1>2, JudgedFewer
  <1>7. Slotted' /\ Placed'
    BY <1>1, <1>3, SlotsHeld DEF Remade, Placed, Keys
  <1> QED BY <1>4, <1>5, <1>6, <1>7 DEF Remade

\* Neither the twin nor a tape is different, and no buffer that stood is gone.
LEMMA Untold ==
  ASSUME IInv, Remade, seq' \in Nat, seq <= seq', twin' = twin, minted' = minted,
         buffers' = buffers, alive' = alive, held' \subseteq held \cup (alive \ buffers),
         tape' = tape, runs' = runs, void' = void, Slotted'
  PROVE  Remade'
  <1>1. Live' \subseteq Live /\ alive' \subseteq Live'
    BY DEF Live
  <1>2. Storied(twin', seq', alive', Live')
    BY <1>1, StoryHeld
  <1>3. Taped(twin', seq', buffers', tape', runs')
    BY TapesHeld
  <1>4. Judged(twin', Live', alive', void')
    BY <1>1, JudgedHeld
  <1>5. Placed'
    BY DEF Remade, Placed, Keys
  <1> QED BY <1>2, <1>3, <1>4, <1>5 DEF Remade

LEMMA RecordRemakes ==
  ASSUME IInv, Remade, NEW b \in Recorders, NEW resets \in BOOLEAN, NEW E \in SUBSET Recorders,
         NEW refs \in SUBSET Objects, Record(b, resets, E, refs)
  PROVE  /\ Storied(twin', seq', alive', Live') /\ Taped(twin', seq', buffers', tape', runs')
         /\ Slotted' /\ Placed' /\ Live' = Live /\ alive' = alive
         /\ IsFiled(twin', twin, b, resets, Saw(twin, E), Item("recorded", {b}, refs \cup E))
  <1> DEFINE k == twin'
             now == Live
             i == Item("recorded", {b}, refs \cup E)
             tapes == tape'
             running == runs'
             saw == Saw(twin, E)
             none == {}
             n == seq + 1
  <1>1. /\ seq' = seq + 1 /\ k = Filed(twin, b, resets, E, refs)
        /\ tapes = [tape EXCEPT ![b] = (IF resets THEN {} ELSE @) \cup {seq + 1}]
        /\ running = [runs EXCEPT ![b] = (IF resets THEN {} ELSE @) \cup E]
        /\ minted' = minted /\ buffers' = buffers /\ alive' = alive /\ held' = held
        /\ slots' = slots
    BY DEF Record, worldVars
  <1>2. /\ seq \in Nat /\ alive \subseteq now /\ Shaped(twin) /\ b \in buffers
        /\ Storied(twin, seq, alive, now) /\ Taped(twin, seq, buffers, tape, runs)
    BY Known DEF Recorders
  <1>3. IsFiled(k, twin, b, resets, saw, i)
    BY <1>1, <1>2, FiledIs
  <1>4. /\ i.about = "recorded" /\ i.keys \subseteq alive /\ i.refs \subseteq alive
        /\ i.seq = seq + 1
    BY DEF Item, Recorders, Objects
  <1>5. k.entries = twin.entries
    BY <1>3 DEF IsFiled
  <1>6. k.entries = twin.entries \cup none /\ \A e \in none : e.seq = seq + 1
    BY <1>5
  <1>7. Live' = Live
    BY <1>1 DEF Live
  <1>8. seq' \in Nat /\ seq <= seq' /\ seq + 1 \in Nat /\ seq <= seq + 1
    BY <1>1, <1>2
  <1>13. Wound(tapes, running, b, resets, n, E)
    <2>1. DOMAIN tape = buffers /\ DOMAIN runs = buffers
      BY <1>2 DEF Taped
    <2> HIDE DEF tapes, running
    <2> QED BY <1>1, <1>2, <2>1 DEF Wound
  <1>14. n = seq + 1 /\ n \in Nat /\ seq <= n
    BY <1>8
  <1> HIDE DEF k, now, i, tapes, running, saw, none, n
  <1>9. Named(k, i)
    BY <1>2, <1>4, <1>6, NamedNow
  <1>10. Storied(k, seq + 1, alive, now)
    BY <1>2, <1>5, <1>8, StoryStays
  <1>11. Taped(k, n, buffers, tapes, running)
    <2>1. IsFiled(k, twin, b, resets, Saw(twin, E), Item("recorded", {b}, refs \cup E))
          /\ Named(k, Item("recorded", {b}, refs \cup E))
      BY <1>3, <1>9 DEF i, saw
    <2> QED BY <1>2, <1>5, <1>13, <1>14, <2>1, TapesGrow
  <1>12. Slotted' /\ Placed'
    BY <1>1, <1>8, SlotsHeld DEF Remade, Placed, Keys
  <1> QED BY <1>1, <1>3, <1>7, <1>10, <1>11, <1>12, <1>14 DEF k, now, i, tapes, running, saw

LEMMA BeginRemakes ==
  ASSUME IInv, Remade, NEW b \in Recorders, NEW refs \in SUBSET Objects, Begin(b, refs)
  PROVE  Remade'
  <1> DEFINE none == {}
             k == twin'
             now == Live
             B == {b}
             i == Item("recorded", {b}, refs \cup none)
  <1>1. Record(b, TRUE, none, refs) /\ Ended(B) /\ none \subseteq Recorders
    BY DEF Begin
  <1>2. /\ Storied(twin', seq', alive', Live') /\ Taped(twin', seq', buffers', tape', runs')
        /\ Slotted' /\ Placed' /\ Live' = Live /\ alive' = alive
        /\ IsFiled(k, twin, b, TRUE, Saw(twin, none), i)
    <2> HIDE DEF none
    <2> QED BY <1>1, RecordRemakes
  <1>3. /\ Taped(twin, seq, buffers, tape, runs) /\ Judged(twin, now, alive, void)
        /\ B \in SUBSET buffers /\ DOMAIN twin.tapes \subseteq buffers /\ alive \subseteq now
        /\ Numbered(twin, now, minted, seq) /\ seq \in Nat
    BY Known DEF Recorders
  <1>4. Saw(twin, none) = {}
    BY DEF Saw
  <1> HIDE DEF none, k, now, i
  <1>5. /\ DOMAIN k.tapes = DOMAIN twin.tapes \cup {b}
        /\ \A a \in DOMAIN twin.tapes : a # b => k.tapes[a] = twin.tapes[a]
        /\ k.tapes[b].began = seq + 1 /\ k.tapes[b].executed = {}
    BY <1>2, <1>4 DEF IsFiled
  <1>6. \A a \in DOMAIN twin.tapes : \A x \in twin.tapes[a].executed : x.began # seq + 1
    <2>1. \A a \in DOMAIN twin.tapes : \A x \in twin.tapes[a].executed : x.began \in 0..seq
      BY <1>3 DEF Numbered
    <2>2. \A n \in 0..seq : n # seq + 1
      BY <1>3
    <2> QED BY <2>1, <2>2
  <1>7. /\ DOMAIN k.tapes \subseteq buffers
        /\ \A a \in buffers \ B : /\ a \in DOMAIN k.tapes <=> a \in DOMAIN twin.tapes
                                  /\ a \in DOMAIN twin.tapes => k.tapes[a] = twin.tapes[a]
        /\ \A a \in B : a \in now \cap DOMAIN k.tapes =>
             /\ k.tapes[a].executed = {}
             /\ \A c \in DOMAIN twin.tapes : \A x \in twin.tapes[c].executed :
                  x.buffer = a => x.began # k.tapes[a].began
        /\ \A a \in DOMAIN twin.tapes \ B : /\ a \in now => a \in now
                                            /\ a \in alive <=> a \in alive
    BY <1>3, <1>5, <1>6
  <1> HIDE DEF B
  <1>8. Judged(k, now, alive, (void \ B) \cup Above(B))
    BY <1>3, <1>7, Judges
  <1>9. Judged(twin', Live', alive', void')
    BY <1>1, <1>2, <1>8 DEF Ended, k, now
  <1> QED BY <1>2, <1>9 DEF Remade

LEMMA AddRemakes ==
  ASSUME IInv, Remade, NEW b \in Recorders, NEW E \in SUBSET (Recorders \ {b}),
         NEW refs \in SUBSET Objects, Add(b, E, refs)
  PROVE  Remade'
  <1> DEFINE k == twin'
             now == Live
             i == Item("recorded", {b}, refs \cup E)
  <1>1. /\ \A q \in buffers \ void : b \notin runs[q]
        /\ Record(b, FALSE, E, refs) /\ E \in SUBSET Recorders
        /\ void' = IF \E e \in E : e \in void \/ tape[e] = {} THEN void \cup {b} ELSE void
    BY DEF Add
  <1>2. /\ Storied(twin', seq', alive', Live') /\ Taped(twin', seq', buffers', tape', runs')
        /\ Slotted' /\ Placed' /\ Live' = Live /\ alive' = alive
        /\ IsFiled(k, twin, b, FALSE, Saw(twin, E), i)
    BY <1>1, RecordRemakes
  <1>3. /\ Taped(twin, seq, buffers, tape, runs) /\ Judged(twin, now, alive, void)
        /\ alive \in SUBSET now /\ Numbered(twin, now, minted, seq)
        /\ b \in buffers \cap alive /\ E \in SUBSET ((buffers \cap alive) \ {b})
    BY Known DEF Recorders
  <1> HIDE DEF k, now, i
  <1>4. Judged(k, now, alive, IF \E e \in E : e \in void \/ tape[e] = {} THEN void \cup {b} ELSE void)
    BY <1>1, <1>2, <1>3, Adds, ZenonT(60)
  <1>5. Judged(twin', Live', alive', void')
    BY <1>1, <1>2, <1>4 DEF k, now
  <1> QED BY <1>2, <1>5 DEF Remade

LEMMA PoolResetRemakes ==
  ASSUME IInv, Remade, NEW B \in SUBSET Recorders, PoolReset(B)
  PROVE  Remade'
  <1> DEFINE k == twin'
             now == Live
             tapes == tape'
             running == runs'
  <1>1. /\ seq' = seq + 1 /\ k = Without(twin, B) /\ Ended(B)
        /\ Unwound(tapes, running, B)
        /\ minted' = minted /\ buffers' = buffers /\ alive' = alive /\ held' = held
        /\ slots' = slots
    BY DEF PoolReset, worldVars, Unwound
  <1>2. /\ seq \in Nat /\ alive \subseteq now /\ Shaped(twin) /\ DOMAIN twin.tapes \subseteq buffers
        /\ Storied(twin, seq, alive, now) /\ Taped(twin, seq, buffers, tape, runs)
        /\ Judged(twin, now, alive, void) /\ B \in SUBSET buffers
    BY Known DEF Recorders
  <1>3. /\ k.entries = twin.entries /\ DOMAIN k.tapes = DOMAIN twin.tapes \ B
        /\ \A b \in DOMAIN k.tapes : k.tapes[b] = twin.tapes[b]
    BY <1>1, <1>2 DEF Without, Shaped
  <1>4. Live' = Live
    BY <1>1 DEF Live
  <1>5. seq' \in Nat /\ seq <= seq' /\ seq + 1 \in Nat /\ seq <= seq + 1
    BY <1>1, <1>2
  <1> DEFINE n == seq + 1
  <1>11. n = seq + 1 /\ n \in Nat /\ seq <= n
    BY <1>5
  <1> HIDE DEF k, now, tapes, running, n
  <1>6. Storied(k, seq + 1, alive, now)
    BY <1>2, <1>3, <1>5, StoryStays
  <1>7. Taped(k, n, buffers, tapes, running)
    BY <1>1, <1>2, <1>3, <1>11, TapesDrop
  <1>8. /\ DOMAIN k.tapes \subseteq buffers
        /\ \A a \in buffers \ B : /\ a \in DOMAIN k.tapes <=> a \in DOMAIN twin.tapes
                                  /\ a \in DOMAIN twin.tapes => k.tapes[a] = twin.tapes[a]
        /\ \A a \in B : a \notin now \cap DOMAIN k.tapes
    BY <1>2, <1>3
  <1>9. Judged(k, now, alive, (void \ B) \cup Above(B))
    BY <1>2, <1>8, Judges
  <1>10. Slotted' /\ Placed'
    BY <1>1, <1>5, SlotsHeld DEF Remade, Placed, Keys
  <1> QED BY <1>1, <1>4, <1>6, <1>7, <1>9, <1>10, <1>11 DEF Remade, Ended, k, now, tapes, running

\* A ring's create, or a slot of a ring that stands.
LEMMA LatestRemakes ==
  ASSUME IInv, Remade, NEW owner \in Rings \cup {"context"}, NEW route,
         NEW cmd \in {"create", "set", "seek", "seqno"}, Latest(owner, cmd, route),
         IF cmd = "create" THEN ~Stands(owner) ELSE Stands(owner)
  PROVE  Remade'
  <1> DEFINE new == <<owner, cmd>>
             after == slots'
             n == seq + 1
  <1>1. /\ seq' = n /\ DOMAIN after = DOMAIN slots \cup {new}
        /\ after[new].seq = n /\ \A s \in DOMAIN slots : s # new => after[s] = slots[s]
        /\ minted' = minted /\ buffers' = buffers /\ alive' = alive /\ held' = held
        /\ twin' = twin /\ tape' = tape /\ runs' = runs /\ void' = void
    BY DEF Latest, worldVars, tapeVars
  <1>2. /\ seq \in Nat /\ \A s \in DOMAIN slots : slots[s].seq \in 1..seq
        /\ DOMAIN slots \subseteq (Rings \cup {"context"}) \X {"create", "set", "seek", "seqno"}
        /\ \A s \in DOMAIN slots : s[1] # "context" =>
             /\ <<s[1], "create">> \in DOMAIN slots
             /\ slots[<<s[1], "create">>].seq <= slots[s].seq
    BY Known DEF Slotted, Stands
  <1>3. n \in Nat /\ seq <= n /\ 1..seq \subseteq 1..n /\ n \in 1..n /\ n <= n
        /\ \A x \in 1..seq : x <= n
    BY <1>2
  <1>4. new[1] = owner /\ new \in (Rings \cup {"context"}) \X {"create", "set", "seek", "seqno"}
        /\ \A x : <<x, "create">> = new <=> x = owner /\ cmd = "create"
    OBVIOUS
  <1>5. /\ cmd = "create" => <<owner, "create">> \notin DOMAIN slots
        /\ cmd # "create" /\ owner # "context" => <<owner, "create">> \in DOMAIN slots
    BY DEF Stands
  <1> HIDE DEF new, after, n
  <1>6. ASSUME NEW s \in DOMAIN after, s[1] # "context"
        PROVE  /\ <<s[1], "create">> \in DOMAIN after
               /\ after[<<s[1], "create">>].seq <= after[s].seq
    <2>1. CASE s = new /\ cmd = "create"
      <3>1. <<s[1], "create">> = new
        BY <1>4, <2>1
      <3> QED BY <1>1, <1>3, <2>1, <3>1
    <2>2. CASE s = new /\ cmd # "create"
      <3>1. <<owner, "create">> \in DOMAIN slots /\ <<owner, "create">> # new /\ s[1] = owner
        BY <1>4, <1>5, <1>6, <2>2
      <3>2. after[<<owner, "create">>] = slots[<<owner, "create">>]
        BY <1>1, <3>1
      <3>3. slots[<<owner, "create">>].seq <= n
        BY <1>2, <1>3, <3>1
      <3> QED BY <1>1, <2>2, <3>1, <3>2, <3>3
    <2>3. CASE s # new
      <3>1. s \in DOMAIN slots /\ after[s] = slots[s]
        BY <1>1, <2>3
      <3>2. <<s[1], "create">> \in DOMAIN slots /\ slots[<<s[1], "create">>].seq <= slots[s].seq
        BY <1>2, <1>6, <3>1
      <3>3. <<s[1], "create">> # new
        BY <1>4, <1>5, <3>2
      <3>4. after[<<s[1], "create">>] = slots[<<s[1], "create">>]
        BY <1>1, <3>2, <3>3
      <3> QED BY <1>1, <3>1, <3>2, <3>4
    <2> QED BY <2>1, <2>2, <2>3
  <1>7. \A s \in DOMAIN after : after[s].seq \in 1..n
    BY <1>1, <1>2, <1>3
  <1>8. DOMAIN after \subseteq (Rings \cup {"context"}) \X {"create", "set", "seek", "seqno"}
    BY <1>1, <1>2, <1>4
  <1>9. Slotted'
    BY <1>1, <1>6, <1>7, <1>8 DEF Slotted, Stands, after
  <1>10. seq' \in Nat /\ seq <= seq'
    BY <1>1, <1>3
  <1> QED BY <1>1, <1>9, <1>10, Untold

LEMMA RingGoneRemakes ==
  ASSUME IInv, Remade, NEW r, RingGone(r)
  PROVE  Remade'
  <1> DEFINE after == slots'
             n == seq + 1
  <1>1. /\ seq' = n /\ DOMAIN after = {t \in DOMAIN slots : t[1] # r}
        /\ \A s \in DOMAIN after : after[s] = slots[s]
        /\ minted' = minted /\ buffers' = buffers /\ alive' = alive /\ held' = held
        /\ twin' = twin /\ tape' = tape /\ runs' = runs /\ void' = void
    BY DEF RingGone, Gone, worldVars, tapeVars
  <1>2. /\ seq \in Nat /\ \A s \in DOMAIN slots : slots[s].seq \in 1..seq
        /\ DOMAIN slots \subseteq (Rings \cup {"context"}) \X {"create", "set", "seek", "seqno"}
        /\ \A s \in DOMAIN slots : s[1] # "context" =>
             /\ <<s[1], "create">> \in DOMAIN slots
             /\ slots[<<s[1], "create">>].seq <= slots[s].seq
    BY Known DEF Slotted, Stands
  <1>3. n \in Nat /\ seq <= n /\ 1..seq \subseteq 1..n
    BY <1>2
  <1> HIDE DEF after, n
  <1>4. ASSUME NEW s \in DOMAIN after, s[1] # "context"
        PROVE  /\ <<s[1], "create">> \in DOMAIN after
               /\ after[<<s[1], "create">>].seq <= after[s].seq
    <2>1. s \in DOMAIN slots /\ s[1] # r
      BY <1>1
    <2>2. <<s[1], "create">> \in DOMAIN slots /\ slots[<<s[1], "create">>].seq <= slots[s].seq
      BY <1>2, <1>4, <2>1
    <2>3. <<s[1], "create">>[1] = s[1]
      OBVIOUS
    <2>4. <<s[1], "create">> \in DOMAIN after
      BY <1>1, <2>1, <2>2, <2>3
    <2> QED BY <1>1, <2>2, <2>4
  <1>5. \A s \in DOMAIN after : after[s].seq \in 1..n
    BY <1>1, <1>2, <1>3
  <1>6. DOMAIN after \subseteq (Rings \cup {"context"}) \X {"create", "set", "seek", "seqno"}
    BY <1>1, <1>2
  <1>7. Slotted'
    BY <1>1, <1>4, <1>5, <1>6 DEF Slotted, Stands, after
  <1>8. seq' \in Nat /\ seq <= seq'
    BY <1>1, <1>3
  <1> QED BY <1>1, <1>7, <1>8, Untold

LEMMA StepRemakes ==
  ASSUME IInv, Remade, [Next]_vars
  PROVE  Remade'
  <1>1. seq \in Nat /\ left \in [Kinds -> Nat]
    BY Known DEF IInv
  <1>2. ASSUME NEW n \in 1..left["batch"], NEW refs \in Some(Objects, MaxRefs),
               NEW recorders \in BOOLEAN, Create(n, refs, recorders)
        PROVE  Remade'
    <2>1. left["batch"] \in Nat
      BY <1>1 DEF Kinds
    <2>2. n \in Nat /\ refs \in SUBSET Objects
      BY <2>1 DEF Some
    <2> QED BY <1>2, <2>2, CreateRemakes
  <1>3. ASSUME NEW into \in Some(Objects, left["batch"]), NEW refs \in Some(Objects, MaxRefs),
               Mutate(into, refs)
        PROVE  Remade'
    <2>1. into \in SUBSET Objects /\ refs \in SUBSET Objects
      BY DEF Some
    <2> QED BY <1>3, <2>1, MutateRemakes
  <1>4. ASSUME NEW K \in (SUBSET Recorders) \cup (SUBSET Objects), Free(K)
        PROVE  Remade'
    <2>1. K \in SUBSET alive
      BY DEF Recorders, Objects
    <2> QED BY <1>4, <2>1, FreeRemakes
  <1>5. ASSUME seq' = seq, slots' = slots, twin' = twin, minted' = minted, buffers' = buffers,
               alive' = alive, held' \subseteq held \cup Objects,
               tape' = tape, runs' = runs, void' = void
        PROVE  Remade'
    <2>1. seq' \in Nat /\ seq <= seq'
      BY <1>1, <1>5
    <2>2. Slotted'
      BY <1>5, <2>1, SlotsHeld
    <2> QED BY <1>5, <2>1, <2>2, Untold DEF Objects
  <1>6. ASSUME NEW k \in Objects, Export(k)
        PROVE  Remade'
    BY <1>5, <1>6 DEF Export, tapeVars
  <1>7. ASSUME NEW k \in held, LetGo(k)
        PROVE  Remade'
    BY <1>5, <1>7 DEF LetGo, tapeVars
  <1>8. ASSUME NEW b \in Recorders, NEW refs \in Some(Objects, MaxRefs),
               Begin(b, refs) \/ Add(b, {}, refs)
        PROVE  Remade'
    <2>1. refs \in SUBSET Objects /\ {} \in SUBSET (Recorders \ {b})
      BY DEF Some
    <2> QED BY <1>8, <2>1, BeginRemakes, AddRemakes
  <1>9. ASSUME NEW b \in Recorders, NEW E \in Some(Recorders \ {b}, MaxRefs) \ {{}}, Add(b, E, {})
        PROVE  Remade'
    <2>1. E \in SUBSET (Recorders \ {b}) /\ {} \in SUBSET Objects
      BY DEF Some
    <2> QED BY <1>9, <2>1, AddRemakes
  <1>10. ASSUME NEW B \in SUBSET Recorders, PoolReset(B)
         PROVE  Remade'
    BY <1>10, PoolResetRemakes
  <1>11. ASSUME NEW r \in Rings, RingCreated(r) \/ RingSeqno(r) \/ RingGone(r)
         PROVE  Remade'
    BY <1>11, LatestRemakes, RingGoneRemakes DEF RingCreated, RingSeqno
  <1>12. ASSUME NEW o \in Rings \cup {"context"}, SetReply(o) \/ SeekReply(o)
         PROVE  Remade'
    <2>1. SeekReply(o) => Stands(o)
      <3>1. \A s \in DOMAIN slots : s[1] # "context" => Stands(s[1])
        BY Known DEF Slotted
      <3>2. <<o, "set">>[1] = o
        OBVIOUS
      <3> QED BY <3>1, <3>2 DEF SeekReply, Stands
    <2> QED BY <1>12, <2>1, LatestRemakes DEF SetReply, SeekReply
  <1>13. CASE Compact
    BY <1>5, <1>13 DEF Compact, worldVars, tapeVars
  <1>14. CASE UNCHANGED vars
    BY <1>5, <1>14 DEF vars, worldVars, tapeVars
  <1>15. CASE Next
    <2>1. \/ \E n \in 1..left["batch"], refs \in Some(Objects, MaxRefs), recorders \in BOOLEAN :
               Create(n, refs, recorders)
          \/ \E into \in Some(Objects, left["batch"]), refs \in Some(Objects, MaxRefs) :
               Mutate(into, refs)
          \/ \E K \in SUBSET alive : Destroy(K)
          \/ \E K \in (SUBSET Recorders) \cup (SUBSET Objects) : Free(K)
          \/ \E k \in Objects : Export(k)
          \/ \E k \in held : LetGo(k)
          \/ \E b \in Recorders, refs \in Some(Objects, MaxRefs) :
               Begin(b, refs) \/ Add(b, {}, refs)
          \/ \E b \in Recorders : \E E \in Some(Recorders \ {b}, MaxRefs) \ {{}} : Add(b, E, {})
          \/ \E B \in SUBSET Recorders : PoolReset(B)
          \/ \E r \in Rings : RingCreated(r) \/ RingSeqno(r) \/ RingGone(r)
          \/ \E o \in Rings \cup {"context"} : SetReply(o) \/ SeekReply(o)
          \/ Compact
      <3>1. \A A \in SUBSET Creates(twin) :
              UNION {c.keys \cap Recorders : c \in A} \in SUBSET Recorders
        OBVIOUS
      <3> QED BY <1>15, <3>1, Zenon DEF Next
    <2> QED BY <1>2, <1>3, <1>4, <1>6, <1>7, <1>8, <1>9, <1>10, <1>11, <1>12, <1>13, <2>1,
               DestroyRemakes, ZenonT(60)
  <1> QED BY <1>14, <1>15

LEMMA StartsRemade ==
  ASSUME Init
  PROVE  Remade
  <1>1. /\ seq = 0 /\ minted = 0 /\ buffers = {} /\ alive = {} /\ held = {} /\ slots = <<>>
        /\ tape = <<>> /\ runs = <<>> /\ void = {}
        /\ twin = [entries |-> {}, tapes |-> <<>>]
    BY DEF Init
  <1>2. Live = {} /\ twin.entries = {} /\ DOMAIN twin.tapes = {} /\ Creates(twin) = {}
    BY <1>1 DEF Live, Creates
  <1>3. Storied(twin, seq, alive, Live)
    BY <1>1, <1>2 DEF Storied
  <1>4. Taped(twin, seq, buffers, tape, runs)
    BY <1>1, <1>2 DEF Taped
  <1>5. Judged(twin, Live, alive, void)
    BY <1>1, <1>2 DEF Judged, Closed
  <1>6. Slotted /\ Placed
    BY <1>1 DEF Slotted, Placed
  <1> QED BY <1>3, <1>4, <1>5, <1>6 DEF Remade

\* What the two say of everything's type.
LEMMA Typed == IInv /\ Remade => TypeOK
  <1> SUFFICES ASSUME IInv, Remade PROVE TypeOK
    OBVIOUS
  <1>1. /\ seq \in Nat /\ minted \in Nat /\ void \subseteq buffers
        /\ buffers \subseteq Keys /\ alive \subseteq Keys /\ held \subseteq Keys \ buffers
        /\ DOMAIN tape = buffers /\ DOMAIN runs = buffers
        /\ DOMAIN slots \subseteq (Rings \cup {"context"}) \X {"create", "set", "seek", "seqno"}
    BY Known DEF Remade, Placed, Taped, Judged, Slotted
  <1>2. ASSUME NEW i \in Items(twin) PROVE i.seq \in 1..seq /\ i.keys \cup i.refs \subseteq Keys
    <2>1. i.seq \in 1..seq /\ Named(twin, i)
      BY Known DEF Items, Storied, Taped, TapeOf
    <2>2. \A c \in Creates(twin) : c.keys \subseteq Keys
      BY Known DEF Creates, Keys
    <2>3. i.about = "created" => i.keys \subseteq Keys
      <3>1. i.about = "created" => i \in twin.entries
        BY Known DEF Items, Taped, TapeOf
      <3> QED BY <3>1, Known DEF Keys
    <2>4. i.about # "created" => i.keys \subseteq Keys
      BY <2>1, <2>2 DEF Named
    <2>5. i.refs \subseteq Keys
      BY <2>1, <2>2 DEF Named
    <2> QED BY <2>1, <2>3, <2>4, <2>5
  <1>3. Part(journal, twin, Live) /\ DOMAIN twin.tapes \subseteq buffers
    BY Known DEF IInv
  <1>4. DOMAIN journal.tapes \subseteq buffers /\ Items(journal) \subseteq Items(twin)
    BY <1>3 DEF Part, Items
  <1> QED BY <1>1, <1>2, <1>3, <1>4 DEF TypeOK

\* A restore remakes what the guest holds, whatever it did and whenever the journal was
\* compacted: no command of it names what is not there, at its end there is all that lives
\* and nothing that was freed, and each command buffer holds exactly what Vulkan says it
\* holds (journal.rs keep_set).
THEOREM RestoreFaithfulAlways == ASSUME Afforded PROVE Spec => []RestoreFaithful
  <1>1. Init => IInv /\ Remade
    BY Starts, StartsRemade
  <1>2. IInv /\ Remade /\ [Next]_vars => IInv' /\ Remade'
    BY StepKeeps, StepRemakes
  <1>3. IInv /\ Remade => RestoreFaithful
    BY Faithful
  <1> QED BY <1>1, <1>2, <1>3, PTL DEF Spec
=============================================================================
