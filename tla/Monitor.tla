------------------------------- MODULE Monitor -------------------------------
(***************************************************************************)
(* src/venus/monitor.rs: one context's ring monitor, the thread that sets  *)
(* the ALIVE bit of every watched ring at least once a period, where the   *)
(* period is the shortest any of them asked for.                           *)
(*                                                                         *)
(* Code takes no time here: the clock moves only while the thread sleeps   *)
(* and nobody is inside watch, so what is late is late by construction.    *)
(***************************************************************************)
EXTENDS Integers

CONSTANTS Rings,           \* the rings that ask to be monitored
          Wants,           \* the period each asks for
          OversampleAbove, \* OVERSAMPLE_ABOVE
          MaxSpurious      \* bound on the condvar's wakes for no reason

VARIABLES
  period,    \* Shared::period
  registry,  \* Shared::rings: the rings watched, dead ones not yet dropped included
  alive,     \* the rings whose status word is still there
  running,   \* Shared::running
  since,     \* for each ring, the time since its last stamp, or its watch
  thread,    \* where the thread is
  seen,      \* the period its pass read
  left,      \* what is left of its sleep
  notified,  \* it was woken
  spurious,  \* how often for no reason
  caller,    \* "idle", "watch" a ring, "shorten" for it, "joining", "joined"
  ring,      \* the ring a caller is at
  missed     \* a shorten found the thread between the read and the sleep

vars == <<period, registry, alive, running, since, thread, seen, left, notified, spurious,
          caller, ring, missed>>

Cadence(p) == IF p > OversampleAbove THEN p \div 3 ELSE p

\* start, from the dispatch that creates the first ring to ask, which then
\* watches it.
Init ==
  /\ ring \in Rings /\ caller = "watch"
  /\ period = Wants[ring] /\ registry = {} /\ alive = Rings /\ running = TRUE
  /\ since = [r \in Rings |-> 0]
  /\ thread = "top" /\ seen = Wants[ring] /\ left = 0
  /\ notified = FALSE /\ spurious = 0 /\ missed = FALSE

\* Slips, each the mutant of a definition below: a shorten, and a stop, that
\* leave the thread asleep.
SleepOn == notified

-----------------------------------------------------------------------------
(* watch, shorten and drop                                                 *)

\* A notify reaches the thread only if it sleeps.
Notify == notified \/ thread = "wait"

\* Another ring of the context asks.
Ask(r) ==
  /\ caller = "idle" /\ r \in alive \ registry
  /\ caller' = "watch" /\ ring' = r
  /\ UNCHANGED <<period, registry, alive, running, since, thread, seen, left, notified, spurious,
                 missed>>

Watch ==
  /\ caller = "watch"
  /\ registry' = registry \cup {ring}
  /\ since' = [since EXCEPT ![ring] = 0]
  /\ caller' = "shorten"
  /\ UNCHANGED <<period, alive, running, thread, seen, left, notified, spurious, ring, missed>>

ShortenWakes == Notify

Shorten ==
  /\ caller = "shorten"
  /\ IF Wants[ring] < period
     THEN /\ period' = Wants[ring]
          /\ notified' = ShortenWakes
          /\ missed' = (missed \/ thread \in {"stamp", "sleep"})
     ELSE UNCHANGED <<period, notified, missed>>
  /\ caller' = "idle"
  /\ UNCHANGED <<registry, alive, running, since, thread, seen, left, spurious, ring>>

\* A ring is destroyed, and its status word with it.
Destroy(r) ==
  /\ caller = "idle" /\ r \in registry /\ r \in alive
  /\ alive' = alive \ {r}
  /\ UNCHANGED <<period, registry, running, since, thread, seen, left, notified, spurious,
                 caller, ring, missed>>

StopWakes == Notify

Drop ==
  /\ caller = "idle"
  /\ running' = FALSE /\ notified' = StopWakes
  /\ caller' = "joining"
  /\ UNCHANGED <<period, registry, alive, since, thread, seen, left, spurious, ring, missed>>

Join ==
  /\ caller = "joining" /\ thread = "gone"
  /\ caller' = "joined"
  /\ UNCHANGED <<period, registry, alive, running, since, thread, seen, left, notified, spurious,
                 ring, missed>>

-----------------------------------------------------------------------------
(* run                                                                     *)

Top ==
  /\ thread = "top"
  /\ thread' = IF running THEN "stamp" ELSE "gone"
  /\ seen' = IF running THEN period ELSE seen
  /\ missed' = FALSE
  /\ UNCHANGED <<period, registry, alive, running, since, left, notified, spurious, caller, ring>>

\* Every live ring is stamped and the dead ones dropped.
Stamp ==
  /\ thread = "stamp"
  /\ registry' = registry \cap alive
  /\ since' = [r \in Rings |-> IF r \in registry \cap alive THEN 0 ELSE since[r]]
  /\ thread' = "sleep"
  /\ UNCHANGED <<period, alive, running, seen, left, notified, spurious, caller, ring, missed>>

\* The period's lock is taken and let go of by the wait.
Sleep ==
  /\ thread = "sleep"
  /\ thread' = IF running THEN "wait" ELSE "top"
  /\ left' = IF running THEN Cadence(seen) ELSE left
  /\ notified' = FALSE
  /\ UNCHANGED <<period, registry, alive, running, since, seen, spurious, caller, ring, missed>>

\* Only a timeout or a shorter period ends the sleep; any other wake starts it
\* again, all of it.
Wake ==
  /\ thread = "wait" /\ (left = 0 \/ notified)
  /\ thread' = IF left = 0 \/ period < seen THEN "top" ELSE "sleep"
  /\ notified' = FALSE
  /\ UNCHANGED <<period, registry, alive, running, since, seen, left, spurious, caller, ring,
                 missed>>

SpuriousWake ==
  /\ thread = "wait" /\ spurious < MaxSpurious
  /\ notified' = TRUE /\ spurious' = spurious + 1
  /\ UNCHANGED <<period, registry, alive, running, since, thread, seen, left, caller, ring, missed>>

Thread == Top \/ Stamp \/ Sleep \/ Wake

\* Time passes. A ring's time is told up to one past what it asked for.
Older(r) == IF since[r] > Wants[r] THEN since[r] ELSE since[r] + 1

Tick ==
  /\ thread = "wait" /\ left > 0 /\ ~notified
  /\ caller \notin {"watch", "shorten"}
  /\ left' = left - 1
  /\ since' = [r \in Rings |-> IF r \in registry THEN Older(r) ELSE since[r]]
  /\ UNCHANGED <<period, registry, alive, running, thread, seen, notified, spurious, caller, ring,
                 missed>>

Next == \/ \E r \in Rings : Ask(r) \/ Destroy(r)
        \/ Watch \/ Shorten \/ Drop \/ Join
        \/ Thread \/ SpuriousWake \/ Tick

\* The thread's steps happen and a join whose thread has ended returns. Time
\* need not pass: a drop that would wait for it does not return.
Fairness == WF_vars(Thread) /\ WF_vars(Join)

Spec == Init /\ [][Next]_vars /\ Fairness

-----------------------------------------------------------------------------
(* Properties                                                              *)

TypeOK ==
  /\ period \in Nat /\ seen \in Nat /\ left \in Nat
  /\ registry \subseteq Rings /\ alive \subseteq Rings
  /\ running \in BOOLEAN /\ notified \in BOOLEAN /\ missed \in BOOLEAN
  /\ since \in [Rings -> Nat]
  /\ thread \in {"top", "stamp", "sleep", "wait", "gone"}
  /\ spurious \in 0..MaxSpurious
  /\ caller \in {"idle", "watch", "shorten", "joining", "joined"}
  /\ ring \in Rings

\* A ring whose watch has returned has not been stamped for longer than it asked.
Overdue(r) == r \in registry \cap alive /\ since[r] > Wants[r]

\* The thread oversleeps a ring's period only if that ring's shorten landed
\* between the pass's read of the period and its sleep, or the condvar woke for
\* no reason and the sleep began again (monitor.rs run).
LateOnlyIfMissed ==
  thread \in {"sleep", "wait"} => \A r \in Rings : Overdue(r) => missed \/ spurious > 0

\* The drop returns, with no time passing.
DropReturns == caller = "joining" ~> caller = "joined"

\* "Without this the thread is asleep until the end of a wait it began under the
\* old, longer contract -- the first stamp under the new one would be late by
\* construction" (Shared::shorten, of its notify).
ShortenedInTime == \A r \in Rings : thread = "wait" => ~Overdue(r)

-----------------------------------------------------------------------------
(* Why LateOnlyIfMissed holds: an invariant that is inductive.             *)

\* Every ring asks for a period: one of zero is refused (venus/context.rs monitor_period).
Asked == Wants \in [Rings -> Nat \ {0}]

\* The period is what the most demanding of the rings asked for.
PeriodKept ==
  \A r \in registry : \/ caller = "shorten" /\ ring = r
                      \/ period <= Wants[r]

\* A shorten the thread has not heard of found it between its read and its sleep.
Heard ==
  /\ seen >= period
  /\ thread \in {"stamp", "sleep", "wait"} /\ seen > period => missed \/ notified
  /\ notified => thread = "wait"
  /\ notified /\ running /\ spurious = 0 => seen > period

\* A stop finds the thread awake or wakes it: the drop's join never waits out a sleep.
StopHeard ==
  /\ caller \in {"joining", "joined"} <=> ~running
  /\ ~running /\ thread = "wait" => notified

\* In a sleep that nobody cut short, what is left of it and what a ring has waited fit
\* the cadence it began with, and a ring that asked for less has not waited yet.
Fits ==
  /\ caller = "shorten" => since[ring] = 0
  /\ thread \in {"sleep", "wait"} /\ spurious = 0 =>
       /\ \A r \in registry : since[r] + (IF thread = "wait" THEN left ELSE 0) <= Cadence(seen)
       /\ thread = "sleep" /\ running => \A r \in registry : since[r] = 0
       /\ ~missed => \A r \in registry : Wants[r] >= seen \/ since[r] = 0
  /\ thread = "wait" => left <= Cadence(seen)

Types ==
  /\ period \in Nat /\ seen \in Nat /\ left \in Nat /\ spurious \in Nat
  /\ registry \in SUBSET Rings /\ ring \in Rings
  /\ since \in [Rings -> Nat]
  /\ running \in BOOLEAN /\ notified \in BOOLEAN /\ missed \in BOOLEAN

IInv == Types /\ PeriodKept /\ Heard /\ StopHeard /\ Fits
=============================================================================
