------------------------------ MODULE FutexBarrier ------------------------------
(***************************************************************************)
(* threading/futex_barrier.{hpp,cpp}: the completion barrier of a spread.  *)
(* It lives on the stack of the thread that spreads, which constructs one  *)
(* after another at the same address: an arrive() that is late with its    *)
(* wake_one() touches whatever barrier is there by then.                   *)
(*                                                                         *)
(* counter  the futex word at that address                                 *)
(* spin     spin_wait_ of the barrier that is there                        *)
(* parts    parts of the current spread that no worker has taken yet       *)
(* owner    what the spreading thread does; seen: non_arrived_count        *)
(* pc       what the workers do                                            *)
(* lives    how many barriers there have been                              *)
(***************************************************************************)
EXTENDS Integers, FiniteSets, Futex, Counting

CONSTANTS Workers,    \* the threads that run parts
          MaxParts,   \* bound: the parts of a spread
          MaxLives,   \* bound: the spreads that are made
          HCRange     \* number of values of hardware_concurrency_t

\* What a spread can expect at once fits the type that actives() returns.
ASSUME BarrierAssumption ==
  /\ IsFiniteSet(Workers)
  /\ MaxParts \in Nat /\ MaxLives \in Nat /\ HCRange \in Nat
  /\ MaxParts + Cardinality(Workers) < HCRange

VARIABLES counter, spin, parts, owner, seen, pc, lives

vars == <<counter, spin, parts, owner, seen, pc, lives>>

Owner(l)     == owner' = l
Goto(w, l)   == pc' = [pc EXCEPT ![w] = l]

Init ==
  /\ counter = 0 /\ spin = FALSE /\ parts = 0
  /\ owner = "out" /\ seen = 0
  /\ pc = [w \in Workers |-> "idle"]
  /\ lives = 0
--------------------------------------------------------------------------------
(* The spreading thread *)

\* The constructor, and use_spin_wait.
Construct ==
  /\ owner = "out" /\ lives < MaxLives
  /\ lives' = lives + 1
  /\ counter' = 0
  /\ spin' \in BOOLEAN
  /\ Owner("dispatch")
  /\ UNCHANGED <<parts, seen, pc>>

\* initialize( n ), then n parts are handed out.
Initialize ==
  /\ owner = "dispatch" /\ counter = 0 /\ parts = 0
  /\ \E n \in 0..MaxParts : counter' = n /\ parts' = n
  /\ Owner("own")
  /\ UNCHANGED <<spin, seen, pc, lives>>

\* add_expected_arrival, part by part, while others already run (and arrive).
Expect ==
  /\ owner = "dispatch" /\ spin
  /\ parts < MaxParts
  /\ counter' = counter + 1 /\ parts' = parts + 1
  /\ UNCHANGED <<spin, owner, seen, pc, lives>>

Dispatched ==
  /\ owner = "dispatch" /\ spin
  /\ Owner("own")
  /\ UNCHANGED <<counter, spin, parts, seen, pc, lives>>

\* Mutant: the own part arrives without having been expected.
OwnPartUnexpected ==
  /\ owner = "own"
  /\ Owner("own_arrive")
  /\ UNCHANGED <<counter, spin, parts, seen, pc, lives>>

\* The owner's own part is expected like any other ...
OwnPart ==
  /\ owner = "own"
  /\ counter' = counter + 1
  /\ Owner("own_arrive")
  /\ UNCHANGED <<spin, parts, seen, pc, lives>>

NoOwnPart ==
  /\ owner = "own"
  /\ Owner("join")
  /\ UNCHANGED <<counter, spin, parts, seen, pc, lives>>

\* ... and arrives; a wake_one() finds nobody, as the one who waits is here.
OwnArrive ==
  /\ owner = "own_arrive"
  /\ counter' = counter - 1
  /\ Owner("join")
  /\ UNCHANGED <<spin, parts, seen, pc, lives>>

\* spin_wait: everyone_arrived() looks at the counter through actives().
SpinWait ==
  /\ owner = "join" /\ spin /\ counter % HCRange = 0
  /\ Owner("return")
  /\ UNCHANGED <<counter, spin, parts, seen, pc, lives>>

\* wait(): load the counter and leave if it is zero ...
WaitLoad ==
  /\ owner = "join" /\ ~spin
  /\ seen' = counter
  /\ Owner(IF counter = 0 THEN "return" ELSE "park")
  /\ UNCHANGED <<counter, spin, parts, pc, lives>>

\* Mutant: the futex word is not compared.
WaitParkBlindly ==
  /\ owner = "park"
  /\ Owner("parked")
  /\ UNCHANGED <<counter, spin, parts, seen, pc, lives>>

\* ... or park against the value that was loaded.
WaitPark ==
  /\ owner = "park"
  /\ Owner(IF ParksAgainst(counter, seen) THEN "parked" ELSE "join")
  /\ UNCHANGED <<counter, spin, parts, seen, pc, lives>>

SpuriousWake ==
  /\ owner = "parked"
  /\ Owner("join")
  /\ UNCHANGED <<counter, spin, parts, seen, pc, lives>>

\* The barrier goes out of scope.
Return ==
  /\ owner = "return"
  /\ Owner("out")
  /\ UNCHANGED <<counter, spin, parts, seen, pc, lives>>
--------------------------------------------------------------------------------
(* The workers *)

Take(w) ==
  /\ pc[w] = "idle" /\ parts > 0
  /\ parts' = parts - 1
  /\ Goto(w, "run")
  /\ UNCHANGED <<counter, spin, owner, seen, lives>>

\* Mutant: only an arrival that leaves others behind wakes.
ArriveWakesWrongOne(w) ==
  /\ pc[w] = "run"
  /\ counter' = counter - 1
  /\ Goto(w, IF ~spin /\ counter > 1 THEN "wake" ELSE "idle")
  /\ UNCHANGED <<spin, parts, owner, seen, lives>>

\* arrive(): a decrement, after which the last one has somebody to wake.
Arrive(w) ==
  /\ pc[w] = "run"
  /\ counter' = counter - 1
  /\ Goto(w, IF ~spin /\ counter = 1 THEN "wake" ELSE "idle")
  /\ UNCHANGED <<spin, parts, owner, seen, lives>>

\* Mutant: who is woken does not look at the counter again.
WakeOneForGood(w) ==
  /\ pc[w] = "wake"
  /\ Owner(IF owner = "parked" THEN "return" ELSE owner)
  /\ Goto(w, "idle")
  /\ UNCHANGED <<counter, spin, parts, seen, lives>>

\* wake_one() on the address of the barrier, which may be another one by now.
WakeOne(w) ==
  /\ pc[w] = "wake"
  /\ Owner(IF owner = "parked" THEN "join" ELSE owner)
  /\ Goto(w, "idle")
  /\ UNCHANGED <<counter, spin, parts, seen, lives>>
--------------------------------------------------------------------------------
OwnerStep == \/ Initialize \/ Dispatched \/ OwnPart \/ NoOwnPart \/ OwnArrive
             \/ SpinWait \/ WaitLoad \/ WaitPark \/ Return

WorkerStep(w) == Take(w) \/ Arrive(w) \/ WakeOne(w)

Next == \/ OwnerStep \/ Construct \/ Expect \/ SpuriousWake
        \/ \E w \in Workers : WorkerStep(w)

SafeSpec == Init /\ [][Next]_vars

\* Everybody gets to run; spreads are made, and futexes wake by themselves, or not.
Spec == SafeSpec /\ WF_vars(OwnerStep) /\ \A w \in Workers : WF_vars(WorkerStep(w))
--------------------------------------------------------------------------------
Busy == Where(pc, {"run"})

WorkerLocations == {"idle", "run", "wake"}

\* The types and bounds; the counter never passes below zero.
TypeOK ==
  /\ counter \in Nat
  /\ spin \in BOOLEAN /\ parts \in 0..MaxParts
  /\ owner \in {"out", "dispatch", "own", "own_arrive", "join", "park", "parked", "return"}
  /\ seen \in Nat
  /\ pc \in [Workers -> WorkerLocations]
  /\ lives \in 0..MaxLives

\* The arrivals still to come, by those who will make them.
ToCome == parts + Cardinality(Busy) + (IF owner = "own_arrive" THEN 1 ELSE 0)

\* The counter is the number of arrivals still to come, of parts that wait in a queue
\* and of parts that run, whether it was initialized or counted up on the way.
CountExact == counter = ToCome

\* The owner leaves, and the barrier with it, when all have arrived: no part of the
\* spread is queued or running, whoever woke the owner, the late wake_one() of an
\* earlier barrier ("this is however harmless") included.
LeavesLast == owner \in {"out", "return"} => parts = 0 /\ Busy = {}

\* The owner sleeps on a complete barrier only while its wake-up is on the way.
NoMissedWakeup ==
  owner = "parked" /\ counter = 0 => \E w \in Workers : pc[w] = "wake"

\* Each step is one of Barrier or none, so that the barrier of barrier.hpp is implemented:
\* nobody arrives who is not expected, and the join returns when all have arrived.
Phase == IF owner = "out" THEN "none"
         ELSE IF owner \in {"dispatch", "own", "own_arrive"} THEN "open" ELSE "joining"

Abstract == INSTANCE Barrier WITH pending <- ToCome, phase <- Phase
================================================================================
