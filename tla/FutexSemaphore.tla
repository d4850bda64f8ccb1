----------------------------- MODULE FutexSemaphore -----------------------------
(***************************************************************************)
(* threading/futex_semaphore.cpp: the exact-sleeper-accounting semaphore.  *)
(*                                                                         *)
(* value    token count, negative: that many waiters in debt               *)
(* credits  wake credits, the futex word that sleepers park on             *)
(* sleepers registered sleepers, as the signal side can see it             *)
(* buffered threads whose registration (an acquire RMW, not seq_cst) is    *)
(*          not yet visible to the signal side; only the seq_cst fence     *)
(*          forces it out before the credits load that follows             *)
(* pc       where each thread is inside signal()/wait(); "parked" is the   *)
(*          futex queue of credits                                         *)
(* toWake   the local to_wake of each thread inside signal()               *)
(*                                                                         *)
(* Each atomic access of the code is a step of its own.                    *)
(***************************************************************************)
EXTENDS Integers, FiniteSets, Futex, Counting

CONSTANTS Threads,    \* the threads that use the semaphore
          Counts,     \* arguments of signal()
          HCRange,    \* number of values of hardware_concurrency_t (2^8 or 2^16)
          MaxTokens   \* bound: no signal() starts that would push value beyond it

ASSUME ThreadsAssumption == IsFiniteSet(Threads)
ASSUME CountsAssumption  == Counts \subseteq Nat
ASSUME HCRangeAssumption == HCRange \in Nat /\ Cardinality(Threads) < HCRange
ASSUME BoundAssumption   == MaxTokens \in Int

VARIABLES value, credits, sleepers, buffered, pc, toWake

vars == <<value, credits, sleepers, buffered, pc, toWake>>

Locations == {"idle", "spin", "sub", "register", "fence", "load", "park",
              "parked", "deregister", "deposit", "gate", "wake"}

At(L) == Where(pc, L)

Goto(t, l) == pc' = [pc EXCEPT ![t] = l]

Min2(a, b) == IF a <= b THEN a ELSE b

Init ==
  /\ value = 0
  /\ credits = 0
  /\ sleepers = 0
  /\ buffered = {}
  /\ pc = [t \in Threads |-> "idle"]
  /\ toWake = [t \in Threads |-> 0]
--------------------------------------------------------------------------------
(* signal( count ) *)

\* The fetch_add on value_, with both early returns: count == 0 touches nothing,
\* and a non-negative previous value means nobody is in debt.  Otherwise to_wake
\* is min( debt, count ), the debt cast to hardware_concurrency_t.
SignalAdd(t) ==
  \E n \in Counts :
    /\ pc[t] = "idle"
    /\ value + n <= MaxTokens
    /\ n # 0
    /\ value' = value + n
    /\ IF value >= 0
         THEN UNCHANGED <<pc, toWake>>
         ELSE /\ toWake' = [toWake EXCEPT ![t] = Min2((-value) % HCRange, n)]
              /\ Goto(t, "deposit")
    /\ UNCHANGED <<credits, sleepers, buffered>>

\* credits_.fetch_add( to_wake, seq_cst )
SignalDeposit(t) ==
  /\ pc[t] = "deposit"
  /\ credits' = credits + toWake[t]
  /\ Goto(t, "gate")
  /\ UNCHANGED <<value, sleepers, buffered, toWake>>

\* if ( sleepers_.load( seq_cst ) )
SignalGate(t) ==
  /\ pc[t] = "gate"
  /\ Goto(t, IF sleepers # 0 THEN "wake" ELSE "idle")
  /\ UNCHANGED <<value, credits, sleepers, buffered, toWake>>

\* Mutant: wakes one thread whatever was deposited.
SignalWakeOne(t) ==
  /\ pc[t] = "wake"
  /\ \E W \in WokenBy(At({"parked"}), 1) :
       pc' = [u \in Threads |-> IF u = t THEN "idle"
                                ELSE IF u \in W THEN "load" ELSE pc[u]]
  /\ UNCHANGED <<value, credits, sleepers, buffered, toWake>>

\* credits_.wake( to_wake )
SignalWake(t) ==
  /\ pc[t] = "wake"
  /\ \E W \in WokenBy(At({"parked"}), toWake[t]) :
       pc' = [u \in Threads |-> IF u = t THEN "idle"
                                ELSE IF u \in W THEN "load" ELSE pc[u]]
  /\ UNCHANGED <<value, credits, sleepers, buffered, toWake>>
--------------------------------------------------------------------------------
(* wait( spin_count ) and wait() *)

\* wait( spin_count ) starts with the spin phase, wait() with the fetch_sub.
WaitBegin(t) ==
  /\ pc[t] = "idle"
  /\ \E l \in {"spin", "sub"} : Goto(t, l)
  /\ UNCHANGED <<value, credits, sleepers, buffered, toWake>>

\* try_decrement() succeeded: the spinner saw value > 0 and its CAS held.
SpinTake(t) ==
  /\ pc[t] = "spin"
  /\ value > 0
  /\ value' = value - 1
  /\ Goto(t, "idle")
  /\ UNCHANGED <<credits, sleepers, buffered, toWake>>

\* spin_try reached spin_count.  value may be positive: the change can happen on
\* the last try.
SpinGiveUp(t) ==
  /\ pc[t] = "spin"
  /\ Goto(t, "sub")
  /\ UNCHANGED <<value, credits, sleepers, buffered, toWake>>

\* Mutant: old_value >= 0 taken for the fast path.
WaitSubOffByOne(t) ==
  /\ pc[t] = "sub"
  /\ value' = value - 1
  /\ Goto(t, IF value >= 0 THEN "idle" ELSE "register")
  /\ UNCHANGED <<credits, sleepers, buffered, toWake>>

\* value_.fetch_sub( 1 ): a positive previous value is the fast path, anything
\* else puts the thread in debt.
WaitSub(t) ==
  /\ pc[t] = "sub"
  /\ value' = value - 1
  /\ Goto(t, IF value > 0 THEN "idle" ELSE "register")
  /\ UNCHANGED <<credits, sleepers, buffered, toWake>>

\* detail::overflow_checked_inc( sleepers_ ): issued, not yet visible.
WaitRegister(t) ==
  /\ pc[t] = "register"
  /\ buffered' = buffered \cup {t}
  /\ Goto(t, "fence")
  /\ UNCHANGED <<value, credits, sleepers, toWake>>

\* The registration becomes visible, at any time after it was issued.
Flush(t) ==
  /\ t \in buffered
  /\ buffered' = buffered \ {t}
  /\ sleepers' = sleepers + 1
  /\ UNCHANGED <<value, credits, pc, toWake>>

\* Mutant: the fence is missing, the credits load may overtake the registration.
WaitFenceDropped(t) ==
  /\ pc[t] = "fence"
  /\ Goto(t, "load")
  /\ UNCHANGED <<value, credits, sleepers, buffered, toWake>>

\* std::atomic_thread_fence( seq_cst ): what was issued before it is visible
\* before anything after it is read.
WaitFence(t) ==
  /\ pc[t] = "fence"
  /\ t \notin buffered
  /\ Goto(t, "load")
  /\ UNCHANGED <<value, credits, sleepers, buffered, toWake>>

\* Mutant: a plain fetch_sub instead of the CAS loop guarded by credits > 0.
WaitTakeUnchecked(t) ==
  /\ pc[t] = "load"
  /\ credits' = credits - 1
  /\ Goto(t, "deregister")
  /\ UNCHANGED <<value, sleepers, buffered, toWake>>

\* The credits_ load and the CAS that consumes a credit.
WaitTakeCredit(t) ==
  /\ pc[t] = "load"
  /\ credits > 0
  /\ credits' = credits - 1
  /\ Goto(t, "deregister")
  /\ UNCHANGED <<value, sleepers, buffered, toWake>>

\* The load (or a failed CAS's reload) saw no credit.
WaitSeeNone(t) ==
  /\ pc[t] = "load"
  /\ credits = 0
  /\ Goto(t, "park")
  /\ UNCHANGED <<value, credits, sleepers, buffered, toWake>>

\* credits_.wait_if_equal( 0 )
WaitPark(t) ==
  /\ pc[t] = "park"
  /\ Goto(t, IF ParksAgainst(credits, 0) THEN "parked" ELSE "load")
  /\ UNCHANGED <<value, credits, sleepers, buffered, toWake>>

\* wait_if_equal may return for no reason (EINTR and the like).
SpuriousWake(t) ==
  /\ pc[t] = "parked"
  /\ Goto(t, "load")
  /\ UNCHANGED <<value, credits, sleepers, buffered, toWake>>

\* detail::underflow_checked_dec( sleepers_ ); return
WaitDeregister(t) ==
  /\ pc[t] = "deregister"
  /\ t \notin buffered
  /\ sleepers' = sleepers - 1
  /\ Goto(t, "idle")
  /\ UNCHANGED <<value, credits, buffered, toWake>>
--------------------------------------------------------------------------------
\* The steps a thread takes by itself once it has called the semaphore.
Progress(t) ==
  \/ SignalDeposit(t) \/ SignalGate(t) \/ SignalWake(t)
  \/ SpinTake(t) \/ SpinGiveUp(t) \/ WaitSub(t) \/ WaitRegister(t)
  \/ Flush(t) \/ WaitFence(t) \/ WaitTakeCredit(t) \/ WaitSeeNone(t)
  \/ WaitPark(t) \/ WaitDeregister(t)

Next == \E t \in Threads :
          SignalAdd(t) \/ WaitBegin(t) \/ SpuriousWake(t) \/ Progress(t)

SafeSpec == Init /\ [][Next]_vars

\* A thread inside a call is scheduled; nobody is obliged to make a call.
Spec == SafeSpec /\ \A t \in Threads : WF_vars(Progress(t))
--------------------------------------------------------------------------------
\* The threads in debt: they took value_ to or below zero and are owed a credit.
AwakeDebt == {"register", "fence", "load", "park"}
Awake     == At(AwakeDebt)
Parked    == At({"parked"})
Debtors   == At(AwakeDebt \cup {"parked"})

\* The threads inside signal() that hold credits: before and after the deposit.
Depositors == At({"deposit"})
Wakers     == At({"gate", "wake"})

\* The threads whose registration in sleepers_ is visible.
Registered ==
  At({"fence", "load", "park", "parked", "deregister"}) \ buffered

Debt == IF value < 0 THEN -value ELSE 0

\* The credits that threads past the fetch_add are about to deposit.
PendingDeposits == Cardinality(Slots(toWake, Depositors))

TypeOK ==
  /\ value \in Int
  /\ credits \in Nat
  /\ sleepers \in Int
  /\ buffered \subseteq Threads
  /\ pc \in [Threads -> Locations]
  /\ toWake \in [Threads -> 0..HCRange]

\* Every thread in debt is owed exactly one credit: it is still in value_, on
\* its way into credits_, or there already (the comment in wait(): "this thread
\* owes a sleep and is entitled to exactly one credit").
ExactCredits == Cardinality(Debtors) = Debt + PendingDeposits + credits

\* sleepers_ is the exact count of threads parked or committed to parking.
ExactSleepers == sleepers = Cardinality(Registered)

\* No missed wakeup: while a credit is there for the taking and somebody is
\* parked, a thread that will take the credit or issue the wake is under way.
NoMissedWakeup ==
  credits > 0 /\ Parked # {} => Wakers \cup Awake # {}

\* The counted form of it, which is inductive: while somebody is parked, every
\* credit has a wake still to be issued for it or an awake debtor to take it.
WakeCover ==
  Parked # {} => credits <= Cardinality(Slots(toWake, Wakers)) + Cardinality(Awake)

\* When every call has returned or is parked, no token or credit is left over
\* for a parked thread, and the parked threads are exactly the debt.
QuiescentExact ==
  (\A t \in Threads : pc[t] \in {"idle", "parked"})
    => /\ credits = 0
       /\ Cardinality(Parked) = Debt
       /\ sleepers = Cardinality(Parked)

\* The semaphore implements the abstract one: the tokens are what value_ holds
\* above zero plus the credits, deposited or about to be.
Abstract == INSTANCE Semaphore
  WITH tokens  <- (IF value > 0 THEN value ELSE 0) + PendingDeposits + credits,
       waiting <- At({"spin", "sub"}) \cup Debtors
================================================================================
