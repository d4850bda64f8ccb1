---------------------------- MODULE GenericSemaphore ----------------------------
(***************************************************************************)
(* threading/generic_semaphore.cpp: the semaphore of the platforms without *)
(* a futex, on a mutex and a condition variable, in the build that does    *)
(* not define PSI_SWEATER_EXACT_WORKER_SELECTION for this file.            *)
(*                                                                         *)
(* value     token count, negative: that many waiters in debt              *)
(* waiters   threads between ++waiters_ and --waiters_                     *)
(* toRelease to_release_: grants that waiters consume under the mutex      *)
(* pc        where each thread is; "parked" is the condition's queue       *)
(* toWake    the local to_wake of each thread inside signal()              *)
(*                                                                         *)
(* A critical section of mutex_ is one step: what it changes is read       *)
(* outside of the mutex only by SignalNotify, which copes with any value.  *)
(***************************************************************************)
EXTENDS Integers, FiniteSets, Futex, Counting

CONSTANTS Threads,    \* the threads that use the semaphore
          Counts,     \* arguments of signal()
          HCRange,    \* number of values of hardware_concurrency_t
          MaxTokens   \* bound: no signal() starts that would push value beyond it

VARIABLES value, waiters, toRelease, pc, toWake

vars == <<value, waiters, toRelease, pc, toWake>>

At(L) == Where(pc, L)

Goto(t, l) == pc' = [pc EXCEPT ![t] = l]

\* t goes to location l and the threads of W, woken, go for the mutex again.
Waking(t, l, W) ==
  pc' = [u \in Threads |-> IF u = t THEN l ELSE IF u \in W THEN "recheck" ELSE pc[u]]

Init ==
  /\ value = 0 /\ waiters = 0 /\ toRelease = 0
  /\ pc = [t \in Threads |-> "idle"]
  /\ toWake = [t \in Threads |-> 0]
--------------------------------------------------------------------------------
(* signal( count ) *)

\* The fetch_add on value_.  A positive previous value is the fast path; a zero
\* one is not, it goes on with nobody to wake.
SignalAdd(t) ==
  \E n \in Counts :
    LET debt == (-value) % HCRange IN
    /\ pc[t] = "idle"
    /\ value + n <= MaxTokens
    /\ value' = value + n
    /\ IF value > 0
         THEN UNCHANGED <<pc, toWake>>
         ELSE /\ toWake' = [toWake EXCEPT ![t] = IF debt <= n THEN debt ELSE n]
              /\ Goto(t, "deposit")
    /\ UNCHANGED <<waiters, toRelease>>

\* The critical section: the grants, and the look at waiters_ with its return.
SignalDeposit(t) ==
  /\ pc[t] = "deposit"
  /\ toRelease' = toRelease + toWake[t]
  /\ Goto(t, IF waiters = 0 THEN "idle" ELSE "choose")
  /\ UNCHANGED <<value, waiters, toWake>>

\* if ( to_wake < waiters_ ) reads waiters_ without the mutex, a data race:
\* either branch may be taken.
SignalChoose(t) ==
  /\ pc[t] = "choose"
  /\ \E l \in {"notify_one", "notify_all"} : Goto(t, l)
  /\ UNCHANGED <<value, waiters, toRelease, toWake>>

SignalNotifyAll(t) ==
  /\ pc[t] = "notify_all"
  /\ Waking(t, "idle", At({"parked"}))
  /\ UNCHANGED <<value, waiters, toRelease, toWake>>

\* A turn of the loop: notify_one() unblocks one thread of those that wait.
SignalNotifyOne(t) ==
  /\ pc[t] = "notify_one" /\ toWake[t] > 0
  /\ \E W \in WokenBy(At({"parked"}), 1) : Waking(t, "notify_one", W)
  /\ toWake' = [toWake EXCEPT ![t] = @ - 1]
  /\ UNCHANGED <<value, waiters, toRelease>>

SignalNotified(t) ==
  /\ pc[t] = "notify_one" /\ toWake[t] = 0
  /\ Goto(t, "idle")
  /\ UNCHANGED <<value, waiters, toRelease, toWake>>
--------------------------------------------------------------------------------
(* wait( spin_count ) and wait() *)

\* wait( spin_count ) starts with the spin phase, wait() with the fetch_sub.
WaitBegin(t) ==
  /\ pc[t] = "idle"
  /\ \E l \in {"spin", "sub"} : Goto(t, l)
  /\ UNCHANGED <<value, waiters, toRelease, toWake>>

\* The compare-exchange of a positive value succeeded.
SpinTake(t) ==
  /\ pc[t] = "spin" /\ value > 0
  /\ value' = value - 1
  /\ Goto(t, "idle")
  /\ UNCHANGED <<waiters, toRelease, toWake>>

\* spin_try reached spin_count: wait().
SpinGiveUp(t) ==
  /\ pc[t] = "spin"
  /\ Goto(t, "sub")
  /\ UNCHANGED <<value, waiters, toRelease, toWake>>

\* value_.fetch_sub( 1 )
WaitSub(t) ==
  /\ pc[t] = "sub"
  /\ value' = value - 1
  /\ Goto(t, IF value > 0 THEN "idle" ELSE "enter")
  /\ UNCHANGED <<waiters, toRelease, toWake>>

\* The first critical section of a waiter: it parks, unless there is a grant.
WaitEnter(t) ==
  /\ pc[t] = "enter"
  /\ IF toRelease = 0
       THEN waiters' = waiters + 1 /\ UNCHANGED toRelease /\ Goto(t, "parked")
       ELSE toRelease' = toRelease - 1 /\ UNCHANGED waiters /\ Goto(t, "idle")
  /\ UNCHANGED <<value, toWake>>

\* Mutant: an if in the place of the while, a woken thread returns.
WaitRecheckOnce(t) ==
  /\ pc[t] = "recheck"
  /\ toRelease' = (toRelease - 1) % HCRange
  /\ waiters' = waiters - 1
  /\ Goto(t, "idle")
  /\ UNCHANGED <<value, toWake>>

\* while ( to_release_ == 0 ), with the mutex again after a wake-up.
WaitRecheck(t) ==
  /\ pc[t] = "recheck"
  /\ IF toRelease = 0
       THEN Goto(t, "parked") /\ UNCHANGED <<waiters, toRelease>>
       ELSE toRelease' = toRelease - 1 /\ waiters' = waiters - 1 /\ Goto(t, "idle")
  /\ UNCHANGED <<value, toWake>>

\* condition_.wait() may return for no reason.
SpuriousWake(t) ==
  /\ pc[t] = "parked"
  /\ Goto(t, "recheck")
  /\ UNCHANGED <<value, waiters, toRelease, toWake>>
--------------------------------------------------------------------------------
\* The steps a thread takes by itself once it has called the semaphore.
Progress(t) ==
  \/ SignalDeposit(t) \/ SignalChoose(t) \/ SignalNotifyAll(t)
  \/ SignalNotifyOne(t) \/ SignalNotified(t)
  \/ SpinTake(t) \/ SpinGiveUp(t) \/ WaitSub(t) \/ WaitEnter(t) \/ WaitRecheck(t)

Call(t) == SignalAdd(t) \/ WaitBegin(t) \/ SpuriousWake(t)

Next == \E t \in Threads : Call(t) \/ Progress(t)

SafeSpec == Init /\ [][Next]_vars

\* A thread inside a call is scheduled, and gets the mutex it asks for.
Spec == SafeSpec /\ \A t \in Threads : WF_vars(Progress(t))
--------------------------------------------------------------------------------
Debtors == At({"enter", "parked", "recheck"})

PendingDeposits == Cardinality(Slots(toWake, At({"deposit"})))

\* The abstract semaphore's tokens and waiters.
Tokens  == (IF value > 0 THEN value ELSE 0) + PendingDeposits + toRelease
Waiting == At({"spin", "sub"}) \cup Debtors

\* When every call has returned or is parked, no grant is left over, and the
\* parked threads are exactly the debt and what waiters_ says.
QuiescentExact ==
  (\A t \in Threads : pc[t] \in {"idle", "parked"})
    => /\ toRelease = 0
       /\ waiters = Cardinality(At({"parked"}))
       /\ waiters = IF value < 0 THEN -value ELSE 0
================================================================================
