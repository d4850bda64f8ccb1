------------------------------ MODULE MCSemaphore ------------------------------
(***************************************************************************)
(* Both implementations of threading/semaphore.hpp for TLC: the backend is *)
(* chosen in the initial state, as the build chooses it, and the variables *)
(* of the other one stay as they are.                                      *)
(***************************************************************************)
EXTENDS FutexSemaphore, TLC

CONSTANTS t1, t2, t3

VARIABLES backend,                                        \* "futex" or "condvar"
          cvValue, cvWaiters, cvToRelease, cvPc, cvToWake \* of the condvar one

cvVars == <<cvValue, cvWaiters, cvToRelease, cvPc, cvToWake>>

Condvar == INSTANCE GenericSemaphore
  WITH value <- cvValue, waiters <- cvWaiters, toRelease <- cvToRelease,
       pc <- cvPc, toWake <- cvToWake

MCInit ==
  /\ Init /\ Condvar!Init
  /\ backend \in {"futex", "condvar"}

FutexNext   == backend = "futex" /\ Next /\ UNCHANGED <<backend, cvVars>>
CondvarNext == backend = "condvar" /\ Condvar!Next /\ UNCHANGED <<backend, vars>>

MCSpec ==
  /\ MCInit
  /\ [][FutexNext \/ CondvarNext]_<<backend, vars, cvVars>>
  /\ \A t \in Threads :
       /\ WF_<<backend, vars, cvVars>>
            (backend = "futex" /\ Progress(t) /\ UNCHANGED <<backend, cvVars>>)
       /\ WF_<<backend, vars, cvVars>>
            (backend = "condvar" /\ Condvar!Progress(t) /\ UNCHANGED <<backend, vars>>)

\* At rest nothing is left over in either backend (FutexSemaphore, GenericSemaphore).
AtRestExact == QuiescentExact /\ Condvar!QuiescentExact

\* Both backends implement the semaphore of semaphore.hpp: a wait() returns with
\* exactly one token, none is lost, and none lies idle while somebody waits.
Either == INSTANCE Semaphore
  WITH tokens  <- IF backend = "futex"
                    THEN (IF value > 0 THEN value ELSE 0) + PendingDeposits + credits
                    ELSE Condvar!Tokens,
       waiting <- IF backend = "futex" THEN At({"spin", "sub"}) \cup Debtors
                                       ELSE Condvar!Waiting

ImplementsSemaphore == Either!Spec
================================================================================
