------------------------------- MODULE Semaphore -------------------------------
(***************************************************************************)
(* What a counting semaphore promises (threading/semaphore.hpp, the public *)
(* interface of psi::thrd_lite::semaphore): signal(count) adds tokens, a   *)
(* wait() returns by consuming exactly one of them.  Both implementations  *)
(* in the repository, the futex one and the condvar one, promise this and  *)
(* are shown to keep it.                                                   *)
(***************************************************************************)
EXTENDS Naturals

CONSTANT Threads,   \* the threads that use the semaphore
         Counts     \* the arguments signal() may be called with

VARIABLES tokens,   \* signalled and not yet consumed
          waiting   \* the threads inside wait()

vars == <<tokens, waiting>>

Init == tokens = 0 /\ waiting = {}

\* A thread enters wait().
BeginWait(t) ==
  /\ t \notin waiting
  /\ waiting' = waiting \cup {t}
  /\ UNCHANGED tokens

\* A thread leaves wait() with one token.
Acquire(t) ==
  /\ t \in waiting
  /\ tokens > 0
  /\ tokens' = tokens - 1
  /\ waiting' = waiting \ {t}

\* signal(n).
Signal(n) ==
  /\ tokens' = tokens + n
  /\ UNCHANGED waiting

SomeAcquire == \E t \in Threads : Acquire(t)

Next ==
  \/ \E t \in Threads : BeginWait(t)
  \/ SomeAcquire
  \/ \E n \in Counts : Signal(n)

SafeSpec == Init /\ [][Next]_vars

\* A token is never left unused while somebody waits for one.
Spec == SafeSpec /\ WF_vars(SomeAcquire)
================================================================================
