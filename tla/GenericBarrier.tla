----------------------------- MODULE GenericBarrier -----------------------------
(***************************************************************************)
(* threading/generic_barrier.{hpp,cpp}: the completion barrier of the      *)
(* platforms without a futex, on a mutex and a condition variable.  The    *)
(* spreading thread and the workers use it as they use the futex barrier:  *)
(* the counter, the spin mode and the steps that only touch them are those *)
(* of FutexBarrier; wait() and arrive() differ.                            *)
(*                                                                         *)
(* lock   the worker that holds mutex_ from its decrement to the end of    *)
(*        arrive(), or nobody; other critical sections are single steps    *)
(*                                                                         *)
(* owner = "parked" is the queue of event_, pc[w] = "wake" a worker that   *)
(* has seen everyone_arrived and has yet to notify.                        *)
(***************************************************************************)
EXTENDS FutexBarrier

VARIABLE lock

CvInit == Init /\ lock = {}

\* arrive(): without the mutex in spin mode; otherwise the decrement is made under
\* the mutex, which the last one keeps for the notification.
CvArrive(w) ==
  /\ spin \/ lock = {}
  /\ Arrive(w)
  /\ lock' = IF ~spin /\ counter = 1 THEN {w} ELSE lock

\* event_.notify_one(), and the scoped_lock ends.
CvNotify(w) == WakeOne(w) /\ lock' = lock \ {w}

\* The owner's own part arrives, and notifies nobody, as the one who waits is here.
CvOwnArrive == (spin \/ lock = {}) /\ OwnArrive /\ UNCHANGED lock

\* Mutant: wait() looks at the counter before it takes the mutex.
CvWaitLooksFirst ==
  /\ owner = "join" /\ ~spin
  /\ counter = 0 \/ lock = {}
  /\ Owner(IF counter = 0 THEN "return" ELSE "parked")
  /\ UNCHANGED <<counter, spin, parts, seen, pc, lives, lock>>

\* wait(): with the mutex, look at the counter; leave, or release it and wait.
CvWait ==
  /\ owner = "join" /\ ~spin /\ lock = {}
  /\ Owner(IF counter = 0 THEN "return" ELSE "parked")
  /\ UNCHANGED <<counter, spin, parts, seen, pc, lives, lock>>

CvOwnerStep ==
  \/ CvOwnArrive \/ CvWait
  \/ /\ Initialize \/ Dispatched \/ OwnPart \/ NoOwnPart \/ SpinWait \/ Return
     /\ UNCHANGED lock

CvWorkerStep(w) == CvArrive(w) \/ CvNotify(w) \/ (Take(w) /\ UNCHANGED lock)

CvNext == \/ CvOwnerStep
          \/ (Construct \/ Expect \/ SpuriousWake) /\ UNCHANGED lock
          \/ \E w \in Workers : CvWorkerStep(w)

CvSafeSpec == CvInit /\ [][CvNext]_<<vars, lock>>
--------------------------------------------------------------------------------
\* The barrier outlives its last notification: by the time that the owner leaves,
\* nobody is inside arrive() ("to prevent event_ getting used after this gets
\* destroyed").
NotifiesBeforeEnd == owner \in {"out", "return"} => lock = {}
================================================================================
