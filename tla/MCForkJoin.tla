------------------------------- MODULE MCForkJoin -------------------------------
(***************************************************************************)
(* What a spread is made of, for TLC: how its iterations are cut           *)
(* (MCArithmetic), the start of the threads that run them, and the barrier *)
(* where they are joined, of both kinds.  Which one it is is chosen in the *)
(* initial state; the variables of the others stay as they are.            *)
(***************************************************************************)
EXTENDS GenericBarrier, TLC

CONSTANTS w1, w2, w3, NewThreads,
          Topics, MaxIterations, Pools, Loads, Costs, Divisions, ProductRange

VARIABLES part,    \* "futex" or "condvar" (the barrier), "thread" or "cut"
          starter, current, copied, threads, way, owners, ran, freed,  \* of a start
          input    \* of a cut

barrierVars == <<vars, lock>>
startVars   == <<starter, current, copied, threads, way, owners, ran, freed>>
allVars     == <<part, barrierVars, startVars, input>>

Start == INSTANCE ThreadStart WITH MayFail <- TRUE
Cut   == INSTANCE MCArithmetic

MCInit ==
  /\ CvInit /\ Start!Init
  /\ \/ part = "cut" /\ Cut!Init
     \/ part \in {"futex", "condvar", "thread"} /\ input = [topic |-> "none"]

FutexNext   == part = "futex" /\ Next /\ UNCHANGED <<part, lock, startVars, input>>
CondvarNext == part = "condvar" /\ CvNext /\ UNCHANGED <<part, startVars, input>>
StartNext   == part = "thread" /\ Start!Next /\ UNCHANGED <<part, barrierVars, input>>
CutNext     == part = "cut" /\ Cut!Next /\ UNCHANGED <<part, barrierVars, startVars>>

MCOwnerStep ==
  /\ UNCHANGED <<part, startVars, input>>
  /\ \/ part = "futex" /\ OwnerStep /\ UNCHANGED lock
     \/ part = "condvar" /\ CvOwnerStep

MCWorkerStep(w) ==
  /\ UNCHANGED <<part, startVars, input>>
  /\ \/ part = "futex" /\ WorkerStep(w) /\ UNCHANGED lock
     \/ part = "condvar" /\ CvWorkerStep(w)

\* Everybody gets to run, and gets the mutex; spreads are made, and conditions
\* wake by themselves, or not.
MCSpec ==
  /\ MCInit
  /\ [][FutexNext \/ CondvarNext \/ StartNext \/ CutNext]_allVars
  /\ WF_allVars(MCOwnerStep)
  /\ \A w \in Workers : WF_allVars(MCWorkerStep(w))

\* Both barriers implement the one of barrier.hpp: nobody arrives who is not expected,
\* the spreading thread leaves its join when all have arrived, and does leave it.
ImplementsBarrier == Abstract!Spec

\* Starting a thread: who needs what is in the starter's frame gets it there, and a
\* functor on the heap is freed once (ThreadStart).
FunctorLifetime == Start!FunctorLifetime

\* Whichever way a pool's spread is cut, every iteration is in one piece
\* (MCArithmetic).
PartsTile == Cut!PartsTile

\* So it is in the shops that cut without looking at the load (MCArithmetic).
ChunkedTiles == Cut!ChunkedTiles

\* So it is over clusters of unequal power (MCArithmetic).
HmpTiles == Cut!HmpTiles

\* The process counts on the CPUs that the quotas of its cgroups grant (MCArithmetic).
LimitExact == Cut!LimitExact
================================================================================
