----------------------------- MODULE BarrierProofs -----------------------------
(***************************************************************************)
(* TLAPS proofs about both barriers, for any finite set of workers, any    *)
(* number of parts that hardware_concurrency_t can count, and any number   *)
(* of barriers one after another.                                          *)
(***************************************************************************)
EXTENDS MCForkJoin, CountingLemmas

USE DEF ToCome

\* What the two barriers have in common: only who does not spin goes to sleep, and
\* not on a word that was zero; before initialize() nothing is expected.
IInv ==
  /\ TypeOK
  /\ CountExact
  /\ LeavesLast
  /\ NoMissedWakeup
  /\ owner \in {"park", "parked"} => ~spin
  /\ owner = "park" => seen # 0
  /\ owner = "dispatch" /\ ~spin => parts = 0 /\ Busy = {}

\* The condvar barrier: who holds the mutex is about to notify an owner that is not
\* past its wait().
CvInv ==
  /\ IInv
  /\ lock \subseteq Workers
  /\ owner # "park"
  /\ lock # {} => ~spin /\ owner \in {"own", "own_arrive", "join", "parked"}

--------------------------------------------------------------------------------
LEMMA BusyCount ==
  ASSUME TypeOK
  PROVE  /\ Cardinality(Busy) \in Nat
         /\ Cardinality(Busy) <= Cardinality(Workers)
         /\ Cardinality(Busy) = 0 <=> Busy = {}
         /\ Cardinality(Workers) \in Nat
<1>1. /\ IsFiniteSet(Busy) /\ Cardinality(Busy) \in Nat
      /\ Cardinality(Busy) <= Cardinality(Workers)
  BY WhereFinite, BarrierAssumption DEF TypeOK, Busy
<1> QED
  BY <1>1, FS_EmptySet, FS_CardinalityType, BarrierAssumption

\* A counter that actives() narrows to zero is zero.
LEMMA NarrowedZero ==
  ASSUME TypeOK, CountExact, owner # "own_arrive", counter % HCRange = 0
  PROVE  counter = 0
<1>1. counter \in 0..(HCRange - 1)
  BY BusyCount, BarrierAssumption DEF TypeOK, CountExact
<1> QED
  BY <1>1, BarrierAssumption

\* The counter at zero: nothing is queued and nothing runs.
LEMMA ZeroMeansDone ==
  ASSUME TypeOK, CountExact, counter = 0
  PROVE  parts = 0 /\ Busy = {} /\ owner # "own_arrive"
BY BusyCount, BarrierAssumption DEF TypeOK, CountExact

LEMMA InitIInv == Init => IInv
<1> SUFFICES ASSUME Init PROVE IInv
  OBVIOUS
<1>1. TypeOK
  <2>1. spin \in BOOLEAN
    BY Zenon DEF Init
  <2>2. 0 \in 0..MaxParts /\ 0 \in 0..MaxLives /\ 0 \in Nat
    BY BarrierAssumption
  <2>3. pc \in [Workers -> WorkerLocations]
    BY DEF Init, WorkerLocations
  <2> QED
    BY <2>1, <2>2, <2>3, Zenon DEF Init, TypeOK
<1>2. Busy = {}
  BY DEF Init, Busy, Where
<1> QED
  BY <1>1, <1>2, BusyCount DEF Init, IInv, CountExact, LeavesLast, NoMissedWakeup

\* The owner's steps that both barriers take.
SharedOwnerStep ==
  \/ Construct \/ Initialize \/ Expect \/ Dispatched \/ OwnPart \/ NoOwnPart
  \/ OwnArrive \/ SpinWait \/ Return \/ SpuriousWake

LEMMA SharedOwnerInv ==
  ASSUME IInv, SharedOwnerStep
  PROVE  IInv'
<1> USE BarrierAssumption
<1>0. /\ Busy' = Busy /\ pc' = pc
      /\ Cardinality(Busy) \in Nat
  BY BusyCount DEF SharedOwnerStep, Construct, Initialize, Expect, Dispatched, OwnPart,
     NoOwnPart, OwnArrive, SpinWait, Return, SpuriousWake, Busy, Where, IInv
<1>1. CASE Construct
  <2>1. spin' \in BOOLEAN
    BY <1>1, Zenon DEF Construct
  <2>2. parts = 0 /\ Busy = {} /\ counter' = 0 /\ owner' = "dispatch" /\ parts' = parts
    BY <1>1 DEF Construct, Owner, IInv, LeavesLast
  <2>3. lives' \in 0..MaxLives /\ counter' \in Nat
    BY <1>1 DEF Construct, IInv, TypeOK
  <2>4. TypeOK'
    BY <1>1, <2>1, <2>2, <2>3, Zenon DEF Construct, IInv, TypeOK
  <2>5. CountExact'
    BY <1>0, <2>2, FS_EmptySet DEF CountExact
  <2> QED
    BY <1>0, <2>2, <2>4, <2>5 DEF IInv, LeavesLast, NoMissedWakeup
<1>2. CASE Initialize
  <2>1. Busy = {}
    BY <1>2, ZeroMeansDone DEF Initialize, IInv
  <2> QED
    BY <1>0, <1>2, <2>1, BusyCount DEF Initialize, Owner, IInv, TypeOK, CountExact, LeavesLast, NoMissedWakeup
<1>3. CASE Expect
  BY <1>0, <1>3 DEF Expect, Owner, IInv, TypeOK, CountExact, LeavesLast, NoMissedWakeup
<1>4. CASE Dispatched
  BY <1>0, <1>4 DEF Dispatched, Owner, IInv, TypeOK, CountExact, LeavesLast, NoMissedWakeup
<1>5. CASE OwnPart
  BY <1>0, <1>5 DEF OwnPart, Owner, IInv, TypeOK, CountExact, LeavesLast, NoMissedWakeup
<1>6. CASE NoOwnPart
  BY <1>0, <1>6 DEF NoOwnPart, Owner, IInv, TypeOK, CountExact, LeavesLast, NoMissedWakeup
<1>7. CASE OwnArrive
  BY <1>0, <1>7 DEF OwnArrive, Owner, IInv, TypeOK, CountExact, LeavesLast, NoMissedWakeup
<1>8. CASE SpinWait
  <2>1. parts = 0 /\ Busy = {} /\ counter = 0
    BY <1>8, NarrowedZero, ZeroMeansDone DEF SpinWait, IInv
  <2> QED
    BY <1>0, <1>8, <2>1 DEF SpinWait, Owner, IInv, TypeOK, CountExact, LeavesLast, NoMissedWakeup
<1>9. CASE Return
  BY <1>0, <1>9 DEF Return, Owner, IInv, TypeOK, CountExact, LeavesLast, NoMissedWakeup
<1>10. CASE SpuriousWake
  BY <1>0, <1>10 DEF SpuriousWake, Owner, IInv, TypeOK, CountExact, LeavesLast, NoMissedWakeup
<1> QED
  BY <1>1, <1>2, <1>3, <1>4, <1>5, <1>6, <1>7, <1>8, <1>9, <1>10 DEF SharedOwnerStep

\* The join of the futex barrier: it parks against a counter that is not zero.
LEMMA FutexWaitInv ==
  ASSUME IInv, WaitLoad \/ WaitPark
  PROVE  IInv'
<1> USE BarrierAssumption
<1>0. Busy' = Busy /\ pc' = pc
  BY DEF WaitLoad, WaitPark, Busy, Where
<1>1. CASE WaitLoad
  <2>1. counter = 0 => parts = 0 /\ Busy = {}
    BY ZeroMeansDone DEF IInv
  <2> QED
    BY <1>0, <1>1, <2>1 DEF WaitLoad, Owner, IInv, TypeOK, CountExact, LeavesLast, NoMissedWakeup
<1>2. CASE WaitPark
  BY <1>0, <1>2 DEF WaitPark, ParksAgainst, Owner, IInv, TypeOK, CountExact, LeavesLast, NoMissedWakeup
<1> QED
  BY <1>1, <1>2

\* The join of the condvar barrier.
LEMMA CvWaitInv ==
  ASSUME IInv, CvWait
  PROVE  IInv'
<1>0. Busy' = Busy /\ pc' = pc
  BY DEF CvWait, Busy, Where
<1>1. counter = 0 => parts = 0 /\ Busy = {}
  BY ZeroMeansDone DEF IInv
<1> QED
  BY <1>0, <1>1 DEF CvWait, Owner, IInv, TypeOK, CountExact, LeavesLast, NoMissedWakeup

\* What the workers do: a part that is taken or has arrived moves one worker into
\* or out of Busy, and the last arrival of a sleeping owner's barrier has a wake-up
\* to issue.
LEMMA WorkerInv ==
  ASSUME IInv, NEW w \in Workers, WorkerStep(w)
  PROVE  IInv'
<1> USE BarrierAssumption
<1>0. /\ pc \in [Workers -> WorkerLocations] /\ pc' \in [Workers -> WorkerLocations]
      /\ Moves(Workers, pc, pc', w)
  BY DEF IInv, TypeOK, WorkerStep, Take, Arrive, WakeOne, Goto, WorkerLocations, Moves
<1>1. CountMoves(pc, pc', w, {"run"})
  BY <1>0, WhereMove
<1>2. Cardinality(Busy) \in Nat
  BY BusyCount DEF IInv
<1>3. pc[w] = "run" => w \in Busy
  BY <1>0 DEF Busy, Where
<1>4. CASE Take(w)
  <2>1. pc'[w] = "run" /\ pc[w] = "idle" /\ parts > 0 /\ parts' = parts - 1
    BY <1>0, <1>4 DEF Take, Goto
  <2>2. Cardinality(Busy') = Cardinality(Busy) + 1
    BY <1>1, <1>2, <2>1 DEF CountMoves, Weight, Busy
  <2>3. TypeOK' /\ CountExact'
    BY <1>0, <1>2, <1>4, <2>1, <2>2 DEF Take, IInv, TypeOK, CountExact
  <2>4. owner \notin {"out", "return"} /\ ~(owner = "dispatch" /\ ~spin)
    BY <2>1 DEF IInv, LeavesLast, TypeOK
  <2>5. NoMissedWakeup'
    <3>1. \A u \in Workers : pc[u] = "wake" => pc'[u] = "wake"
      BY <1>0, <2>1 DEF Moves
    <3> QED
      BY <1>4, <3>1 DEF Take, IInv, NoMissedWakeup
  <2> QED
    BY <1>4, <2>3, <2>4, <2>5 DEF Take, IInv, LeavesLast
<1>5. CASE Arrive(w)
  <2>1. /\ pc[w] = "run" /\ pc'[w] = IF ~spin /\ counter = 1 THEN "wake" ELSE "idle"
        /\ counter' = counter - 1
    BY <1>0, <1>5 DEF Arrive, Goto
  <2>2. Cardinality(Busy') = Cardinality(Busy) - 1 /\ Cardinality(Busy') \in Nat
    <3>1. Cardinality(Busy') = Cardinality(Busy) - 1
      BY <1>1, <1>2, <2>1 DEF CountMoves, Weight, Busy
    <3>2. Cardinality(Busy) # 0
      BY <1>3, <2>1, BusyCount DEF IInv
    <3> QED
      BY <1>2, <3>1, <3>2
  <2>3. TypeOK' /\ CountExact'
    BY <1>0, <1>2, <1>5, <2>1, <2>2 DEF Arrive, IInv, TypeOK, CountExact
  <2>4. owner \notin {"out", "return"} /\ ~(owner = "dispatch" /\ ~spin)
    BY <1>3, <2>1 DEF IInv, LeavesLast
  <2>5. NoMissedWakeup'
    <3>1. ASSUME owner = "parked", counter' = 0 PROVE pc'[w] = "wake"
      BY <2>1, <3>1 DEF IInv, TypeOK
    <3> QED
      BY <1>5, <3>1 DEF Arrive, NoMissedWakeup
  <2> QED
    BY <1>5, <2>3, <2>4, <2>5 DEF Arrive, IInv, LeavesLast
<1>6. CASE WakeOne(w)
  <2>1. pc[w] = "wake" /\ pc'[w] = "idle"
    BY <1>0, <1>6 DEF WakeOne, Goto
  <2>2. Busy' = Busy
    BY <1>0, <2>1 DEF Busy, Where, Moves
  <2>3. owner' = IF owner = "parked" THEN "join" ELSE owner
    BY <1>6 DEF WakeOne, Owner
  <2> QED
    BY <1>0, <1>2, <1>6, <2>1, <2>2, <2>3
       DEF WakeOne, IInv, TypeOK, CountExact, LeavesLast, NoMissedWakeup
<1> QED
  BY <1>4, <1>5, <1>6 DEF WorkerStep

--------------------------------------------------------------------------------
LEMMA StutterIInv ==
  ASSUME IInv, UNCHANGED vars
  PROVE  IInv'
BY DEF vars, IInv, TypeOK, CountExact, LeavesLast, NoMissedWakeup, Busy, Where

\* The invariant of the futex barrier is inductive.
THEOREM BarrierInvariance == SafeSpec => []IInv
<1>1. Init => IInv
  BY InitIInv
<1>2. IInv /\ [Next]_vars => IInv'
  <2> SUFFICES ASSUME IInv, [Next]_vars PROVE IInv'
    OBVIOUS
  <2>1. CASE SharedOwnerStep
    BY <2>1, SharedOwnerInv
  <2>2. CASE WaitLoad \/ WaitPark
    BY <2>2, FutexWaitInv
  <2>3. CASE \E w \in Workers : WorkerStep(w)
    BY <2>3, WorkerInv
  <2>4. CASE UNCHANGED vars
    BY <2>4, StutterIInv
  <2> QED
    BY <2>1, <2>2, <2>3, <2>4 DEF Next, OwnerStep, SharedOwnerStep
<1> QED
  BY <1>1, <1>2, PTL DEF SafeSpec

\* The counter of the futex barrier keeps its type: no arrival takes it below zero.
THEOREM BarrierTypeCorrect == SafeSpec => []TypeOK
BY BarrierInvariance, PTL DEF IInv

\* The counter of the futex barrier is the number of arrivals still to come.
THEOREM BarrierCountExact == SafeSpec => []CountExact
BY BarrierInvariance, PTL DEF IInv

\* The owner leaves the futex barrier last, whatever an earlier barrier's wake does.
THEOREM BarrierLeavesLast == SafeSpec => []LeavesLast
BY BarrierInvariance, PTL DEF IInv

\* The owner of the futex barrier does not sleep through its last arrival.
THEOREM BarrierWakeupNotMissed == SafeSpec => []NoMissedWakeup
BY BarrierInvariance, PTL DEF IInv
--------------------------------------------------------------------------------
LEMMA CvStepInv ==
  ASSUME CvInv, [CvNext]_<<vars, lock>>
  PROVE  CvInv'
<1>1. CASE (Initialize \/ Dispatched \/ OwnPart \/ NoOwnPart \/ SpinWait \/ Return
            \/ Construct \/ Expect \/ SpuriousWake) /\ UNCHANGED lock
  <2>1. IInv'
    BY <1>1, SharedOwnerInv DEF SharedOwnerStep, CvInv
  <2>2. lock' # {} => ~spin' /\ owner' \in {"own", "own_arrive", "join", "parked"}
    BY <1>1 DEF CvInv, Initialize, Dispatched, OwnPart, NoOwnPart, SpinWait, Return,
       Construct, Expect, SpuriousWake, Owner
  <2>3. owner' # "park"
    BY <1>1 DEF CvInv, Initialize, Dispatched, OwnPart, NoOwnPart, SpinWait, Return,
       Construct, Expect, SpuriousWake, Owner
  <2> QED
    BY <1>1, <2>1, <2>2, <2>3 DEF CvInv
<1>2. CASE CvOwnArrive
  <2>1. IInv'
    BY <1>2, SharedOwnerInv DEF CvOwnArrive, SharedOwnerStep, CvInv
  <2> QED
    BY <1>2, <2>1 DEF CvInv, CvOwnArrive, OwnArrive, Owner
<1>3. CASE CvWait
  BY <1>3, CvWaitInv DEF CvInv, CvWait, Owner
<1>4. ASSUME NEW w \in Workers, Take(w) /\ UNCHANGED lock
      PROVE  CvInv'
  BY <1>4, WorkerInv DEF CvInv, WorkerStep, Take
<1>5. ASSUME NEW w \in Workers, CvArrive(w)
      PROVE  CvInv'
  <2>1. IInv'
    BY <1>5, WorkerInv DEF CvArrive, WorkerStep, CvInv
  <2>2. w \in Busy
    BY <1>5 DEF CvArrive, Arrive, Busy, Where, CvInv, IInv, TypeOK
  <2>3. ~spin => owner \in {"own", "own_arrive", "join", "parked"}
    BY <2>2 DEF CvInv, IInv, TypeOK, LeavesLast
  <2> QED
    BY <1>5, <2>1, <2>3 DEF CvArrive, Arrive, CvInv
<1>6. ASSUME NEW w \in Workers, CvNotify(w)
      PROVE  CvInv'
  <2>1. IInv'
    BY <1>6, WorkerInv DEF CvNotify, WorkerStep, CvInv
  <2> QED
    BY <1>6, <2>1 DEF CvNotify, WakeOne, Owner, CvInv
<1>7. CASE UNCHANGED <<vars, lock>>
  BY <1>7, StutterIInv DEF CvInv, vars
<1> QED
  BY <1>1, <1>2, <1>3, <1>4, <1>5, <1>6, <1>7 DEF CvNext, CvOwnerStep, CvWorkerStep

\* The invariant of the condvar barrier is inductive.
THEOREM CvInvariance == CvSafeSpec => []CvInv
<1>1. CvInit => CvInv
  BY InitIInv DEF CvInit, CvInv, Init
<1>2. CvInv /\ [CvNext]_<<vars, lock>> => CvInv'
  BY CvStepInv
<1> QED
  BY <1>1, <1>2, PTL DEF CvSafeSpec

\* The condvar barrier counts exactly, its owner leaves last and does not sleep
\* through the last arrival.
THEOREM CvCorrect == CvSafeSpec => [](CountExact /\ LeavesLast /\ NoMissedWakeup)
<1>1. CvInv => CountExact /\ LeavesLast /\ NoMissedWakeup
  BY DEF CvInv, IInv
<1> QED
  BY <1>1, CvInvariance, PTL

\* The condvar barrier outlives its last notification.
THEOREM CvNotifiesBeforeEnd == CvSafeSpec => []NotifiesBeforeEnd
<1>1. CvInv => NotifiesBeforeEnd
  BY DEF CvInv, NotifiesBeforeEnd
<1> QED
  BY <1>1, CvInvariance, PTL
--------------------------------------------------------------------------------
(* Both barriers implement Barrier: under the invariant the counter is what Barrier
   calls pending, so that a step is looked at by what it does to the counter *)

LEMMA PendingIsCounter ==
  ASSUME IInv
  PROVE  ToCome = counter /\ counter \in Nat
BY DEF IInv, CountExact, TypeOK

LEMMA InitAbstract == Init => Abstract!Init
<1> SUFFICES ASSUME Init PROVE Abstract!Init
  OBVIOUS
<1>1. IInv
  BY InitIInv
<1> QED
  BY <1>1, PendingIsCounter DEF Init, Abstract!Init, Phase

\* The steps of the owner that both barriers take.
LEMMA SharedOwnerSimulates ==
  ASSUME IInv, IInv', SharedOwnerStep
  PROVE  [Abstract!Next]_(Abstract!vars)
<1>0. /\ ToCome = counter /\ ToCome' = counter'
      /\ counter \in Nat /\ counter' \in Nat
  BY PendingIsCounter DEF IInv, CountExact, TypeOK
<1>1. CASE Construct
  BY <1>0, <1>1 DEF Construct, Owner, Phase, Abstract!Next, Abstract!Construct
<1>2. CASE Initialize
  <2>1. counter = 0 /\ Phase = "open" /\ Phase' = "open"
    BY <1>2 DEF Initialize, Owner, Phase
  <2>2. CASE counter' = 0
    BY <1>0, <2>1, <2>2 DEF Abstract!vars
  <2>3. CASE counter' > 0
    BY <1>0, <2>1, <2>3 DEF Abstract!Next, Abstract!Expect
  <2> QED
    BY <1>0, <2>2, <2>3
<1>3. CASE Expect \/ OwnPart
  BY <1>0, <1>3 DEF Expect, OwnPart, Owner, Phase, Abstract!Next, Abstract!Expect
<1>4. CASE NoOwnPart
  <2>1. parts' = parts /\ pc' = pc /\ counter' = counter
    BY <1>4 DEF NoOwnPart
  <2> QED
    BY <1>0, <1>4, <2>1 DEF NoOwnPart, Owner, Phase, Abstract!Next, Abstract!Join
<1>5. CASE OwnArrive
  BY <1>0, <1>5 DEF OwnArrive, Owner, Phase, Abstract!Next, Abstract!Join
<1>6. CASE Dispatched \/ SpinWait \/ SpuriousWake
  BY <1>0, <1>6 DEF Dispatched, SpinWait, SpuriousWake, Owner, Phase, Abstract!vars
<1>7. CASE Return
  <2>1. parts = 0 /\ Cardinality(Busy) = 0
    BY <1>7, BusyCount DEF Return, IInv, LeavesLast
  <2> QED
    BY <1>0, <1>7, <2>1 DEF Return, Owner, Phase, Abstract!Next, Abstract!Return
<1> QED
  BY <1>1, <1>2, <1>3, <1>4, <1>5, <1>6, <1>7 DEF SharedOwnerStep

\* The steps of the join are none of Barrier's.
LEMMA JoinSimulates ==
  ASSUME IInv, IInv', WaitLoad \/ WaitPark \/ CvWait
  PROVE  [Abstract!Next]_(Abstract!vars)
<1>1. ToCome = counter /\ ToCome' = counter'
  BY DEF IInv, CountExact
<1> QED
  BY <1>1 DEF WaitLoad, WaitPark, CvWait, Owner, Phase, Abstract!vars

\* A part that is taken is still to arrive; an arrival is expected, by a barrier that
\* is there; a wake-up is nobody's arrival.
LEMMA WorkerSimulates ==
  ASSUME IInv, IInv', NEW w \in Workers, WorkerStep(w)
  PROVE  [Abstract!Next]_(Abstract!vars)
<1>0. /\ ToCome = counter /\ ToCome' = counter'
      /\ counter \in Nat /\ counter' \in Nat
  BY PendingIsCounter DEF IInv, CountExact, TypeOK
<1>1. CASE Take(w)
  BY <1>0, <1>1 DEF Take, Phase, Abstract!vars
<1>2. CASE Arrive(w)
  <2>1. w \in Busy
    BY <1>2 DEF Arrive, Busy, Where, IInv, TypeOK
  <2>2. owner \notin {"out", "return"}
    BY <2>1 DEF IInv, LeavesLast
  <2>3. Phase # "none" /\ Phase' = Phase
    BY <1>2, <2>2 DEF Arrive, Phase
  <2> QED
    BY <1>0, <1>2, <2>3 DEF Arrive, Abstract!Next, Abstract!Arrive
<1>3. CASE WakeOne(w)
  BY <1>0, <1>3 DEF WakeOne, Owner, Phase, Abstract!vars
<1> QED
  BY <1>1, <1>2, <1>3 DEF WorkerStep

LEMMA StutterSimulates ==
  ASSUME UNCHANGED vars
  PROVE  [Abstract!Next]_(Abstract!vars)
BY DEF vars, Abstract!vars, Phase, Busy, Where

\* The futex barrier implements Barrier: it keeps its promise of safety, for any number
\* of workers, parts and barriers at one address.
THEOREM BarrierRefinement == SafeSpec => Abstract!SafeSpec
<1>1. IInv /\ IInv' /\ [Next]_vars => [Abstract!Next]_(Abstract!vars)
  BY SharedOwnerSimulates, JoinSimulates, WorkerSimulates, StutterSimulates
     DEF Next, OwnerStep, SharedOwnerStep
<1> QED
  BY <1>1, InitAbstract, BarrierInvariance, PTL DEF SafeSpec, Abstract!SafeSpec

\* The condvar barrier implements Barrier as well.
THEOREM CvRefinement == CvSafeSpec => Abstract!SafeSpec
<1>1. CvInv /\ CvInv' /\ [CvNext]_<<vars, lock>> => [Abstract!Next]_(Abstract!vars)
  <2> SUFFICES ASSUME CvInv, CvInv', [CvNext]_<<vars, lock>>
               PROVE  [Abstract!Next]_(Abstract!vars)
    OBVIOUS
  <2>1. IInv /\ IInv'
    BY DEF CvInv
  <2>2. CASE CvOwnerStep
    BY <2>1, <2>2, SharedOwnerSimulates, JoinSimulates DEF CvOwnerStep, CvOwnArrive, SharedOwnerStep
  <2>3. CASE Construct \/ Expect \/ SpuriousWake
    BY <2>1, <2>3, SharedOwnerSimulates DEF SharedOwnerStep
  <2>4. CASE \E w \in Workers : CvWorkerStep(w)
    BY <2>1, <2>4, WorkerSimulates DEF CvWorkerStep, CvArrive, CvNotify, WorkerStep
  <2>5. CASE UNCHANGED <<vars, lock>>
    BY <2>5, StutterSimulates
  <2> QED
    BY <2>2, <2>3, <2>4, <2>5 DEF CvNext
<1>2. CvInit => Abstract!Init
  BY InitAbstract DEF CvInit
<1> QED
  BY <1>1, <1>2, CvInvariance, PTL DEF CvSafeSpec, Abstract!SafeSpec
--------------------------------------------------------------------------------
(* The start of a thread, as module MCForkJoin takes it in *)

\* The starter is at an assignment to t.
Starts(t) == starter # "out" /\ current = t

\* Of one new thread: where the starter and the thread can be together, by the way of
\* the functor; who owns it, how often it ran and was freed.
StartOf(t) ==
  /\ way[t] = "none" <=> threads[t] = "none" /\ ~Starts(t)
  /\ Starts(t) =>
       /\ starter = "create" <=> threads[t] = "none"
       /\ starter \in {"look", "park", "parked"} => way[t] = "frame"
       /\ starter = "throw" => threads[t] = "refused" /\ way[t] # "frame"
       /\ starter = "leave" /\ way[t] # "frame" => threads[t] # "refused"
  /\ threads[t] \in {"copied", "notify", "run"} => way[t] = "frame"
  /\ way[t] = "frame" =>
       /\ threads[t] \in {"start", "copied"} => Starts(t) /\ ~copied
       /\ Starts(t) /\ starter = "create" => ~copied
       /\ Starts(t) /\ starter = "leave" => threads[t] \notin {"start", "copied"}
  /\ owners[t] = IF way[t] # "heap" THEN {}
                 ELSE (IF Starts(t) THEN {"starter"} ELSE {})
                        \cup (IF threads[t] \in {"start", "ran"} THEN {"thread"} ELSE {})
  /\ ran[t] = IF threads[t] \in {"ran", "done"} THEN 1 ELSE 0
  /\ freed[t] = IF way[t] = "heap" /\ (threads[t] = "done" \/ (threads[t] = "refused" /\ ~Starts(t)))
                THEN 1 ELSE 0

StartTyped ==
  /\ starter \in {"out", "create", "look", "park", "parked", "leave", "throw"}
  /\ starter # "out" => current \in NewThreads
  /\ copied \in BOOLEAN
  /\ threads \in [NewThreads -> {"none", "start", "refused", "copied", "notify", "run", "ran", "done"}]
  /\ way \in [NewThreads -> Start!Ways \cup {"none"}]
  /\ owners \in [NewThreads -> SUBSET {"starter", "thread"}]
  /\ ran \in [NewThreads -> Nat] /\ freed \in [NewThreads -> Nat]

StartInv == StartTyped /\ \A t \in NewThreads : StartOf(t)

LEMMA StartInit == Start!Init => StartInv
<1> SUFFICES ASSUME Start!Init PROVE StartInv
  OBVIOUS
<1>1. StartTyped
  BY DEF Start!Init, StartTyped, Start!Ways
<1>2. ASSUME NEW t \in NewThreads PROVE StartOf(t)
  BY DEF Start!Init, StartOf, Starts
<1> QED
  BY <1>1, <1>2 DEF StartInv

\* A start in which t is the one that moves: nobody else's frame, ownership or history
\* is touched.
LEMMA StartStep ==
  ASSUME StartInv, Start!Next
  PROVE  StartInv'
<1> USE DEF StartInv, StartTyped, StartOf, Starts, Start!Ways, Start!Starter, Start!Thread
<1>1. ASSUME NEW t \in NewThreads, NEW w \in Start!Ways, Start!Assign(t, w)
      PROVE  StartInv'
  BY ZenonT(40), <1>1 DEF Start!Assign
<1>2. CASE Start!Create
  BY ZenonT(40), <1>2 DEF Start!Create
<1>3. CASE Start!CreateFails
  BY <1>3 DEF Start!CreateFails
<1>4. CASE Start!Look \/ Start!Park \/ Start!SpuriousWake
  BY <1>4 DEF Start!Look, Start!Park, Start!SpuriousWake
<1>5. CASE Start!Leave
  BY SMTT(30), <1>5 DEF Start!Leave
<1>6. CASE Start!Throw
  <2>1. Start!Cardinality({"starter"}) = 1 /\ Start!Cardinality({}) = 0
    BY FS_Singleton, FS_EmptySet DEF Start!Cardinality, Cardinality
  <2>2. owners[current] = IF way[current] = "heap" THEN {"starter"} ELSE {}
    BY <1>6 DEF Start!Throw
  <2>3. freed' = [freed EXCEPT ![current] = IF way[current] = "heap" THEN 1 ELSE 0]
    <3>1. freed[current] = 0 /\ current \in NewThreads
      BY <1>6 DEF Start!Throw
    <3>2. freed' = [freed EXCEPT ![current] = freed[current] + Start!Cardinality(owners[current])]
      BY <1>6 DEF Start!Throw
    <3>3. freed[current] + Start!Cardinality(owners[current])
            = IF way[current] = "heap" THEN 1 ELSE 0
      <4> HIDE DEF StartInv
      <4> QED
        BY <2>1, <2>2, <3>1
    <3> HIDE DEF StartInv
    <3> QED
      BY <3>2, <3>3
  <2>4. /\ starter = "throw" /\ starter' = "out"
        /\ owners' = [owners EXCEPT ![current] = {}]
        /\ UNCHANGED <<copied, threads, way, ran>>
    BY <1>6 DEF Start!Throw
  <2> QED
    BY SMTT(30), <2>3, <2>4
<1>7. ASSUME NEW t \in NewThreads, Start!Copies(t)
      PROVE  StartInv'
  BY <1>7 DEF Start!Copies
<1>8. ASSUME NEW t \in NewThreads, Start!Flags(t)
      PROVE  StartInv'
  BY <1>8 DEF Start!Flags
<1>9. ASSUME NEW t \in NewThreads, Start!Notifies(t)
      PROVE  StartInv'
  BY <1>9 DEF Start!Notifies
<1>10. ASSUME NEW t \in NewThreads, Start!Runs(t)
       PROVE  StartInv'
  BY <1>10 DEF Start!Runs
<1>11. ASSUME NEW t \in NewThreads, Start!Ends(t)
       PROVE  StartInv'
  <2>1. owners' = [owners EXCEPT ![t] = @ \ {"thread"}] /\ threads[t] = "ran"
    BY <1>11 DEF Start!Ends
  <2>2. freed' = [freed EXCEPT ![t] = IF way[t] = "heap" THEN 1 ELSE 0]
    <3>1. freed' = [freed EXCEPT ![t] = freed[t] + (IF "thread" \in owners[t] THEN 1 ELSE 0)]
      BY <1>11 DEF Start!Ends
    <3>2. freed[t] = 0 /\ ("thread" \in owners[t] <=> way[t] = "heap")
      BY <2>1
    <3>3. freed[t] + (IF "thread" \in owners[t] THEN 1 ELSE 0)
            = IF way[t] = "heap" THEN 1 ELSE 0
      <4> HIDE DEF StartInv
      <4> QED
        BY <3>2
    <3> HIDE DEF StartInv
    <3> QED
      BY <3>1, <3>3
  <2>3. /\ threads' = [threads EXCEPT ![t] = "done"]
        /\ UNCHANGED <<starter, current, copied, way, ran>>
    BY <1>11 DEF Start!Ends
  <2>4. StartTyped'
    BY <2>1, <2>2, <2>3
  <2>5. ASSUME NEW u \in NewThreads PROVE StartOf(u)'
    <3>1. StartOf(u) /\ StartOf(t)
      OBVIOUS
    <3>2. CASE u = t
      BY <2>1, <2>2, <2>3, <3>1, <3>2
    <3>3. CASE u # t
      BY <2>1, <2>2, <2>3, <3>1, <3>3
    <3> QED
      BY <3>2, <3>3
  <2> QED
    BY <2>4, <2>5
<1> HIDE DEF StartInv
<1> QED
  BY <1>1, <1>2, <1>3, <1>4, <1>5, <1>6, <1>7, <1>8, <1>9, <1>10, <1>11
  DEF Start!Next, Start!StarterStep, Start!ThreadStep

\* thread.hpp: the functor in the starter's frame is moved out while the starter is
\* still there for it, and one on the heap is freed once and not before it has run,
\* for any number of threads that one thread starts.
THEOREM StartFunctorLifetime == MCSpec => []FunctorLifetime
<1>1. MCInit => StartInv
  BY StartInit DEF MCInit
<1>2. StartInv /\ [FutexNext \/ CondvarNext \/ StartNext \/ CutNext]_allVars => StartInv'
  <2>1. StartInv /\ UNCHANGED startVars => StartInv'
    BY DEF startVars, StartInv, StartTyped, StartOf, Starts
  <2> QED
    BY <2>1, StartStep DEF FutexNext, CondvarNext, StartNext, CutNext, allVars
<1>3. StartInv => FunctorLifetime
  BY DEF StartInv, StartTyped, StartOf, Starts, FunctorLifetime, Start!FunctorLifetime
<1> QED
  BY <1>1, <1>2, <1>3, PTL DEF MCSpec
================================================================================
