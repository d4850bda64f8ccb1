-------------------------- MODULE FutexSemaphoreProofs --------------------------
(***************************************************************************)
(* TLAPS proofs about both semaphores, for any finite set of threads and   *)
(* any signal counts: first the one on the futex, then the one on the      *)
(* condvar (instance Condvar of MCSemaphore, the names with Cv), then      *)
(* whichever of them a build chooses.                                      *)
(***************************************************************************)
EXTENDS MCSemaphore, CountingLemmas

\* The value side of the protocol is exact, sleepers are exact, only a thread at
\* the fence has an invisible registration, and every credit is covered.
IInv ==
  /\ TypeOK
  /\ buffered \subseteq At({"fence"})
  /\ ExactCredits
  /\ ExactSleepers
  /\ WakeCover

\* The five counts the invariant is about, as functions of the state.
LEMMA CountTypes ==
  ASSUME TypeOK
  PROVE  /\ \A L : Cardinality(At(L)) \in Nat /\ Cardinality(At(L)) <= Cardinality(Threads)
         /\ \A L : Cardinality(Slots(toWake, At(L))) \in Nat
         /\ Cardinality(Threads) \in Nat
<1>1. ASSUME NEW L
      PROVE  /\ Cardinality(At(L)) \in Nat
             /\ Cardinality(At(L)) <= Cardinality(Threads)
             /\ At(L) \in SUBSET Threads
  BY WhereFinite, ThreadsAssumption DEF TypeOK, At
<1>2. ASSUME NEW L
      PROVE  Cardinality(Slots(toWake, At(L))) \in Nat
  BY <1>1, SlotsFinite, ThreadsAssumption, HCRangeAssumption DEF TypeOK
<1> QED
  BY <1>1, <1>2, ThreadsAssumption, FS_CardinalityType

\* A debt never reaches the range of hardware_concurrency_t, so that the cast in
\* signal() is exact.
LEMMA DebtCast ==
  ASSUME TypeOK, ExactCredits, value < 0
  PROVE  (-value) % HCRange = -value
<1>1. Debt \in Nat /\ Debt <= Cardinality(Threads)
  BY CountTypes DEF ExactCredits, Debt, TypeOK, Debtors, PendingDeposits, Depositors
<1>2. -value \in 0..(HCRange - 1)
  BY <1>1, CountTypes, HCRangeAssumption DEF Debt, TypeOK
<1> QED
  BY <1>2, HCRangeAssumption DEF TypeOK

\* How the counts change when a step moves thread t only.
LEMMA StepCounts ==
  ASSUME TypeOK, TypeOK', NEW t \in Threads,
         Moves(Threads, pc, pc', t), Moves(Threads, toWake, toWake', t)
  PROVE  /\ \A L : CountMoves(pc, pc', t, L)
         /\ \A L : SlotsMoves(toWake, toWake', pc, pc', t, L)
<1>1. /\ pc \in [Threads -> Locations] /\ pc' \in [Threads -> Locations]
      /\ toWake \in [Threads -> 0..HCRange] /\ toWake' \in [Threads -> 0..HCRange]
      /\ HCRange \in Nat
  BY HCRangeAssumption DEF TypeOK
<1>2. ASSUME NEW L PROVE CountMoves(pc, pc', t, L)
  BY <1>1, WhereMove, ThreadsAssumption
<1>3. ASSUME NEW L PROVE SlotsMoves(toWake, toWake', pc, pc', t, L)
  BY <1>1, SlotsMove, ThreadsAssumption
<1> QED
  BY <1>2, <1>3

\* Every step keeps the types.
LEMMA TypeStep ==
  ASSUME IInv, [Next]_vars
  PROVE  TypeOK'
<1> USE ThreadsAssumption, HCRangeAssumption, CountsAssumption
      DEF IInv, TypeOK, Goto, Locations
<1>1. CASE UNCHANGED vars
  BY <1>1 DEF vars
<1>2. ASSUME NEW t \in Threads, SignalAdd(t)
      PROVE  TypeOK'
  <2>1. PICK n \in Counts :
          /\ n # 0
          /\ value' = value + n
          /\ IF value >= 0
               THEN UNCHANGED <<pc, toWake>>
               ELSE /\ toWake' = [toWake EXCEPT ![t] = Min2((-value) % HCRange, n)]
                    /\ Goto(t, "deposit")
          /\ UNCHANGED <<credits, sleepers, buffered>>
    BY <1>2 DEF SignalAdd
  <2>2. value < 0 => Min2((-value) % HCRange, n) \in 0..HCRange
    <3> SUFFICES ASSUME value < 0 PROVE Min2(-value, n) \in 0..HCRange
      BY DebtCast
    <3>1. -value <= Cardinality(Threads)
      BY CountTypes DEF ExactCredits, Debt, Debtors, PendingDeposits, Depositors
    <3> QED
      BY <3>1, CountTypes DEF Min2
  <2>3. n \in Nat
    OBVIOUS
  <2> QED
    BY <2>1, <2>2, <2>3
<1>3. ASSUME NEW t \in Threads, SignalWake(t)
      PROVE  TypeOK'
  BY <1>3 DEF SignalWake
<1>4. ASSUME NEW t \in Threads, WaitBegin(t) \/ SpuriousWake(t) \/ Flush(t)
      PROVE  TypeOK'
  BY <1>4 DEF WaitBegin, SpuriousWake, Flush
<1>5. ASSUME NEW t \in Threads, SignalDeposit(t) \/ SignalGate(t)
      PROVE  TypeOK'
  BY <1>5 DEF SignalDeposit, SignalGate
<1>6. ASSUME NEW t \in Threads, SpinTake(t) \/ SpinGiveUp(t) \/ WaitSub(t) \/ WaitRegister(t)
      PROVE  TypeOK'
  BY <1>6 DEF SpinTake, SpinGiveUp, WaitSub, WaitRegister
<1>7. ASSUME NEW t \in Threads, \/ WaitFence(t) \/ WaitTakeCredit(t) \/ WaitSeeNone(t)
                               \/ WaitPark(t) \/ WaitDeregister(t)
      PROVE  TypeOK'
  BY <1>7 DEF WaitFence, WaitTakeCredit, WaitSeeNone, WaitPark, WaitDeregister
<1> QED
  BY <1>1, <1>2, <1>3, <1>4, <1>5, <1>6, <1>7 DEF Next, Progress

\* Only a thread between its registration and the fence is invisible.
LEMMA FenceStep ==
  ASSUME IInv, TypeOK', [Next]_vars
  PROVE  (buffered \subseteq At({"fence"}))'
<1> USE DEF IInv, TypeOK, Goto, At, Where
<1>1. CASE UNCHANGED vars
  BY <1>1 DEF vars
<1>2. ASSUME NEW t \in Threads, SignalAdd(t) \/ WaitBegin(t) \/ SpuriousWake(t) \/ Flush(t)
      PROVE  (buffered \subseteq At({"fence"}))'
  BY <1>2 DEF SignalAdd, WaitBegin, SpuriousWake, Flush
<1>3. ASSUME NEW t \in Threads, SignalDeposit(t) \/ SignalGate(t) \/ SignalWake(t)
      PROVE  (buffered \subseteq At({"fence"}))'
  BY <1>3 DEF SignalDeposit, SignalGate, SignalWake, WokenBy
<1>4. ASSUME NEW t \in Threads, SpinTake(t) \/ SpinGiveUp(t) \/ WaitSub(t) \/ WaitRegister(t)
      PROVE  (buffered \subseteq At({"fence"}))'
  BY <1>4 DEF SpinTake, SpinGiveUp, WaitSub, WaitRegister
<1>5. ASSUME NEW t \in Threads, \/ WaitFence(t) \/ WaitTakeCredit(t) \/ WaitSeeNone(t)
                               \/ WaitPark(t) \/ WaitDeregister(t)
      PROVE  (buffered \subseteq At({"fence"}))'
  BY <1>5 DEF WaitFence, WaitTakeCredit, WaitSeeNone, WaitPark, WaitDeregister
<1> QED
  BY <1>1, <1>2, <1>3, <1>4, <1>5 DEF Next, Progress

\* The registered threads are finitely many, and the parked ones are among them.
LEMMA RegisteredFinite ==
  ASSUME IInv
  PROVE  IsFiniteSet(Registered) /\ Parked \subseteq Registered
<1>1. IsFiniteSet(At({"fence", "load", "park", "parked", "deregister"}))
  BY WhereFinite, ThreadsAssumption DEF IInv, TypeOK, At
<1>2. IsFiniteSet(Registered)
  BY <1>1, FS_Difference DEF Registered
<1>3. Parked \subseteq Registered
  BY DEF IInv, TypeOK, Registered, Parked, At, Where
<1> QED
  BY <1>2, <1>3

\* sleepers_ stays the exact count: a registration enters it when it becomes
\* visible, and leaves it after the credit is consumed.
LEMMA SleepersStep ==
  ASSUME IInv, TypeOK', [Next]_vars
  PROVE  ExactSleepers'
<1>1. IsFiniteSet(Registered)
  BY RegisteredFinite
<1>2. ASSUME NEW t \in Threads, Flush(t)
      PROVE  ExactSleepers'
  <2>1. t \notin Registered /\ Registered' = Registered \cup {t}
    BY <1>2 DEF Flush, Registered, IInv, TypeOK, At, Where
  <2>2. Cardinality(Registered') = Cardinality(Registered) + 1
    BY <1>1, <2>1, FS_AddElement
  <2> QED
    BY <1>2, <2>2 DEF Flush, ExactSleepers, IInv
<1>3. ASSUME NEW t \in Threads, WaitDeregister(t)
      PROVE  ExactSleepers'
  <2>1. t \in Registered /\ Registered' = Registered \ {t}
    BY <1>3 DEF WaitDeregister, Goto, Registered, IInv, TypeOK, At, Where
  <2>2. Cardinality(Registered') = Cardinality(Registered) - 1
    BY <1>1, <2>1, FS_RemoveElement
  <2> QED
    BY <1>3, <2>2 DEF WaitDeregister, ExactSleepers, IInv
<1>4. ASSUME Registered' = Registered, sleepers' = sleepers
      PROVE  ExactSleepers'
  BY <1>4 DEF ExactSleepers, IInv
<1>5. CASE UNCHANGED vars
  BY <1>4, <1>5 DEF vars, Registered, At
<1> USE DEF IInv, TypeOK, Goto, At, Where, Registered
<1>6. ASSUME NEW t \in Threads, SignalAdd(t) \/ WaitBegin(t) \/ SpuriousWake(t)
      PROVE  ExactSleepers'
  BY <1>4, <1>6 DEF SignalAdd, WaitBegin, SpuriousWake
<1>7. ASSUME NEW t \in Threads, SignalDeposit(t) \/ SignalGate(t)
      PROVE  ExactSleepers'
  BY <1>4, <1>7 DEF SignalDeposit, SignalGate
<1>8. ASSUME NEW t \in Threads, SignalWake(t)
      PROVE  ExactSleepers'
  BY <1>4, <1>8 DEF SignalWake, WokenBy
<1>9. ASSUME NEW t \in Threads, SpinTake(t) \/ SpinGiveUp(t) \/ WaitSub(t) \/ WaitRegister(t)
      PROVE  ExactSleepers'
  BY <1>4, <1>9 DEF SpinTake, SpinGiveUp, WaitSub, WaitRegister
<1>10. ASSUME NEW t \in Threads, \/ WaitFence(t) \/ WaitTakeCredit(t) \/ WaitSeeNone(t)
                                \/ WaitPark(t)
       PROVE  ExactSleepers'
  BY <1>4, <1>10 DEF WaitFence, WaitTakeCredit, WaitSeeNone, WaitPark
<1> QED
  BY <1>2, <1>3, <1>5, <1>6, <1>7, <1>8, <1>9, <1>10 DEF Next, Progress

\* The threads that SignalWake moves, and the counts after it.
LEMMA WakeCounts ==
  ASSUME IInv, TypeOK', NEW t \in Threads, SignalWake(t)
  PROVE  /\ Debtors' = Debtors
         /\ Depositors' = Depositors
         /\ Cardinality(Slots(toWake', Wakers'))
              = Cardinality(Slots(toWake, Wakers)) - toWake[t]
         /\ \/ Parked' = {}
            \/ Cardinality(Awake') = Cardinality(Awake) + toWake[t]
<1>1. PICK W \in SUBSET Parked :
        /\ W = Parked \/ Cardinality(W) = toWake[t]
        /\ pc' = [u \in Threads |-> IF u = t THEN "idle"
                                     ELSE IF u \in W THEN "load" ELSE pc[u]]
  BY DEF SignalWake, WokenBy, Parked
<1>2. pc[t] = "wake" /\ toWake' = toWake
  BY DEF SignalWake
<1> USE DEF IInv, TypeOK, At, Where, AwakeDebt, Parked
<1>3. Debtors' = Debtors /\ Depositors' = Depositors
  BY <1>1, <1>2 DEF Debtors, Depositors
<1>4. /\ Wakers' \in SUBSET Threads
      /\ t \notin Wakers'
      /\ Wakers = Wakers' \cup {t}
  BY <1>1, <1>2 DEF Wakers
<1>5. Awake' = Awake \cup W /\ Awake \cap W = {}
  BY <1>1, <1>2 DEF Awake
<1>6. W = Parked => Parked' = {}
  BY <1>1, <1>2
<1>7. W \subseteq Threads /\ Awake \subseteq Threads
  BY DEF Awake
<1> HIDE DEF At, Where, AwakeDebt, Parked
<1>8. /\ Cardinality(Slots(toWake, Wakers' \cup {t}))
           = Cardinality(Slots(toWake, Wakers')) + toWake[t]
      /\ Cardinality(Slots(toWake, Wakers')) \in Nat
  BY <1>4, SlotsAdd, SlotsFinite, ThreadsAssumption, HCRangeAssumption
<1>9. Cardinality(Slots(toWake', Wakers'))
        = Cardinality(Slots(toWake, Wakers)) - toWake[t]
  BY <1>2, <1>4, <1>8, HCRangeAssumption
<1>10. ASSUME Cardinality(W) = toWake[t]
       PROVE  Cardinality(Awake') = Cardinality(Awake) + toWake[t]
  <2>1. IsFiniteSet(W) /\ IsFiniteSet(Awake)
    BY <1>7, FS_Subset, ThreadsAssumption
  <2>2. /\ Cardinality(Awake \cup W)
             = Cardinality(Awake) + Cardinality(W) - Cardinality(Awake \cap W)
        /\ Cardinality(Awake) \in Nat /\ Cardinality(W) \in Nat
    BY <2>1, FS_Union, FS_CardinalityType
  <2>3. Cardinality(Awake \cap W) = 0
    BY <1>5, FS_EmptySet
  <2> QED
    BY <1>5, <1>10, <2>2, <2>3
<1> QED
  BY <1>1, <1>3, <1>6, <1>9, <1>10

\* The moves of the steps other than SignalWake, in the form StepCounts takes.
LEMMA SingleMoves ==
  ASSUME IInv, TypeOK', NEW t \in Threads,
         \/ SignalAdd(t) \/ WaitBegin(t) \/ SpuriousWake(t)
         \/ Progress(t) /\ ~SignalWake(t)
  PROVE  Moves(Threads, pc, pc', t) /\ Moves(Threads, toWake, toWake', t)
<1> USE DEF Moves, IInv, TypeOK, Goto
<1>1. CASE SignalAdd(t) \/ WaitBegin(t) \/ SpuriousWake(t)
  BY <1>1 DEF SignalAdd, WaitBegin, SpuriousWake
<1>2. CASE SignalDeposit(t) \/ SignalGate(t) \/ Flush(t)
  BY <1>2 DEF SignalDeposit, SignalGate, Flush
<1>3. CASE SpinTake(t) \/ SpinGiveUp(t) \/ WaitSub(t) \/ WaitRegister(t)
  BY <1>3 DEF SpinTake, SpinGiveUp, WaitSub, WaitRegister
<1>4. CASE \/ WaitFence(t) \/ WaitTakeCredit(t) \/ WaitSeeNone(t)
           \/ WaitPark(t) \/ WaitDeregister(t)
  BY <1>4 DEF WaitFence, WaitTakeCredit, WaitSeeNone, WaitPark, WaitDeregister
<1> QED
  BY <1>1, <1>2, <1>3, <1>4 DEF Progress

\* Every debtor stays owed exactly one credit.
LEMMA CreditsStep ==
  ASSUME IInv, TypeOK', [Next]_vars
  PROVE  ExactCredits'
<1> DEFINE D == Cardinality(Debtors)
           Q == Cardinality(Slots(toWake, Depositors))
<1>1. CASE UNCHANGED vars
  BY <1>1 DEF vars, IInv, ExactCredits, Debtors, Depositors, PendingDeposits, Debt, At
<1>2. ASSUME NEW t \in Threads, SignalWake(t)
      PROVE  ExactCredits'
  BY <1>2, WakeCounts
     DEF IInv, ExactCredits, PendingDeposits, Debt, SignalWake
<1>3. ASSUME NEW t \in Threads,
             \/ SignalAdd(t) \/ WaitBegin(t) \/ SpuriousWake(t)
             \/ Progress(t) /\ ~SignalWake(t)
      PROVE  ExactCredits'
  <2>1. /\ CountMoves(pc, pc', t, AwakeDebt \cup {"parked"})
        /\ SlotsMoves(toWake, toWake', pc, pc', t, {"deposit"})
    BY <1>3, SingleMoves, StepCounts DEF IInv
  <2>2. /\ D' = D + Weight(pc', t, AwakeDebt \cup {"parked"}, 1)
                  - Weight(pc, t, AwakeDebt \cup {"parked"}, 1)
        /\ Q' = Q + Weight(pc', t, {"deposit"}, toWake'[t])
                  - Weight(pc, t, {"deposit"}, toWake[t])
    BY <2>1 DEF CountMoves, SlotsMoves, Debtors, Depositors, At
  <2>3. D \in Nat /\ Q \in Nat /\ D = Debt + Q + credits
    BY CountTypes DEF IInv, Debtors, Depositors, ExactCredits, PendingDeposits
  <2>4. toWake[t] \in Nat /\ toWake'[t] \in Nat
    BY HCRangeAssumption DEF IInv, TypeOK
  <2> SUFFICES D' = Debt' + Q' + credits'
    BY DEF ExactCredits, PendingDeposits
  <2> HIDE DEF D, Q
  <2> USE <2>2, <2>3, <2>4 DEF IInv, TypeOK, Weight, AwakeDebt, Debt, Goto
  <2>5. CASE SignalAdd(t)
    <3>1. PICK n \in Counts :
            /\ n # 0
            /\ value' = value + n
            /\ IF value >= 0
                 THEN UNCHANGED <<pc, toWake>>
                 ELSE /\ toWake' = [toWake EXCEPT ![t] = Min2((-value) % HCRange, n)]
                      /\ Goto(t, "deposit")
            /\ UNCHANGED <<credits, sleepers, buffered>>
      BY <2>5 DEF SignalAdd
    <3>2. n \in Nat /\ pc[t] = "idle"
      BY <2>5, CountsAssumption DEF SignalAdd
    <3>3. CASE value >= 0
      BY <3>1, <3>2, <3>3
    <3>4. CASE value < 0
      <4>1. toWake'[t] = Min2(-value, n) /\ pc'[t] = "deposit"
        BY <3>1, <3>4, DebtCast
      <4> QED
        BY <3>1, <3>2, <3>4, <4>1 DEF Min2
    <3> QED
      BY <3>3, <3>4
  <2>6. CASE WaitBegin(t) \/ SpuriousWake(t)
    BY <2>6 DEF WaitBegin, SpuriousWake
  <2>7. CASE SignalDeposit(t)
    BY <2>7 DEF SignalDeposit
  <2>8. CASE SignalGate(t) \/ Flush(t)
    BY <2>8 DEF SignalGate, Flush
  <2>9. CASE SpinTake(t) \/ SpinGiveUp(t)
    BY <2>9 DEF SpinTake, SpinGiveUp
  <2>10. CASE WaitSub(t)
    BY <2>10 DEF WaitSub
  <2>11. CASE WaitRegister(t) \/ WaitFence(t) \/ WaitSeeNone(t)
    BY <2>11 DEF WaitRegister, WaitFence, WaitSeeNone
  <2>12. CASE WaitTakeCredit(t)
    BY <2>12 DEF WaitTakeCredit
  <2>13. CASE WaitPark(t) \/ WaitDeregister(t)
    BY <2>13 DEF WaitPark, WaitDeregister
  <2> QED
    BY <1>3, <2>5, <2>6, <2>7, <2>8, <2>9, <2>10, <2>11, <2>12, <2>13 DEF Progress
<1> QED
  BY <1>1, <1>2, <1>3 DEF Next, Progress

\* While somebody is parked every credit stays covered: a signaler skips the wake
\* only when nobody is registered, and a thread parks only when credits_ is zero.
LEMMA CoverStep ==
  ASSUME IInv, TypeOK', [Next]_vars
  PROVE  WakeCover'
<1> DEFINE A == Cardinality(Awake)
           G == Cardinality(Slots(toWake, Wakers))
<1>0. A \in Nat /\ G \in Nat /\ (Parked # {} => credits <= A + G)
  BY CountTypes DEF IInv, Awake, Wakers, WakeCover
<1>1. CASE UNCHANGED vars
  BY <1>1 DEF vars, IInv, WakeCover, Parked, Wakers, Awake, At
<1>2. ASSUME NEW t \in Threads, SignalWake(t)
      PROVE  WakeCover'
  <2>1. CASE Parked' = {}
    BY <2>1 DEF WakeCover
  <2>2. CASE Cardinality(Awake') = A + toWake[t]
    <3>1. G' = G - toWake[t] /\ credits' = credits
      BY <1>2, WakeCounts DEF SignalWake
    <3>2. Parked' # {} => Parked # {}
      BY <1>2 DEF SignalWake, Parked, At, Where, WokenBy, IInv, TypeOK
    <3>3. toWake[t] \in Nat
      BY HCRangeAssumption DEF IInv, TypeOK
    <3>4. credits \in Nat
      BY DEF IInv, TypeOK
    <3> SUFFICES Parked' # {} => credits' <= G' + Cardinality(Awake')
      BY DEF WakeCover
    <3> HIDE DEF A, G
    <3> QED
      BY <1>0, <2>2, <3>1, <3>2, <3>3, <3>4
  <2> QED
    BY <1>2, <2>1, <2>2, WakeCounts
<1>3. ASSUME NEW t \in Threads,
             \/ SignalAdd(t) \/ WaitBegin(t) \/ SpuriousWake(t)
             \/ Progress(t) /\ ~SignalWake(t)
      PROVE  WakeCover'
  <2>1. /\ CountMoves(pc, pc', t, AwakeDebt)
        /\ SlotsMoves(toWake, toWake', pc, pc', t, {"gate", "wake"})
    BY <1>3, SingleMoves, StepCounts DEF IInv
  <2>2. /\ A' = A + Weight(pc', t, AwakeDebt, 1) - Weight(pc, t, AwakeDebt, 1)
        /\ G' = G + Weight(pc', t, {"gate", "wake"}, toWake'[t])
                  - Weight(pc, t, {"gate", "wake"}, toWake[t])
    BY <2>1 DEF CountMoves, SlotsMoves, Awake, Wakers, At
  <2>3. Parked' # {} => Parked # {} \/ pc'[t] = "parked"
    BY <1>3, SingleMoves DEF Moves, Parked, At, Where, IInv, TypeOK
  <2>4. toWake[t] \in Nat /\ toWake'[t] \in Nat
    BY HCRangeAssumption DEF IInv, TypeOK
  <2>5. A' \in Nat /\ G' \in Nat
    <3>1. /\ pc' \in [Threads -> Locations]
          /\ toWake' \in [Threads -> 0..HCRange]
          /\ HCRange \in Nat
      BY HCRangeAssumption DEF TypeOK
    <3>2. /\ Cardinality(Where(pc', AwakeDebt)) \in Nat
          /\ Where(pc', {"gate", "wake"}) \in SUBSET Threads
      BY <3>1, WhereFinite, ThreadsAssumption
    <3>3. Cardinality(Slots(toWake', Where(pc', {"gate", "wake"}))) \in Nat
      BY <3>1, <3>2, SlotsFinite, ThreadsAssumption
    <3> QED
      BY <3>2, <3>3 DEF Awake, Wakers, At
  <2> SUFFICES Parked' # {} => credits' <= G' + A'
    BY DEF WakeCover
  <2>6. sleepers = 0 => Parked = {}
    BY RegisteredFinite, FS_EmptySet DEF IInv, ExactSleepers
  <2>7. pc[t] = "parked" => Parked # {}
    BY DEF Parked, At, Where, IInv, TypeOK
  <2> HIDE DEF A, G
  <2> USE <1>0, <2>2, <2>3, <2>4, <2>5 DEF IInv, TypeOK, Weight, AwakeDebt, Goto
  <2>8. CASE SignalAdd(t) \/ WaitBegin(t)
    BY <2>8 DEF SignalAdd, WaitBegin
  <2>9. CASE SpuriousWake(t)
    BY <2>7, <2>9 DEF SpuriousWake
  <2>10. CASE SignalDeposit(t)
    BY <2>10 DEF SignalDeposit
  <2>11. CASE SignalGate(t)
    BY <2>6, <2>11 DEF SignalGate
  <2>12. CASE SpinTake(t) \/ SpinGiveUp(t) \/ Flush(t)
    BY <2>7, <2>12 DEF SpinTake, SpinGiveUp, Flush
  <2>13. CASE WaitSub(t) \/ WaitRegister(t) \/ WaitFence(t)
    BY <2>13 DEF WaitSub, WaitRegister, WaitFence
  <2>14. CASE WaitTakeCredit(t) \/ WaitSeeNone(t)
    BY <2>14 DEF WaitTakeCredit, WaitSeeNone
  <2>15. CASE WaitPark(t)
    BY <2>15 DEF WaitPark, ParksAgainst
  <2>16. CASE WaitDeregister(t)
    BY <2>16 DEF WaitDeregister
  <2> QED
    BY <1>3, <2>8, <2>9, <2>10, <2>11, <2>12, <2>13, <2>14, <2>15, <2>16 DEF Progress
<1> QED
  BY <1>1, <1>2, <1>3 DEF Next, Progress

\* The initial state: nobody is in a call and every count is zero.
LEMMA InitIInv == Init => IInv
<1> SUFFICES ASSUME Init PROVE IInv
  OBVIOUS
<1>1. TypeOK
  BY HCRangeAssumption DEF Init, TypeOK, Locations
<1>2. \A L : "idle" \notin L => At(L) = {}
  BY DEF Init, At, Where
<1>3. Slots(toWake, {}) = {}
  BY DEF Slots
<1>4. /\ Debtors = {} /\ Depositors = {} /\ Parked = {}
      /\ Registered = {}
  BY <1>2 DEF Debtors, AwakeDebt, Depositors, Parked, Registered
<1> QED
  BY <1>1, <1>3, <1>4, FS_EmptySet
     DEF Init, IInv, ExactCredits, PendingDeposits, Debt, ExactSleepers, WakeCover

\* The inductive invariant of the semaphore.
THEOREM Invariance == SafeSpec => []IInv
<1>1. IInv /\ [Next]_vars => IInv'
  BY TypeStep, FenceStep, SleepersStep, CreditsStep, CoverStep DEF IInv
<1> QED
  BY <1>1, InitIInv, PTL DEF SafeSpec

\* The types of the semaphore's words; in particular credits_ never wraps below 0.
THEOREM TypeCorrect == SafeSpec => []TypeOK
BY Invariance, PTL DEF IInv

\* Every thread that owes a sleep is entitled to exactly one credit, for any
\* number of threads and any signal counts.
THEOREM CreditsExact == SafeSpec => []ExactCredits
BY Invariance, PTL DEF IInv

\* No wakeup is missed: with a credit there and a thread parked, a waker or an
\* awake debtor is under way.
THEOREM WakeupNotMissed == SafeSpec => []NoMissedWakeup
<1>1. IInv => NoMissedWakeup
  <2> SUFFICES ASSUME IInv, credits > 0, Parked # {}, Wakers = {}, Awake = {}
               PROVE  FALSE
    BY DEF NoMissedWakeup
  <2>1. Slots(toWake, Wakers) = {}
    BY DEF Slots
  <2>2. credits <= 0
    BY <2>1, FS_EmptySet DEF IInv, WakeCover
  <2> QED
    BY <2>2 DEF IInv, TypeOK
<1> QED
  BY <1>1, Invariance, PTL

\* When every call has returned or is parked, no credit is left over and the
\* parked threads are exactly the debt in value_.
THEOREM QuiescenceExact == SafeSpec => []QuiescentExact
<1>1. IInv => QuiescentExact
  <2> SUFFICES ASSUME IInv, \A t \in Threads : pc[t] \in {"idle", "parked"}
               PROVE  /\ credits = 0
                      /\ Cardinality(Parked) = Debt
                      /\ sleepers = Cardinality(Parked)
    BY DEF QuiescentExact
  <2>1. /\ Wakers = {} /\ Awake = {} /\ Depositors = {}
        /\ Debtors = Parked /\ Registered = Parked
    BY DEF Wakers, Awake, Depositors, Debtors, Parked, Registered, AwakeDebt,
           At, Where, IInv, TypeOK
  <2>2. Slots(toWake, {}) = {}
    BY DEF Slots
  <2>3. Cardinality(Parked) = Debt + credits /\ sleepers = Cardinality(Parked)
    <3>1. PendingDeposits = 0
      BY <2>1, <2>2, FS_EmptySet DEF PendingDeposits
    <3> QED
      BY <2>1, <3>1 DEF IInv, ExactCredits, ExactSleepers, Debt, TypeOK
  <2>4. credits = 0
    <3>1. CASE Parked = {}
      BY <2>3, <3>1, FS_EmptySet DEF IInv, TypeOK, Debt
    <3>2. CASE Parked # {}
      BY <2>1, <2>2, <3>2, FS_EmptySet DEF IInv, WakeCover, TypeOK
    <3> QED
      BY <3>1, <3>2
  <2> QED
    BY <2>3, <2>4 DEF IInv, TypeOK, Debt
<1> QED
  BY <1>1, Invariance, PTL
--------------------------------------------------------------------------------
\* The tokens and the waiting threads of the abstract semaphore.
Tokens  == (IF value > 0 THEN value ELSE 0) + PendingDeposits + credits
Waiting == At({"spin", "sub"}) \cup Debtors

\* Every step of the futex protocol is a step of the abstract semaphore on the
\* tokens, or changes neither the tokens nor who waits.
LEMMA RefinementStep ==
  ASSUME IInv, TypeOK', [Next]_vars
  PROVE  [Abstract!Next]_(Abstract!vars)
<1> SUFFICES \/ \E t \in Threads : /\ t \notin Waiting /\ Waiting' = Waiting \cup {t}
                                   /\ Tokens' = Tokens
             \/ \E t \in Threads : /\ t \in Waiting /\ Waiting' = Waiting \ {t}
                                   /\ Tokens > 0 /\ Tokens' = Tokens - 1
             \/ \E n \in Counts : Tokens' = Tokens + n /\ Waiting' = Waiting
             \/ Tokens' = Tokens /\ Waiting' = Waiting
  BY DEF Abstract!Next, Abstract!vars, Abstract!BeginWait, Abstract!Acquire,
         Abstract!SomeAcquire, Abstract!Signal, Tokens, Waiting
<1> DEFINE Q == PendingDeposits
<1>0. Q \in Nat
  BY CountTypes DEF IInv, PendingDeposits, Depositors
<1>1. CASE UNCHANGED vars
  BY <1>1 DEF vars, Tokens, Waiting, PendingDeposits, Depositors, Debtors, At
<1>2. ASSUME NEW t \in Threads, SignalWake(t)
      PROVE  Tokens' = Tokens /\ Waiting' = Waiting
  <2>1. At({"spin", "sub"})' = At({"spin", "sub"})
    BY <1>2 DEF SignalWake, At, Where, WokenBy, IInv, TypeOK
  <2> QED
    BY <1>2, <2>1, WakeCounts DEF SignalWake, Tokens, Waiting, PendingDeposits
<1>3. ASSUME NEW t \in Threads,
             \/ SignalAdd(t) \/ WaitBegin(t) \/ SpuriousWake(t)
             \/ Progress(t) /\ ~SignalWake(t)
      PROVE  \/ t \notin Waiting /\ Waiting' = Waiting \cup {t} /\ Tokens' = Tokens
             \/ /\ t \in Waiting /\ Waiting' = Waiting \ {t}
                /\ Tokens > 0 /\ Tokens' = Tokens - 1
             \/ \E n \in Counts : Tokens' = Tokens + n /\ Waiting' = Waiting
             \/ Tokens' = Tokens /\ Waiting' = Waiting
  <2> DEFINE WaitLocs == {"spin", "sub"} \cup AwakeDebt \cup {"parked"}
  <2>1. SlotsMoves(toWake, toWake', pc, pc', t, {"deposit"})
    BY <1>3, SingleMoves, StepCounts DEF IInv
  <2>2. Q' = Q + Weight(pc', t, {"deposit"}, toWake'[t])
               - Weight(pc, t, {"deposit"}, toWake[t])
    BY <2>1 DEF SlotsMoves, PendingDeposits, Depositors, At
  <2>3. /\ Waiting = Where(pc, WaitLocs)
        /\ Waiting' = Where(pc', WaitLocs)
    BY DEF Waiting, Debtors, At, Where
  <2>4. /\ t \in Waiting <=> pc[t] \in WaitLocs
        /\ pc'[t] \in WaitLocs => Waiting' = Waiting \cup {t}
        /\ pc'[t] \notin WaitLocs => Waiting' = Waiting \ {t}
    BY <1>3, <2>3, SingleMoves DEF Moves, Where, IInv, TypeOK
  <2>5. /\ pc[t] \in WaitLocs /\ pc'[t] \in WaitLocs => Waiting' = Waiting
        /\ pc[t] \notin WaitLocs /\ pc'[t] \notin WaitLocs => Waiting' = Waiting
    BY <2>4
  <2>6. toWake[t] \in Nat /\ toWake'[t] \in Nat
    BY HCRangeAssumption DEF IInv, TypeOK
  <2>7. /\ Tokens = (IF value > 0 THEN value ELSE 0) + Q + credits
        /\ Tokens' = (IF value' > 0 THEN value' ELSE 0) + Q' + credits'
    BY DEF Tokens
  <2> HIDE DEF Q
  <2> USE <1>0, <2>2, <2>4, <2>5, <2>6, <2>7 DEF IInv, TypeOK, Weight, AwakeDebt, Goto
  <2>8. CASE SignalAdd(t)
    <3>1. PICK n \in Counts :
            /\ n # 0
            /\ value' = value + n
            /\ IF value >= 0
                 THEN UNCHANGED <<pc, toWake>>
                 ELSE /\ toWake' = [toWake EXCEPT ![t] = Min2((-value) % HCRange, n)]
                      /\ Goto(t, "deposit")
            /\ UNCHANGED <<credits, sleepers, buffered>>
      BY <2>8 DEF SignalAdd
    <3>2. n \in Nat /\ pc[t] = "idle"
      BY <2>8, CountsAssumption DEF SignalAdd
    <3>3. CASE value >= 0
      BY <3>1, <3>2, <3>3
    <3>4. CASE value < 0
      <4>1. toWake'[t] = Min2(-value, n) /\ pc'[t] = "deposit"
        BY <3>1, <3>4, DebtCast
      <4>2. Tokens' = Tokens + n
        BY <3>1, <3>2, <3>4, <4>1 DEF Min2
      <4> QED
        BY <3>2, <4>1, <4>2
    <3> QED
      BY <3>3, <3>4
  <2>9. CASE WaitBegin(t)
    BY <2>9 DEF WaitBegin
  <2>10. CASE SpuriousWake(t) \/ Flush(t)
    BY <2>10 DEF SpuriousWake, Flush
  <2>11. CASE SignalDeposit(t)
    BY <2>11 DEF SignalDeposit
  <2>12. CASE SignalGate(t)
    BY <2>12 DEF SignalGate
  <2>13. CASE SpinTake(t)
    BY <2>13 DEF SpinTake
  <2>14. CASE SpinGiveUp(t) \/ WaitRegister(t)
    BY <2>14 DEF SpinGiveUp, WaitRegister
  <2>15. CASE WaitSub(t)
    BY <2>15 DEF WaitSub
  <2>16. CASE WaitFence(t) \/ WaitSeeNone(t)
    BY <2>16 DEF WaitFence, WaitSeeNone
  <2>17. CASE WaitTakeCredit(t)
    BY <2>17 DEF WaitTakeCredit
  <2>18. CASE WaitPark(t) \/ WaitDeregister(t)
    BY <2>18 DEF WaitPark, WaitDeregister
  <2> QED
    BY <1>3, <2>8, <2>9, <2>10, <2>11, <2>12, <2>13, <2>14, <2>15, <2>16, <2>17,
       <2>18 DEF Progress
<1> HIDE DEF Q
<1> QED
  BY <1>1, <1>2, <1>3 DEF Next, Progress

\* The futex semaphore implements the counting semaphore: tokens are neither
\* lost nor invented, and wait() returns only by consuming one.
THEOREM Refinement == SafeSpec => Abstract!SafeSpec
<1>1. Init => Abstract!Init
  <2> SUFFICES ASSUME Init PROVE Tokens = 0 /\ Waiting = {}
    BY DEF Abstract!Init, Tokens, Waiting
  <2>1. Depositors = {} /\ Waiting = {}
    BY DEF Init, Waiting, Debtors, Depositors, AwakeDebt, At, Where
  <2>2. Slots(toWake, {}) = {}
    BY DEF Slots
  <2> QED
    BY <2>1, <2>2, FS_EmptySet DEF Init, Tokens, PendingDeposits
<1>2. IInv /\ [Next]_vars => [Abstract!Next]_(Abstract!vars)
  BY TypeStep, RefinementStep
<1> QED
  BY <1>1, <1>2, Invariance, PTL DEF SafeSpec, Abstract!SafeSpec
--------------------------------------------------------------------------------
(* The semaphore on the condvar *)

\* hardware_concurrency_t counts the threads, as its name says.
LEMMA Setting ==
  /\ IsFiniteSet(Threads) /\ Counts \subseteq Nat
  /\ HCRange \in Nat /\ Cardinality(Threads) < HCRange
BY ThreadsAssumption, CountsAssumption, HCRangeAssumption

CvAt(L)    == Where(cvPc, L)
CvDebtors  == CvAt({"enter", "parked", "recheck"})
CvPending  == Cardinality(Slots(cvToWake, CvAt({"deposit"})))
CvTokens   == (IF cvValue > 0 THEN cvValue ELSE 0) + CvPending + cvToRelease
CvWaiting  == CvAt({"spin", "sub"}) \cup CvDebtors

\* The operators that the instance brings along are these.
LEMMA CvSame ==
  /\ \A S : Condvar!Cardinality(S) = Cardinality(S)
  /\ \A L : Condvar!At(L) = CvAt(L)
  /\ \A S, n : Condvar!WokenBy(S, n) = WokenBy(S, n)
  /\ Condvar!Tokens = CvTokens /\ Condvar!Waiting = CvWaiting
<1>1. \A S : Condvar!Cardinality(S) = Cardinality(S)
  BY DEF Condvar!Cardinality, Cardinality
<1>2. \A L : Condvar!At(L) = CvAt(L)
  BY DEF Condvar!At, Condvar!Where, CvAt, Where
<1>3. \A S, n : Condvar!WokenBy(S, n) = WokenBy(S, n)
  BY <1>1 DEF Condvar!WokenBy, WokenBy
<1>4. \A S : Condvar!Slots(cvToWake, S) = Slots(cvToWake, S)
  BY DEF Condvar!Slots, Slots
<1>5. Condvar!Tokens = CvTokens /\ Condvar!Waiting = CvWaiting
  BY <1>1, <1>2, <1>4
  DEF Condvar!Tokens, CvTokens, Condvar!Waiting, CvWaiting, Condvar!PendingDeposits, CvPending,
      Condvar!Debtors, CvDebtors
<1> QED
  BY <1>1, <1>2, <1>3, <1>5

CvInDebt     == {"enter", "parked", "recheck"}
CvRegistered == {"parked", "recheck"}
CvNotifying  == {"choose", "notify_one", "notify_all"}
CvLocations  == {"idle", "spin", "sub", "deposit"} \cup CvInDebt \cup CvNotifying

CvTyped ==
  /\ cvValue \in Int
  /\ cvWaiters \in Nat
  /\ cvToRelease \in Nat
  /\ cvPc \in [Threads -> CvLocations]
  /\ cvToWake \in [Threads -> 0..HCRange]

CvDebt == IF cvValue < 0 THEN -cvValue ELSE 0

\* Every debtor without a grant is in the debt, and the grants are for the others.
CvDebtExact == Cardinality(CvAt(CvInDebt)) = CvDebt + CvPending + cvToRelease

CvWaitersExact == cvWaiters = Cardinality(CvAt(CvRegistered))

\* While somebody is parked, every grant has a thread on its way to it, or the
\* notification of one still to come.
CvGrantCover ==
  \/ CvAt({"parked"}) = {}
  \/ cvToRelease <= Cardinality(CvAt({"recheck"})) + Cardinality(Slots(cvToWake, CvAt(CvNotifying)))

CvIInv == CvTyped /\ CvDebtExact /\ CvWaitersExact /\ CvGrantCover
--------------------------------------------------------------------------------
(* The counts the invariant is about *)

LEMMA CvCountTypes ==
  ASSUME CvTyped
  PROVE  /\ \A L : Cardinality(CvAt(L)) \in Nat /\ Cardinality(CvAt(L)) <= Cardinality(Threads)
         /\ \A L : Cardinality(CvAt(L)) = 0 <=> CvAt(L) = {}
         /\ \A L : Cardinality(Slots(cvToWake, CvAt(L))) \in Nat
         /\ Cardinality(Threads) \in Nat
<1>1. ASSUME NEW L
      PROVE  /\ Cardinality(CvAt(L)) \in Nat
             /\ Cardinality(CvAt(L)) <= Cardinality(Threads)
             /\ CvAt(L) \in SUBSET Threads /\ IsFiniteSet(CvAt(L))
  BY WhereFinite, Setting DEF CvTyped, CvAt
<1>2. ASSUME NEW L
      PROVE  Cardinality(Slots(cvToWake, CvAt(L))) \in Nat
  BY <1>1, SlotsFinite, Setting DEF CvTyped
<1>3. ASSUME NEW L
      PROVE  Cardinality(CvAt(L)) = 0 <=> CvAt(L) = {}
  BY <1>1, FS_EmptySet
<1> QED
  BY <1>1, <1>2, <1>3, FS_CardinalityType, Setting

\* The cast of the debt to hardware_concurrency_t in signal() is exact.
LEMMA CvDebtCast ==
  ASSUME CvIInv, cvValue <= 0
  PROVE  (-cvValue) % HCRange = -cvValue /\ -cvValue \in 0..HCRange
<1>1. CvDebt \in Nat /\ CvDebt <= Cardinality(Threads)
  BY CvCountTypes DEF CvIInv, CvDebtExact, CvDebt, CvTyped, CvPending
<1>2. -cvValue \in 0..(HCRange - 1)
  BY <1>1, CvCountTypes, Setting DEF CvDebt, CvIInv, CvTyped
<1> QED
  BY <1>2, Setting

\* How the counts change when a step moves thread t only.
LEMMA CvStepCounts ==
  ASSUME CvTyped, CvTyped', NEW t \in Threads,
         Moves(Threads, cvPc, cvPc', t), Moves(Threads, cvToWake, cvToWake', t)
  PROVE  /\ \A L : CountMoves(cvPc, cvPc', t, L)
         /\ \A L : SlotsMoves(cvToWake, cvToWake', cvPc, cvPc', t, L)
<1>1. /\ cvPc \in [Threads -> CvLocations] /\ cvPc' \in [Threads -> CvLocations]
      /\ cvToWake \in [Threads -> 0..HCRange] /\ cvToWake' \in [Threads -> 0..HCRange]
      /\ HCRange \in Nat /\ IsFiniteSet(Threads)
  BY Setting DEF CvTyped
<1>2. ASSUME NEW L PROVE CountMoves(cvPc, cvPc', t, L)
  BY <1>1, WhereMove
<1>3. ASSUME NEW L PROVE SlotsMoves(cvToWake, cvToWake', cvPc, cvPc', t, L)
  BY <1>1, SlotsMove
<1> QED
  BY <1>2, <1>3

\* The steps that move one thread, which is all but the notifications.
CvSingleStep(t) ==
  \/ Condvar!SignalAdd(t) \/ Condvar!SignalDeposit(t) \/ Condvar!SignalChoose(t)
  \/ Condvar!SignalNotified(t)
  \/ Condvar!WaitBegin(t) \/ Condvar!SpinTake(t) \/ Condvar!SpinGiveUp(t)
  \/ Condvar!WaitSub(t) \/ Condvar!WaitEnter(t)
  \/ Condvar!WaitRecheck(t) \/ Condvar!SpuriousWake(t)

LEMMA CvNotifies ==
  ASSUME NEW t \in Threads, Condvar!Call(t) \/ Condvar!Progress(t)
  PROVE  CvSingleStep(t) \/ Condvar!SignalNotifyAll(t) \/ Condvar!SignalNotifyOne(t)
BY DEF Condvar!Call, Condvar!Progress, CvSingleStep

LEMMA CvSingleTyped ==
  ASSUME CvIInv, NEW t \in Threads, CvSingleStep(t)
  PROVE  /\ CvTyped'
         /\ Moves(Threads, cvPc, cvPc', t) /\ Moves(Threads, cvToWake, cvToWake', t)
<1> USE DEF CvIInv, CvTyped, Condvar!Goto, CvLocations, CvInDebt, CvNotifying, Moves
<1>1. CASE Condvar!SignalAdd(t)
  <2>1. PICK n \in Counts :
          /\ cvValue' = cvValue + n
          /\ IF cvValue > 0
               THEN UNCHANGED <<cvPc, cvToWake>>
               ELSE /\ cvToWake' = [cvToWake EXCEPT ![t] =
                                    IF (-cvValue) % HCRange <= n THEN (-cvValue) % HCRange ELSE n]
                    /\ Condvar!Goto(t, "deposit")
          /\ UNCHANGED <<cvWaiters, cvToRelease>>
    BY <1>1 DEF Condvar!SignalAdd
  <2>2. n \in Nat
    BY Setting
  <2>3. cvValue <= 0 =>
          (IF (-cvValue) % HCRange <= n THEN (-cvValue) % HCRange ELSE n) \in 0..HCRange
    <3> SUFFICES ASSUME cvValue <= 0
                 PROVE  (IF -cvValue <= n THEN -cvValue ELSE n) \in 0..HCRange
      BY CvDebtCast
    <3>1. -cvValue \in 0..HCRange
      BY CvDebtCast
    <3> QED
      BY <2>2, <3>1, Setting
  <2> QED
    BY <2>1, <2>2, <2>3
<1>2. CASE Condvar!SignalDeposit(t) \/ Condvar!SignalChoose(t) \/ Condvar!SignalNotified(t)
  BY <1>2 DEF Condvar!SignalDeposit, Condvar!SignalChoose, Condvar!SignalNotified
<1>3. CASE Condvar!WaitBegin(t) \/ Condvar!SpinTake(t) \/ Condvar!SpinGiveUp(t)
          \/ Condvar!WaitSub(t) \/ Condvar!SpuriousWake(t)
  BY <1>3 DEF Condvar!WaitBegin, Condvar!SpinTake, Condvar!SpinGiveUp, Condvar!WaitSub,
     Condvar!SpuriousWake
<1>4. CASE Condvar!WaitEnter(t)
  BY <1>4 DEF Condvar!WaitEnter
<1>5. CASE Condvar!WaitRecheck(t)
  <2>1. cvWaiters > 0
    <3>1. t \in CvAt(CvRegistered)
      BY <1>5 DEF Condvar!WaitRecheck, CvAt, Where, CvRegistered
    <3> QED
      BY <3>1, CvCountTypes DEF CvWaitersExact
  <2> QED
    BY <1>5, <2>1 DEF Condvar!WaitRecheck
<1> QED
  BY <1>1, <1>2, <1>3, <1>4, <1>5 DEF CvSingleStep
--------------------------------------------------------------------------------
(* The steps of one thread *)

\* What a single step does to the counts, in the weights of the thread that moves.
LEMMA CvSingleCounts ==
  ASSUME CvIInv, NEW t \in Threads, CvSingleStep(t)
  PROVE  /\ Cardinality(CvAt(CvInDebt))' = Cardinality(CvAt(CvInDebt))
              + Weight(cvPc', t, CvInDebt, 1) - Weight(cvPc, t, CvInDebt, 1)
         /\ Cardinality(CvAt(CvRegistered))' = Cardinality(CvAt(CvRegistered))
              + Weight(cvPc', t, CvRegistered, 1) - Weight(cvPc, t, CvRegistered, 1)
         /\ Cardinality(CvAt({"recheck"}))' = Cardinality(CvAt({"recheck"}))
              + Weight(cvPc', t, {"recheck"}, 1) - Weight(cvPc, t, {"recheck"}, 1)
         /\ CvPending' = CvPending
              + Weight(cvPc', t, {"deposit"}, cvToWake'[t])
                        - Weight(cvPc, t, {"deposit"}, cvToWake[t])
         /\ Cardinality(Slots(cvToWake, CvAt(CvNotifying)))' = Cardinality(Slots(cvToWake, CvAt(CvNotifying)))
              + Weight(cvPc', t, CvNotifying, cvToWake'[t])
                        - Weight(cvPc, t, CvNotifying, cvToWake[t])
<1>1. /\ \A L : CountMoves(cvPc, cvPc', t, L)
      /\ \A L : SlotsMoves(cvToWake, cvToWake', cvPc, cvPc', t, L)
  BY CvSingleTyped, CvStepCounts DEF CvIInv
<1>2. /\ CountMoves(cvPc, cvPc', t, CvInDebt) /\ CountMoves(cvPc, cvPc', t, CvRegistered)
      /\ CountMoves(cvPc, cvPc', t, {"recheck"})
      /\ SlotsMoves(cvToWake, cvToWake', cvPc, cvPc', t, {"deposit"})
      /\ SlotsMoves(cvToWake, cvToWake', cvPc, cvPc', t, CvNotifying)
  BY <1>1
<1> QED
  BY <1>2 DEF CountMoves, SlotsMoves, CvAt, CvPending, CvInDebt, CvRegistered, CvNotifying

LEMMA CvSingleInv ==
  ASSUME CvIInv, NEW t \in Threads, CvSingleStep(t)
  PROVE  CvIInv'
<1> DEFINE D == Cardinality(CvAt(CvInDebt))
           R == Cardinality(CvAt(CvRegistered))
           K == Cardinality(CvAt({"recheck"}))
           P == CvPending
           N == Cardinality(Slots(cvToWake, CvAt(CvNotifying)))
<1>1. /\ D' = D + Weight(cvPc', t, CvInDebt, 1) - Weight(cvPc, t, CvInDebt, 1)
      /\ R' = R + Weight(cvPc', t, CvRegistered, 1) - Weight(cvPc, t, CvRegistered, 1)
      /\ K' = K + Weight(cvPc', t, {"recheck"}, 1) - Weight(cvPc, t, {"recheck"}, 1)
      /\ P' = P + Weight(cvPc', t, {"deposit"}, cvToWake'[t])
                - Weight(cvPc, t, {"deposit"}, cvToWake[t])
      /\ N' = N + Weight(cvPc', t, CvNotifying, cvToWake'[t])
                - Weight(cvPc, t, CvNotifying, cvToWake[t])
  BY CvSingleCounts
<1>2. D \in Nat /\ R \in Nat /\ K \in Nat /\ P \in Nat /\ N \in Nat
  BY CvCountTypes DEF CvIInv, CvPending
<1>3. CvTyped' /\ cvToWake[t] \in Nat /\ cvToWake'[t] \in Nat
  BY CvSingleTyped, Setting DEF CvIInv, CvTyped
<1>4. CvAt({"parked"}) = {} /\ cvPc'[t] # "parked" => CvAt({"parked"})' = {}
  BY CvSingleTyped DEF Moves, CvAt, Where, CvIInv, CvTyped
<1>5. CvAt({"parked"}) # {} => cvToRelease <= K + N
  BY DEF CvIInv, CvGrantCover
<1>6. cvWaiters = 0 => CvAt({"parked"}) = {}
  <2>1. cvWaiters = 0 => CvAt(CvRegistered) = {}
    BY CvCountTypes DEF CvIInv, CvWaitersExact
  <2> QED
    BY <2>1 DEF CvAt, Where, CvRegistered
<1>7. /\ D = CvDebt + P + cvToRelease /\ cvWaiters = R
      /\ (D' = CvDebt' + P' + cvToRelease' => CvDebtExact')
      /\ (cvWaiters' = R' => CvWaitersExact')
      /\ (CvAt({"parked"})' = {} \/ cvToRelease' <= K' + N' => CvGrantCover')
  BY DEF CvIInv, CvDebtExact, CvWaitersExact, CvGrantCover
<1>20. cvPc[t] = "recheck" => K > 0
  <2>1. cvPc[t] = "recheck" => t \in CvAt({"recheck"})
    BY DEF CvAt, Where, CvIInv, CvTyped
  <2>2. K # 0 <=> CvAt({"recheck"}) # {}
    BY CvCountTypes DEF CvIInv
  <2> QED
    BY <1>2, <2>1, <2>2
<1> HIDE DEF D, R, K, P, N
<1> SUFFICES /\ D' = CvDebt' + P' + cvToRelease'
             /\ cvWaiters' = R'
             /\ CvAt({"parked"})' = {} \/ cvToRelease' <= K' + N'
  BY <1>3, <1>7 DEF CvIInv
<1> USE <1>1, <1>2, <1>3, <1>4, <1>5, <1>6, <1>7
        DEF Weight, Condvar!Goto, CvInDebt, CvRegistered, CvNotifying, CvTyped, CvIInv, CvDebt
<1>8. CASE Condvar!SignalAdd(t)
  <2>1. PICK n \in Counts :
          /\ cvPc[t] = "idle"
          /\ cvValue' = cvValue + n
          /\ IF cvValue > 0
               THEN UNCHANGED <<cvPc, cvToWake>>
               ELSE /\ cvToWake' = [cvToWake EXCEPT ![t] =
                                    IF (-cvValue) % HCRange <= n THEN (-cvValue) % HCRange ELSE n]
                    /\ Condvar!Goto(t, "deposit")
          /\ UNCHANGED <<cvWaiters, cvToRelease>>
    BY <1>8 DEF Condvar!SignalAdd
  <2>2. n \in Nat
    BY Setting
  <2>3. CASE cvValue > 0
    BY <2>1, <2>2, <2>3
  <2>4. CASE cvValue <= 0
    <3>1. cvToWake'[t] = (IF -cvValue <= n THEN -cvValue ELSE n) /\ cvPc'[t] = "deposit"
      BY <2>1, <2>4, CvDebtCast
    <3> QED
      BY <2>1, <2>2, <2>4, <3>1
  <2> QED
    BY <2>3, <2>4
<1>9. CASE Condvar!SignalDeposit(t)
  BY <1>9 DEF Condvar!SignalDeposit
<1>10. CASE Condvar!SignalChoose(t)
  BY <1>10 DEF Condvar!SignalChoose
<1>11. CASE Condvar!SignalNotified(t)
  BY <1>11 DEF Condvar!SignalNotified
<1>12. CASE Condvar!WaitBegin(t) \/ Condvar!SpinGiveUp(t) \/ Condvar!SpuriousWake(t)
  BY <1>12 DEF Condvar!WaitBegin, Condvar!SpinGiveUp, Condvar!SpuriousWake
<1>13. CASE Condvar!SpinTake(t)
  BY <1>13 DEF Condvar!SpinTake
<1>14. CASE Condvar!WaitSub(t)
  BY <1>14 DEF Condvar!WaitSub
<1>15. CASE Condvar!WaitEnter(t)
  BY <1>15 DEF Condvar!WaitEnter
<1>16. CASE Condvar!WaitRecheck(t)
  <2>1. cvPc[t] = "recheck" /\ cvValue' = cvValue /\ cvToWake' = cvToWake
    BY <1>16 DEF Condvar!WaitRecheck
  <2>2. CASE cvToRelease = 0
    <3>1. cvPc'[t] = "parked" /\ cvWaiters' = cvWaiters /\ cvToRelease' = cvToRelease
      BY <1>16, <2>2 DEF Condvar!WaitRecheck
    <3> QED
      BY <1>20, <2>1, <2>2, <3>1
  <2>3. CASE cvToRelease # 0
    <3>1. cvPc'[t] = "idle" /\ cvWaiters' = cvWaiters - 1 /\ cvToRelease' = cvToRelease - 1
      BY <1>16, <2>3 DEF Condvar!WaitRecheck
    <3> QED
      BY <2>1, <2>3, <3>1
  <2> QED
    BY <2>2, <2>3
<1> QED
  BY <1>8, <1>9, <1>10, <1>11, <1>12, <1>13, <1>14, <1>15, <1>16 DEF CvSingleStep
--------------------------------------------------------------------------------
(* The notifications *)

\* Threads that are woken stay in debt and registered.
LEMMA CvWakingKept ==
  ASSUME CvIInv, NEW t \in Threads, cvPc[t] \in CvNotifying,
         NEW l \in {"idle", "notify_one"}, NEW W \in SUBSET CvAt({"parked"}), Condvar!Waking(t, l, W)
  PROVE  /\ cvPc' \in [Threads -> CvLocations]
         /\ cvPc'[t] = l
         /\ CvAt(CvInDebt)' = CvAt(CvInDebt)
         /\ CvAt(CvRegistered)' = CvAt(CvRegistered)
         /\ CvAt({"recheck"})' = CvAt({"recheck"}) \cup W
         /\ CvAt({"parked"})' = CvAt({"parked"}) \ W
         /\ CvAt({"deposit"})' = CvAt({"deposit"})
         /\ CvAt({"spin", "sub"})' = CvAt({"spin", "sub"})
         /\ l = "notify_one" => CvAt(CvNotifying)' = CvAt(CvNotifying)
BY DEF Condvar!Waking, CvAt, Where, CvIInv, CvTyped, CvLocations, CvInDebt, CvRegistered,
   CvNotifying

LEMMA CvNotifyAllInv ==
  ASSUME CvIInv, NEW t \in Threads, Condvar!SignalNotifyAll(t)
  PROVE  CvIInv'
<1>1. /\ cvPc' \in [Threads -> CvLocations]
      /\ CvAt(CvInDebt)' = CvAt(CvInDebt) /\ CvAt(CvRegistered)' = CvAt(CvRegistered)
      /\ CvAt({"parked"})' = {} /\ CvAt({"deposit"})' = CvAt({"deposit"})
  BY CvWakingKept, CvSame DEF Condvar!SignalNotifyAll, CvNotifying
<1> QED
  BY <1>1 DEF Condvar!SignalNotifyAll, CvIInv, CvTyped, CvDebtExact, CvWaitersExact,
     CvGrantCover, CvDebt,
     CvPending

LEMMA CvNotifyOneInv ==
  ASSUME CvIInv, NEW t \in Threads, Condvar!SignalNotifyOne(t)
  PROVE  CvIInv'
<1>1. PICK W \in WokenBy(CvAt({"parked"}), 1) : Condvar!Waking(t, "notify_one", W)
  BY CvSame DEF Condvar!SignalNotifyOne
<1>2. W \in SUBSET CvAt({"parked"}) /\ (W = CvAt({"parked"}) \/ Cardinality(W) = 1)
  BY DEF WokenBy
<1>3. /\ cvPc' \in [Threads -> CvLocations] /\ cvPc'[t] = "notify_one"
      /\ CvAt(CvInDebt)' = CvAt(CvInDebt) /\ CvAt(CvRegistered)' = CvAt(CvRegistered)
      /\ CvAt({"recheck"})' = CvAt({"recheck"}) \cup W
      /\ CvAt({"parked"})' = CvAt({"parked"}) \ W
      /\ CvAt({"deposit"})' = CvAt({"deposit"}) /\ CvAt(CvNotifying)' = CvAt(CvNotifying)
  BY <1>1, <1>2, CvWakingKept DEF Condvar!SignalNotifyOne, CvNotifying
<1>4. /\ cvPc[t] = "notify_one" /\ cvToWake[t] > 0 /\ cvToWake' = [cvToWake EXCEPT ![t] = @ - 1]
      /\ UNCHANGED <<cvValue, cvWaiters, cvToRelease>>
  BY CvSame DEF Condvar!SignalNotifyOne
<1>5. /\ CvTyped'
      /\ cvToWake'[t] = cvToWake[t] - 1 /\ cvToWake[t] \in Nat
      /\ Moves(Threads, cvToWake, cvToWake', t) /\ Moves(Threads, cvPc, cvPc, t)
  BY <1>3, <1>4, Setting DEF CvIInv, CvTyped, Moves
<1>6. CvPending' = CvPending
  <2>1. \A u \in CvAt({"deposit"}) : cvToWake'[u] = cvToWake[u]
    BY <1>4 DEF CvAt, Where, CvIInv, CvTyped
  <2>2. Slots(cvToWake, CvAt({"deposit"})) = Slots(cvToWake', CvAt({"deposit"}))
    BY <2>1, SlotsSame
  <2> QED
    BY <1>3, <2>2 DEF CvPending, Slots
<1>7. CvDebtExact' /\ CvWaitersExact'
  BY <1>3, <1>4, <1>6 DEF CvIInv, CvDebtExact, CvWaitersExact, CvDebt
<1>8. CvGrantCover'
  <2>1. CASE CvAt({"parked"}) = {} \/ W = CvAt({"parked"})
    BY <1>3, <2>1 DEF CvGrantCover
  <2>2. CASE CvAt({"parked"}) # {} /\ Cardinality(W) = 1
    <3>1. SlotsMoves(cvToWake, cvToWake', cvPc, cvPc, t, CvNotifying)
      <4>1. /\ cvToWake \in [Threads -> 0..HCRange] /\ cvToWake' \in [Threads -> 0..HCRange]
            /\ cvPc \in [Threads -> CvLocations] /\ HCRange \in Nat /\ IsFiniteSet(Threads)
        BY <1>5, Setting DEF CvIInv, CvTyped
      <4> QED
        BY <1>5, <4>1, SlotsMove
    <3>2. Cardinality(Slots(cvToWake', CvAt(CvNotifying)))
            = Cardinality(Slots(cvToWake, CvAt(CvNotifying))) - 1
      BY <1>4, <1>5, <3>1, CvCountTypes DEF SlotsMoves, Weight, CvAt, CvNotifying, CvIInv
    <3>3. Slots(cvToWake, CvAt(CvNotifying))' = Slots(cvToWake', CvAt(CvNotifying))
      BY <1>3 DEF Slots
    <3>4. Cardinality(CvAt({"recheck"}) \cup W) = Cardinality(CvAt({"recheck"})) + 1
      <4>1. IsFiniteSet(CvAt({"recheck"})) /\ IsFiniteSet(W)
        <5>1. IsFiniteSet(CvAt({"recheck"})) /\ IsFiniteSet(CvAt({"parked"}))
          BY WhereFinite, Setting DEF CvAt, CvIInv, CvTyped
        <5> QED
          BY <1>2, <5>1, FS_Subset
      <4>2. CvAt({"recheck"}) \cap W = {}
        BY <1>2 DEF CvAt, Where
      <4>3. Cardinality(CvAt({"recheck"}) \cap W) = 0
        BY <4>2, FS_EmptySet
      <4>4. Cardinality(CvAt({"recheck"}) \cup W)
              = Cardinality(CvAt({"recheck"})) + Cardinality(W)
                  - Cardinality(CvAt({"recheck"}) \cap W)
        BY <4>1, FS_Union
      <4> QED
        BY <2>2, <4>3, <4>4, CvCountTypes DEF CvIInv
    <3>5. cvToRelease <= Cardinality(CvAt({"recheck"}))
              + Cardinality(Slots(cvToWake, CvAt(CvNotifying)))
      BY <2>2 DEF CvIInv, CvGrantCover
    <3>6. cvToRelease <= Cardinality(CvAt({"recheck"})) + 1
                         + Cardinality(Slots(cvToWake, CvAt(CvNotifying))) - 1
      BY <3>5, CvCountTypes DEF CvIInv, CvTyped
    <3>7. Cardinality(CvAt({"recheck"}))' = Cardinality(CvAt({"recheck"})) + 1
      BY <1>3, <3>4
    <3>8. Cardinality(Slots(cvToWake, CvAt(CvNotifying)))'
            = Cardinality(Slots(cvToWake, CvAt(CvNotifying))) - 1
      BY <3>2, <3>3
    <3>9. cvToRelease' <= Cardinality(CvAt({"recheck"}))'
                          + Cardinality(Slots(cvToWake, CvAt(CvNotifying)))'
      BY <1>4, <3>6, <3>7, <3>8, CvCountTypes DEF CvIInv, CvTyped
    <3> QED
      BY <3>9 DEF CvGrantCover
  <2> QED
    BY <1>2, <2>1, <2>2
<1> QED
  BY <1>5, <1>7, <1>8 DEF CvIInv
--------------------------------------------------------------------------------
(* The theorems *)

LEMMA CvInitIInv ==
  ASSUME Condvar!Init
  PROVE  CvIInv
<1>1. CvTyped
  BY Setting DEF Condvar!Init, CvTyped, CvLocations
<1>2. \A L : "idle" \notin L => CvAt(L) = {}
  BY DEF Condvar!Init, CvAt, Where
<1>3. /\ CvAt(CvInDebt) = {} /\ CvAt(CvRegistered) = {} /\ CvAt({"parked"}) = {}
      /\ CvAt({"deposit"}) = {}
  BY <1>2 DEF CvInDebt, CvRegistered
<1>4. CvPending = 0
  <2>1. Slots(cvToWake, {}) = {}
    BY DEF Slots
  <2> QED
    BY <1>3, <2>1, FS_EmptySet DEF CvPending
<1> QED
  BY <1>1, <1>3, <1>4, FS_EmptySet
     DEF Condvar!Init, CvIInv, CvDebtExact, CvWaitersExact, CvGrantCover, CvDebt

LEMMA CvStepInv ==
  ASSUME CvIInv, [Condvar!Next]_(Condvar!vars)
  PROVE  CvIInv'
<1>1. CASE UNCHANGED Condvar!vars
  BY <1>1 DEF Condvar!vars, CvIInv, CvTyped, CvDebtExact, CvWaitersExact, CvGrantCover, CvDebt,
     CvPending, CvAt, Slots
<1>2. ASSUME NEW t \in Threads, Condvar!Call(t) \/ Condvar!Progress(t)
      PROVE  CvIInv'
  BY <1>2, CvNotifies, CvSingleInv, CvNotifyAllInv, CvNotifyOneInv
<1> QED
  BY <1>1, <1>2 DEF Condvar!Next

\* generic_semaphore: value_, waiters_, to_release_ and the threads inside signal()
\* and wait() keep the inductive invariant.
THEOREM CvSemaphoreInvariance ==
  Condvar!SafeSpec => []CvIInv
<1>1. Condvar!Init => CvIInv
  BY CvInitIInv
<1>2. CvIInv /\ [Condvar!Next]_(Condvar!vars) => CvIInv'
  BY CvStepInv
<1> QED
  BY <1>1, <1>2, PTL DEF Condvar!SafeSpec

\* At rest the condvar semaphore has lost nothing: no grant lies in to_release_ while
\* a thread sleeps, waiters_ is the number of those that sleep, and value_ their debt.
THEOREM CvQuiescence ==
  Condvar!SafeSpec => []Condvar!QuiescentExact
<1>1. CvIInv => Condvar!QuiescentExact
  <2> SUFFICES ASSUME CvIInv, \A t \in Threads : cvPc[t] \in {"idle", "parked"}
               PROVE  /\ cvToRelease = 0
                      /\ cvWaiters = Cardinality(CvAt({"parked"}))
                      /\ cvWaiters = IF cvValue < 0 THEN -cvValue ELSE 0
    BY CvSame DEF Condvar!QuiescentExact
  <2>1. /\ CvAt(CvInDebt) = CvAt({"parked"}) /\ CvAt(CvRegistered) = CvAt({"parked"})
        /\ CvAt({"recheck"}) = {} /\ CvAt({"deposit"}) = {} /\ CvAt(CvNotifying) = {}
    BY DEF CvAt, Where, CvInDebt, CvRegistered, CvNotifying, CvIInv, CvTyped
  <2>2. CvPending = 0 /\ Cardinality(Slots(cvToWake, CvAt(CvNotifying))) = 0
    <3>1. Slots(cvToWake, {}) = {}
      BY DEF Slots
    <3> QED
      BY <2>1, <3>1, FS_EmptySet DEF CvPending
  <2>3. Cardinality(CvAt({"recheck"})) = 0
    BY <2>1, FS_EmptySet
  <2>4. Cardinality(CvAt({"parked"})) = CvDebt + cvToRelease
    BY <2>1, <2>2 DEF CvIInv, CvDebtExact, CvDebt, CvTyped
  <2>5. cvToRelease = 0
    <3>1. CASE CvAt({"parked"}) = {}
      BY <2>4, <3>1, CvCountTypes DEF CvDebt, CvIInv, CvTyped
    <3>2. CASE CvAt({"parked"}) # {}
      BY <2>2, <2>3, <3>2 DEF CvIInv, CvGrantCover, CvTyped
    <3> QED
      BY <3>1, <3>2
  <2> QED
    BY <2>1, <2>4, <2>5 DEF CvIInv, CvWaitersExact, CvDebt, CvTyped
<1> QED
  BY <1>1, CvSemaphoreInvariance, PTL
--------------------------------------------------------------------------------
(* The refinement *)

CvAbstract == INSTANCE Semaphore WITH tokens <- CvTokens, waiting <- CvWaiting

CvWaitLocs == {"spin", "sub"} \cup CvInDebt

LEMMA CvSingleRefines ==
  ASSUME CvIInv, NEW t \in Threads, CvSingleStep(t)
  PROVE  \/ t \notin CvWaiting /\ CvWaiting' = CvWaiting \cup {t} /\ CvTokens' = CvTokens
         \/ /\ t \in CvWaiting /\ CvWaiting' = CvWaiting \ {t}
            /\ CvTokens > 0 /\ CvTokens' = CvTokens - 1
         \/ \E n \in Counts : CvTokens' = CvTokens + n /\ CvWaiting' = CvWaiting
         \/ CvTokens' = CvTokens /\ CvWaiting' = CvWaiting
<1> DEFINE P == CvPending
<1>1. P' = P + Weight(cvPc', t, {"deposit"}, cvToWake'[t])
          - Weight(cvPc, t, {"deposit"}, cvToWake[t])
  BY CvSingleCounts
<1>2. P \in Nat
  BY CvCountTypes DEF CvIInv, CvPending
<1>3. cvToWake[t] \in Nat /\ cvToWake'[t] \in Nat
  BY CvSingleTyped, Setting DEF CvIInv, CvTyped
<1>4. CvWaiting = Where(cvPc, CvWaitLocs) /\ CvWaiting' = Where(cvPc', CvWaitLocs)
  BY DEF CvWaiting, CvDebtors, CvAt, Where, CvWaitLocs, CvInDebt
<1>5. /\ t \in CvWaiting <=> cvPc[t] \in CvWaitLocs
      /\ cvPc'[t] \in CvWaitLocs => CvWaiting' = CvWaiting \cup {t}
      /\ cvPc'[t] \notin CvWaitLocs => CvWaiting' = CvWaiting \ {t}
  BY <1>4, CvSingleTyped DEF Moves, Where, CvIInv, CvTyped
<1>6. (cvPc[t] \in CvWaitLocs <=> cvPc'[t] \in CvWaitLocs) => CvWaiting' = CvWaiting
  BY <1>5
<1>7. /\ CvTokens = (IF cvValue > 0 THEN cvValue ELSE 0) + P + cvToRelease
      /\ CvTokens' = (IF cvValue' > 0 THEN cvValue' ELSE 0) + P' + cvToRelease'
  BY DEF CvTokens
<1> HIDE DEF P
<1> USE <1>1, <1>2, <1>3, <1>5, <1>6, <1>7 DEF CvIInv, CvTyped, Weight, CvWaitLocs, CvInDebt, Condvar!Goto
<1>8. CASE Condvar!SignalAdd(t)
  <2>1. PICK n \in Counts :
          /\ cvPc[t] = "idle"
          /\ cvValue' = cvValue + n
          /\ IF cvValue > 0
               THEN UNCHANGED <<cvPc, cvToWake>>
               ELSE /\ cvToWake' = [cvToWake EXCEPT ![t] =
                                    IF (-cvValue) % HCRange <= n THEN (-cvValue) % HCRange ELSE n]
                    /\ Condvar!Goto(t, "deposit")
          /\ UNCHANGED <<cvWaiters, cvToRelease>>
    BY <1>8 DEF Condvar!SignalAdd
  <2>2. n \in Nat
    BY Setting
  <2>3. CvTokens' = CvTokens + n /\ CvWaiting' = CvWaiting
    <3>1. CASE cvValue > 0
      BY <2>1, <2>2, <3>1
    <3>2. CASE cvValue <= 0
      <4>1. cvToWake'[t] = (IF -cvValue <= n THEN -cvValue ELSE n) /\ cvPc'[t] = "deposit"
        BY <2>1, <3>2, CvDebtCast
      <4> QED
        BY <2>1, <2>2, <3>2, <4>1
    <3> QED
      BY <3>1, <3>2
  <2> QED
    BY <2>3
<1>9. CASE Condvar!SignalDeposit(t) \/ Condvar!SignalChoose(t) \/ Condvar!SignalNotified(t)
  BY <1>9 DEF Condvar!SignalDeposit, Condvar!SignalChoose, Condvar!SignalNotified
<1>10. CASE Condvar!WaitBegin(t) \/ Condvar!SpinGiveUp(t) \/ Condvar!SpuriousWake(t)
  BY <1>10 DEF Condvar!WaitBegin, Condvar!SpinGiveUp, Condvar!SpuriousWake
<1>11. CASE Condvar!SpinTake(t)
  BY <1>11 DEF Condvar!SpinTake
<1>12. CASE Condvar!WaitSub(t)
  BY <1>12 DEF Condvar!WaitSub
<1>13. CASE Condvar!WaitEnter(t)
  BY <1>13 DEF Condvar!WaitEnter
<1>14. CASE Condvar!WaitRecheck(t)
  BY <1>14 DEF Condvar!WaitRecheck
<1> QED
  BY <1>8, <1>9, <1>10, <1>11, <1>12, <1>13, <1>14 DEF CvSingleStep

LEMMA CvNotifyRefines ==
  ASSUME CvIInv, NEW t \in Threads, Condvar!SignalNotifyAll(t) \/ Condvar!SignalNotifyOne(t)
  PROVE  CvTokens' = CvTokens /\ CvWaiting' = CvWaiting
<1>1. PICK l \in {"idle", "notify_one"}, W \in SUBSET CvAt({"parked"}) : Condvar!Waking(t, l, W)
  BY CvSame DEF Condvar!SignalNotifyAll, Condvar!SignalNotifyOne, WokenBy
<1>2. /\ CvAt(CvInDebt)' = CvAt(CvInDebt) /\ CvAt({"deposit"})' = CvAt({"deposit"})
      /\ CvAt({"spin", "sub"})' = CvAt({"spin", "sub"})
  BY <1>1, CvWakingKept DEF Condvar!SignalNotifyAll, Condvar!SignalNotifyOne, CvNotifying
<1>3. \A u \in CvAt({"deposit"}) : cvToWake'[u] = cvToWake[u]
  BY DEF Condvar!SignalNotifyAll, Condvar!SignalNotifyOne, CvAt, Where, CvIInv, CvTyped
<1>4. CvPending' = CvPending
  BY <1>2, <1>3 DEF CvPending, Slots
<1> QED
  BY <1>2, <1>4 DEF Condvar!SignalNotifyAll, Condvar!SignalNotifyOne, CvTokens, CvWaiting,
     CvDebtors, CvInDebt

\* generic_semaphore implements the counting semaphore of semaphore.hpp: a wait()
\* takes exactly one token, and what signal() adds is neither lost nor doubled on its
\* way through value_, the pending deposits and to_release_.
THEOREM CvSemaphoreRefinement ==
  Condvar!SafeSpec => CvAbstract!SafeSpec
<1>1. Condvar!Init => CvAbstract!Init
  <2> SUFFICES ASSUME Condvar!Init PROVE CvTokens = 0 /\ CvWaiting = {}
    BY DEF CvAbstract!Init, CvTokens, CvWaiting
  <2>1. CvAt({"deposit"}) = {} /\ CvWaiting = {}
    BY DEF Condvar!Init, CvWaiting, CvDebtors, CvAt, Where
  <2>2. Slots(cvToWake, {}) = {}
    BY DEF Slots
  <2> QED
    BY <2>1, <2>2, FS_EmptySet DEF Condvar!Init, CvTokens, CvPending
<1>2. CvIInv /\ [Condvar!Next]_(Condvar!vars) => [CvAbstract!Next]_(CvAbstract!vars)
  <2> SUFFICES ASSUME CvIInv, [Condvar!Next]_(Condvar!vars)
               PROVE  [CvAbstract!Next]_(CvAbstract!vars)
    OBVIOUS
  <2> SUFFICES \/ \E t \in Threads : /\ t \notin CvWaiting /\ CvWaiting' = CvWaiting \cup {t}
                                     /\ CvTokens' = CvTokens
               \/ \E t \in Threads : /\ t \in CvWaiting /\ CvWaiting' = CvWaiting \ {t}
                                     /\ CvTokens > 0 /\ CvTokens' = CvTokens - 1
               \/ \E n \in Counts : CvTokens' = CvTokens + n /\ CvWaiting' = CvWaiting
               \/ CvTokens' = CvTokens /\ CvWaiting' = CvWaiting
    BY DEF CvAbstract!Next, CvAbstract!vars, CvAbstract!BeginWait, CvAbstract!Acquire,
           CvAbstract!SomeAcquire, CvAbstract!Signal, CvTokens, CvWaiting
  <2>1. CASE UNCHANGED Condvar!vars
    BY <2>1 DEF Condvar!vars, CvTokens, CvWaiting, CvPending, CvDebtors, CvAt
  <2>2. ASSUME NEW t \in Threads, CvSingleStep(t)
        PROVE  \/ t \notin CvWaiting /\ CvWaiting' = CvWaiting \cup {t} /\ CvTokens' = CvTokens
               \/ /\ t \in CvWaiting /\ CvWaiting' = CvWaiting \ {t}
                  /\ CvTokens > 0 /\ CvTokens' = CvTokens - 1
               \/ \E n \in Counts : CvTokens' = CvTokens + n /\ CvWaiting' = CvWaiting
               \/ CvTokens' = CvTokens /\ CvWaiting' = CvWaiting
    BY <2>2, CvSingleRefines
  <2>3. ASSUME NEW t \in Threads, Condvar!SignalNotifyAll(t) \/ Condvar!SignalNotifyOne(t)
        PROVE  CvTokens' = CvTokens /\ CvWaiting' = CvWaiting
    BY <2>3, CvNotifyRefines
  <2> QED
    BY <2>1, <2>2, <2>3, CvNotifies DEF Condvar!Next
<1> QED
  BY <1>1, <1>2, CvSemaphoreInvariance, PTL DEF Condvar!SafeSpec, CvAbstract!SafeSpec
--------------------------------------------------------------------------------
(* Either backend, as module MCSemaphore chooses it *)

\* A behaviour of either backend is one of the futex semaphore and one of the other.
LEMMA Backends == MCSpec => SafeSpec /\ Condvar!SafeSpec
<1>1. MCInit => Init /\ Condvar!Init
  BY DEF MCInit
<1>2. [FutexNext \/ CondvarNext]_<<backend, vars, cvVars>>
        => [Next]_vars /\ [Condvar!Next]_(Condvar!vars)
  BY DEF FutexNext, CondvarNext, vars, cvVars, Condvar!vars
<1> QED
  BY <1>1, <1>2, PTL DEF MCSpec, SafeSpec, Condvar!SafeSpec

\* semaphore.hpp, both backends: when no call is in progress, credits_ or to_release_
\* holds nothing, and those parked are what the value and the count of waiters say.
THEOREM EitherAtRestExact == MCSpec => []AtRestExact
  BY CvQuiescence, Backends, QuiescenceExact, PTL DEF AtRestExact

\* Both backends implement Semaphore, with the tokens and waiters of the one that was
\* chosen: a wait() of either returns with exactly one token, and none is lost.
THEOREM EitherRefinement == MCSpec => Either!SafeSpec
<1> DEFINE Tk == IF backend = "futex" THEN Tokens ELSE CvTokens
           Wt == IF backend = "futex" THEN Waiting ELSE CvWaiting
           Kept == /\ Condvar!Tokens = CvTokens
                   /\ Condvar!Waiting = CvWaiting
<1>1. ASSUME MCInit, Abstract!Init, CvAbstract!Init, Kept
      PROVE  Either!Init
  BY <1>1 DEF Abstract!Init, CvAbstract!Init, Either!Init
<1>2. ASSUME [FutexNext \/ CondvarNext]_<<backend, vars, cvVars>>,
             [Abstract!Next]_(Abstract!vars),
             [CvAbstract!Next]_(CvAbstract!vars),
             Kept, Kept'
      PROVE  [Either!Next]_(Either!vars)
  <2>1. SUFFICES \/ \E t \in Threads : t \notin Wt /\ Wt' = Wt \cup {t} /\ Tk' = Tk
                 \/ \E t \in Threads : /\ t \in Wt /\ Wt' = Wt \ {t}
                                       /\ Tk > 0 /\ Tk' = Tk - 1
                 \/ \E n \in Counts : Tk' = Tk + n /\ Wt' = Wt
                 \/ Tk' = Tk /\ Wt' = Wt
    BY <1>2 DEF Either!Next, Either!vars, Either!BeginWait, Either!Acquire,
       Either!SomeAcquire, Either!Signal, Tokens, Waiting
  <2>2. CASE UNCHANGED <<backend, vars, cvVars>>
    BY <2>2 DEF vars, cvVars, Tokens, Waiting, PendingDeposits, Depositors, Debtors, At,
       CvTokens, CvWaiting, CvPending, CvDebtors, CvAt
  <2>3. CASE FutexNext
    <3>1. Tk = Tokens /\ Tk' = Tokens' /\ Wt = Waiting /\ Wt' = Waiting'
      BY <2>3 DEF FutexNext
    <3> QED
      BY <1>2, <3>1 DEF Abstract!Next, Abstract!vars, Abstract!BeginWait, Abstract!Acquire,
         Abstract!SomeAcquire, Abstract!Signal, Tokens, Waiting
  <2>4. CASE CondvarNext
    <3>1. /\ Tk = CvTokens /\ Tk' = CvTokens'
          /\ Wt = CvWaiting /\ Wt' = CvWaiting'
      BY <2>4 DEF CondvarNext
    <3> QED
      BY <1>2, <3>1 DEF CvAbstract!Next, CvAbstract!vars,
         CvAbstract!BeginWait, CvAbstract!Acquire,
         CvAbstract!SomeAcquire, CvAbstract!Signal
  <2> QED
    BY <1>2, <2>2, <2>3, <2>4
<1> QED
  BY <1>1, <1>2, CvSame, CvSemaphoreRefinement, Backends, Refinement, PTL
  DEF MCSpec, Either!SafeSpec, Abstract!SafeSpec, CvAbstract!SafeSpec
================================================================================
