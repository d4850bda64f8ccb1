--------------------------- MODULE PlatformShopProofs ---------------------------
(***************************************************************************)
(* TLAPS proofs about promises and futures in every shop that hands them   *)
(* out, and about the spreads and the items of the Windows, Apple, OpenMP  *)
(* and single-threaded shops, for any numbers of threads and calls.        *)
(***************************************************************************)
EXTENDS PlatformShop, CountingLemmas

\* A step of the promise or the future of d, or one that touches neither.
PairStep(d) ==
  \/ PairMade(d) \/ DispatchRefused(d) \/ DispatchReturns(d)
  \/ RunWork(d) \/ Drop(d) \/ SignalTail(d) \/ Abandon(d)
  \/ \E op \in Operations : FutureCall(d, op)
  \/ ConsumerStep(d)

FutureNext == \E d \in Dispatches : PairStep(d)

SlotStates == [result : {"none"} \cup Results, tokens : Nat, waited : BOOLEAN,
               owners : Int, deleted : BOOLEAN]

Typed ==
  /\ slot \in [Dispatches -> SlotStates]
  /\ producer \in [Dispatches ->
       {"none", "queued", "leaked", "signalling", "abandoning", "done"}]
  /\ consumer \in [Dispatches -> {"start", "calling", "have", "end"} \cup Operations]
  /\ got \in [Dispatches -> {"pending", "none"} \cup Results]

\* How many of the two sides still own the slot.
Sides(d) == (IF producer[d] = "done" THEN 0 ELSE 1) + (IF consumer[d] = "end" THEN 0 ELSE 1)

\* Both sides begin together; a slot has an owner for each side that is not through,
\* and is deleted with the last; nothing has been signalled, waited for or got from
\* a slot without a result.
IInv ==
  /\ Typed
  /\ \A d \in Dispatches :
       /\ consumer[d] = "start" <=> producer[d] = "none"
       /\ slot[d].owners = Sides(d)
       /\ slot[d].deleted <=> Sides(d) = 0
       /\ producer[d] \in {"none", "queued", "leaked"} => slot[d].result = "none"
       /\ slot[d].result = "none" => /\ slot[d].tokens = 0 /\ ~slot[d].waited
                                     /\ got[d] = "pending"
       /\ got[d] # "pending" => got[d] = slot[d].result
--------------------------------------------------------------------------------
(* The shops do nothing to a pair but by its operations *)

\* An operation on what is no dispatch changes nothing.
LEMMA NoDispatch ==
  ASSUME Typed, NEW i, i \notin Dispatches,
         DispatchReturns(i) \/ Drop(i) \/ SignalTail(i) \/ Abandon(i) \/ RunWork(i)
  PROVE  UNCHANGED futureVars
BY DEF Typed, DispatchReturns, Drop, SignalTail, Abandon, RunWork, Producer, Consumer, futureVars

LEMMA Operates ==
  ASSUME Typed, NEW i,
         DispatchReturns(i) \/ Drop(i) \/ SignalTail(i) \/ Abandon(i) \/ RunWork(i)
  PROVE  [FutureNext]_futureVars
<1>1. CASE i \in Dispatches
  BY <1>1 DEF FutureNext, PairStep
<1>2. CASE i \notin Dispatches
  BY <1>2, NoDispatch
<1> QED
  BY <1>1, <1>2

LEMMA Accepts ==
  ASSUME NEW t, NEW i, NEW where, Accept(t, i, where)
  PROVE  [FutureNext]_futureVars
BY DEF Accept, Promised, FutureNext, PairStep

LEMMA ShopSteps ==
  ASSUME Typed, [Next]_vars
  PROVE  [FutureNext]_futureVars
<1>1. CASE UNCHANGED vars
  BY <1>1 DEF vars
<1>2. ASSUME NEW t \in Threads, SpreadStep(t)
      PROVE  UNCHANGED futureVars
  BY <1>2 DEF SpreadStep, Submit, SubmitRefused, ApplyHere, SpreadReturn, ChunkRuns, ChunkCountsDown
<1>3. ASSUME NEW t \in Threads, ItemStep(t)
      PROVE  [FutureNext]_futureVars
  <2>1. CASE FireSubmit(t)
    BY <2>1, Operates DEF FireSubmit, Handed
  <2>2. CASE FireRefused(t)
    BY <2>2 DEF FireRefused
  <2>3. CASE Unwind(t)
    BY <2>3, Operates DEF Unwind
  <2>4. CASE ItemRuns(t)
    BY <2>4, Operates DEF ItemRuns
  <2>5. CASE ItemDestroys(t)
    BY <2>5, Operates DEF ItemDestroys
  <2>6. CASE ItemEnds(t)
    BY <2>6, Operates DEF ItemEnds
  <2> QED
    BY <1>3, <2>1, <2>2, <2>3, <2>4, <2>5, <2>6 DEF ItemStep
<1>4. ASSUME NEW w, CallbackStarts(w)
      PROVE  UNCHANGED futureVars
  BY <1>4 DEF CallbackStarts
<1>5. ASSUME NEW t \in Threads, NEW i \in Items, Fire(t, i)
      PROVE  [FutureNext]_futureVars
  <2>1. CASE FirePacked(t, i) \/ FireHeap(t, i) \/ FireDetached(t, i) \/ FireInline(t, i)
    BY <2>1, Accepts DEF FirePacked, FireHeap, FireDetached, FireInline
  <2>2. CASE DispatchInline(t, i) \/ GenericDispatch(t, i)
    BY <2>2, Accepts DEF DispatchInline, GenericDispatch
  <2>3. CASE FireNoMemory(t, i)
    BY <2>3 DEF FireNoMemory, Promised, FutureNext, PairStep
  <2>4. CASE GenericRefused(t, i)
    BY <2>4 DEF GenericRefused, Promised, FutureNext, PairStep
  <2> QED
    BY <1>5, <2>1, <2>2, <2>3, <2>4 DEF Fire
<1>6. ASSUME NEW t \in Threads, Call(t)
      PROVE  [FutureNext]_futureVars
  <2>1. ASSUME NEW s, NEW n, NEW chunks, SpreadCall(t, s, n, chunks)
        PROVE  UNCHANGED futureVars
    BY <2>1 DEF SpreadCall
  <2> QED
    BY <1>5, <1>6, <2>1 DEF Call
<1>7. ASSUME NEW d \in Dispatches, UseFuture(d) \/ OwnerStep(d)
      PROVE  [FutureNext]_futureVars
  BY <1>7 DEF UseFuture, OwnerStep, FutureNext, PairStep
<1> QED
  BY <1>1, <1>2, <1>3, <1>4, <1>6, <1>7 DEF Next, Progress
--------------------------------------------------------------------------------
(* What the operations do to the slot *)

\* The invariant of one pair, to be kept by a step of it.
Pair(s, p, c, g) ==
  LET sides == (IF p = "done" THEN 0 ELSE 1) + (IF c = "end" THEN 0 ELSE 1)
  IN  /\ c = "start" <=> p = "none"
      /\ s.owners = sides
      /\ s.deleted <=> sides = 0
      /\ p \in {"none", "queued", "leaked"} => s.result = "none"
      /\ s.result = "none" => s.tokens = 0 /\ ~s.waited /\ g = "pending"
      /\ g # "pending" => g = s.result

LEMMA PairOf ==
  ASSUME NEW d \in Dispatches, IInv
  PROVE  Typed /\ slot[d] \in SlotStates /\ Pair(slot[d], producer[d], consumer[d], got[d])
BY DEF IInv, Pair, Sides, Typed

\* Pair d moves from one state to another, and the others stay as they are.
PairMoves(d, s, p, c, g) ==
  /\ slot' = [slot EXCEPT ![d] = s] /\ producer' = [producer EXCEPT ![d] = p]
  /\ consumer' = [consumer EXCEPT ![d] = c] /\ got' = [got EXCEPT ![d] = g]

Producers == {"none", "queued", "leaked", "signalling", "abandoning", "done"}
Consumers == {"start", "calling", "have", "end"} \cup Operations

LEMMA PairKept ==
  ASSUME IInv, NEW d \in Dispatches, NEW s \in SlotStates, NEW p \in Producers,
         NEW c \in Consumers, NEW g \in {"pending", "none"} \cup Results,
         PairMoves(d, s, p, c, g), Pair(s, p, c, g)
  PROVE  IInv'
<1>1. Typed'
  BY DEF IInv, Typed, PairMoves, Producers, Consumers
<1>2. ASSUME NEW e \in Dispatches
      PROVE  Pair(slot'[e], producer'[e], consumer'[e], got'[e])
  <2>1. CASE e = d
    BY <2>1 DEF IInv, Typed, PairMoves
  <2>2. CASE e # d
    <3>1. /\ slot'[e] = slot[e] /\ producer'[e] = producer[e]
          /\ consumer'[e] = consumer[e] /\ got'[e] = got[e]
      BY <2>2 DEF IInv, Typed, PairMoves
    <3> QED
      BY <3>1, PairOf
  <2> QED
    BY <2>1, <2>2
<1> QED
  BY <1>1, <1>2 DEF IInv, Pair, Sides

\* Completing a slot leaves all but its result and its token as they are.
LEMMA CompletedSlot ==
  ASSUME NEW s \in SlotStates, NEW r \in Results, NEW c, c = Completed(s, r)
  PROVE  /\ c \in SlotStates
         /\ c.result = r /\ c.waited = s.waited
         /\ c.owners = s.owners /\ c.deleted = s.deleted
<1>1. c = [result |-> r, tokens |-> s.tokens + 1, waited |-> s.waited,
           owners |-> s.owners, deleted |-> s.deleted]
  BY DEF SlotStates, Completed
<1>2. s.tokens + 1 \in Nat
  BY DEF SlotStates
<1> QED
  BY <1>1, <1>2 DEF SlotStates

\* Releasing it touches its owners, and deletes it with the last.
LEMMA ReleasedSlot ==
  ASSUME NEW s \in SlotStates, NEW c, c = Released(s)
  PROVE  /\ c \in SlotStates
         /\ c.result = s.result /\ c.tokens = s.tokens /\ c.waited = s.waited
         /\ c.owners = s.owners - 1 /\ (c.deleted <=> s.owners = 1)
<1>1. s.owners - 1 \in Int
  BY DEF SlotStates
<1>2. CASE s.owners = 1
  <2>1. c = [result |-> s.result, tokens |-> s.tokens, waited |-> s.waited,
             owners |-> s.owners - 1, deleted |-> TRUE]
    BY <1>2 DEF SlotStates, Released
  <2> QED
    BY <1>1, <1>2, <2>1 DEF SlotStates
<1>3. CASE s.owners # 1
  <2>1. c = [result |-> s.result, tokens |-> s.tokens, waited |-> s.waited,
             owners |-> s.owners - 1, deleted |-> FALSE]
    BY <1>3 DEF SlotStates, Released
  <2> QED
    BY <1>1, <1>3, <2>1 DEF SlotStates
<1> QED
  BY <1>2, <1>3

\* Waiting takes the token.
LEMMA WaitedSlot ==
  ASSUME NEW s \in SlotStates, s.tokens > 0,
         NEW c, c = [s EXCEPT !.tokens = s.tokens - 1, !.waited = TRUE]
  PROVE  /\ c \in SlotStates
         /\ c.result = s.result /\ c.owners = s.owners /\ c.deleted = s.deleted
<1>1. c = [result |-> s.result, tokens |-> s.tokens - 1, waited |-> TRUE,
           owners |-> s.owners, deleted |-> s.deleted]
  BY DEF SlotStates
<1>2. s.tokens - 1 \in Nat
  BY DEF SlotStates
<1> QED
  BY <1>1, <1>2 DEF SlotStates

\* What a pair that steps was like, in the terms of PairMoves.
LEMMA Before ==
  ASSUME IInv, NEW d \in Dispatches
  PROVE  /\ slot[d] \in SlotStates /\ producer[d] \in Producers /\ consumer[d] \in Consumers
         /\ got[d] \in {"pending", "none"} \cup Results
         /\ Pair(slot[d], producer[d], consumer[d], got[d])
         /\ slot = [slot EXCEPT ![d] = slot[d]]
         /\ producer = [producer EXCEPT ![d] = producer[d]]
         /\ consumer = [consumer EXCEPT ![d] = consumer[d]]
         /\ got = [got EXCEPT ![d] = got[d]]
BY PairOf DEF Typed, Producers, Consumers

LEMMA MakeInv ==
  ASSUME IInv, NEW d \in Dispatches, PairMade(d) \/ DispatchRefused(d) \/ DispatchReturns(d)
  PROVE  IInv'
<1>1. CASE PairMade(d)
  <2>1. PairMoves(d, slot[d], "queued", "calling", got[d])
    BY <1>1, Before DEF PairMade, PairMoves, Producer, Consumer
  <2>2. Pair(slot[d], "queued", "calling", got[d])
    BY <1>1, Before DEF PairMade, Pair
  <2> QED
    BY <2>1, <2>2, Before, PairKept DEF Producers, Consumers
<1>2. CASE DispatchRefused(d)
  <2>1. PairMoves(d, slot[d], "leaked", "release", got[d])
    BY <1>2, Before DEF DispatchRefused, PairMoves, Producer, Consumer
  <2>2. Pair(slot[d], "leaked", "release", got[d])
    BY <1>2, Before DEF DispatchRefused, Pair
  <2> QED
    BY <2>1, <2>2, Before, PairKept DEF Producers, Consumers, Operations
<1>3. CASE DispatchReturns(d)
  <2>1. PairMoves(d, slot[d], producer[d], "have", got[d])
    BY <1>3, Before DEF DispatchReturns, PairMoves, Consumer
  <2>2. Pair(slot[d], producer[d], "have", got[d])
    BY <1>3, Before DEF DispatchReturns, Pair
  <2> QED
    BY <2>1, <2>2, Before, PairKept DEF Consumers
<1> QED
  BY <1>1, <1>2, <1>3

LEMMA PromiseInv ==
  ASSUME IInv, NEW d \in Dispatches, RunWork(d) \/ Drop(d) \/ SignalTail(d) \/ Abandon(d)
  PROVE  IInv'
<1>1. CASE RunWork(d)
  <2>1. PICK r \in {"value", "exception"} : slot' = [slot EXCEPT ![d] = Completed(slot[d], r)]
    BY <1>1 DEF RunWork
  <2>2. r \in Results /\ r # "none"
    BY DEF Results
  <2>3. PairMoves(d, Completed(slot[d], r), "signalling", consumer[d], got[d])
    BY <1>1, <2>1, Before DEF RunWork, PairMoves, Producer
  <2>4. Pair(Completed(slot[d], r), "signalling", consumer[d], got[d])
    <3>1. slot[d].result = "none" /\ producer[d] = "queued" /\ got[d] = "pending"
      BY <1>1, Before DEF RunWork, Pair
    <3>2. /\ Completed(slot[d], r).result = r
          /\ Completed(slot[d], r).owners = slot[d].owners
          /\ Completed(slot[d], r).deleted = slot[d].deleted
      BY <2>2, Before, CompletedSlot
    <3> QED
      BY <2>2, <3>1, <3>2, Before DEF Pair
  <2>5. Completed(slot[d], r) \in SlotStates
    BY <2>2, Before, CompletedSlot
  <2> QED
    BY <2>3, <2>4, <2>5, Before, PairKept DEF Producers
<1>2. CASE Drop(d) \/ SignalTail(d)
  <2>1. PairMoves(d, slot[d], "abandoning", consumer[d], got[d])
    BY <1>2, Before DEF Drop, SignalTail, PairMoves, Producer
  <2>2. Pair(slot[d], "abandoning", consumer[d], got[d])
    BY <1>2, Before DEF Drop, SignalTail, Pair
  <2> QED
    BY <2>1, <2>2, Before, PairKept DEF Producers
<1>3. CASE Abandon(d) /\ slot[d].result = "none"
  <2> DEFINE s == Completed(slot[d], "broken_promise")
  <2>1. /\ s \in SlotStates /\ s.result = "broken_promise"
        /\ s.owners = slot[d].owners /\ s.deleted = slot[d].deleted
    BY Before, CompletedSlot DEF Results
  <2>2. PairMoves(d, s, "signalling", consumer[d], got[d])
    BY <1>3, Before DEF Abandon, PairMoves, Producer
  <2> HIDE DEF s
  <2>3. Pair(s, "signalling", consumer[d], got[d])
    BY <1>3, <2>1, Before DEF Abandon, Pair
  <2> QED
    BY <2>1, <2>2, <2>3, Before, PairKept DEF Producers
<1>4. CASE Abandon(d) /\ slot[d].result # "none"
  <2> DEFINE s == Released(slot[d])
  <2>1. /\ s \in SlotStates /\ s.result = slot[d].result
        /\ s.owners = slot[d].owners - 1 /\ (s.deleted <=> slot[d].owners = 1)
    BY Before, ReleasedSlot
  <2>2. PairMoves(d, s, "done", consumer[d], got[d])
    BY <1>4, Before DEF Abandon, PairMoves, Producer
  <2> HIDE DEF s
  <2>3. Pair(s, "done", consumer[d], got[d])
    BY <1>4, <2>1, Before DEF Abandon, Pair
  <2> QED
    BY <2>1, <2>2, <2>3, Before, PairKept DEF Producers
<1> QED
  BY <1>1, <1>2, <1>3, <1>4

LEMMA OwnerInv ==
  ASSUME IInv, NEW d \in Dispatches, ConsumerStep(d) \/ \E op \in Operations : FutureCall(d, op)
  PROVE  IInv'
<1>1. ASSUME NEW op \in Operations, FutureCall(d, op)
      PROVE  IInv'
  <2>1. PairMoves(d, slot[d], producer[d], op, got[d])
    BY <1>1, Before DEF FutureCall, PairMoves, Consumer
  <2>2. Pair(slot[d], producer[d], op, got[d])
    BY <1>1, Before DEF FutureCall, Pair, Operations
  <2> QED
    BY <2>1, <2>2, Before, PairKept DEF Consumers
<1>2. CASE FutureWait(d)
  <2> DEFINE s == [slot[d] EXCEPT !.tokens = slot[d].tokens - 1, !.waited = TRUE]
  <2>1. slot' = [slot EXCEPT ![d] = s] /\ slot[d].tokens > 0
    BY <1>2 DEF FutureWait
  <2>2. /\ s \in SlotStates /\ s.result = slot[d].result
        /\ s.owners = slot[d].owners /\ s.deleted = slot[d].deleted
    BY <2>1, Before, WaitedSlot
  <2> HIDE DEF s
  <2>3. PairMoves(d, s, producer[d], consumer[d], got[d])
    BY <1>2, <2>1, Before DEF FutureWait, PairMoves
  <2>4. slot[d].result # "none"
    BY <2>1, Before DEF Pair
  <2>5. Pair(s, producer[d], consumer[d], got[d])
    BY <2>2, <2>4, Before DEF Pair
  <2> QED
    BY <2>2, <2>3, <2>5, Before, PairKept
<1>3. CASE FutureReturn(d)
  <2>1. slot[d].result # "none" /\ slot[d].result \in Results
    BY <1>3, Before DEF FutureReturn, Pair, SlotStates
  <2>2. PICK g \in {slot[d].result, got[d]} :
          got' = [got EXCEPT ![d] = g] /\ consumer[d] \in {"wait", "get"}
    BY <1>3 DEF FutureReturn
  <2>3. PairMoves(d, slot[d], producer[d], "have", g)
    BY <1>3, <2>2, Before DEF FutureReturn, PairMoves, Consumer
  <2>4. Pair(slot[d], producer[d], "have", g)
    BY <2>1, <2>2, Before DEF Pair
  <2> QED
    BY <2>1, <2>3, <2>4, Before, PairKept DEF Consumers
<1>4. CASE FutureRelease(d)
  <2> DEFINE s == Released(slot[d])
  <2>1. /\ s \in SlotStates /\ s.result = slot[d].result
        /\ s.owners = slot[d].owners - 1 /\ (s.deleted <=> slot[d].owners = 1)
    BY Before, ReleasedSlot
  <2>2. PairMoves(d, s, producer[d], "end", got[d])
    BY <1>4, Before DEF FutureRelease, PairMoves, Consumer
  <2>3. slot[d].result # "none" /\ consumer[d] = "release"
    BY <1>4, Before DEF FutureRelease, Pair
  <2> HIDE DEF s
  <2>4. Pair(s, producer[d], "end", got[d])
    BY <2>1, <2>3, Before DEF Pair
  <2> QED
    BY <2>1, <2>2, <2>4, Before, PairKept DEF Consumers
<1> QED
  BY <1>1, <1>2, <1>3, <1>4 DEF ConsumerStep

LEMMA PairInv ==
  ASSUME IInv, NEW d \in Dispatches, PairStep(d)
  PROVE  IInv'
BY MakeInv, PromiseInv, OwnerInv DEF PairStep
--------------------------------------------------------------------------------
(* The theorems *)

\* threading/future.hpp and outcome_future.hpp under every shop: whatever the shop and
\* the owners of the futures do, the pairs keep the inductive invariant.
THEOREM FutureInvariance == Spec => []IInv
<1>1. Init => IInv
  <2> SUFFICES ASSUME Init PROVE IInv
    OBVIOUS
  <2>1. NewSlot \in SlotStates
    BY DEF NewSlot, SlotStates
  <2> QED
    BY <2>1 DEF Init, FutureInit, NewSlot, IInv, Typed, Sides
<1>2. IInv /\ [Next]_vars => IInv'
  <2> SUFFICES ASSUME IInv, [Next]_vars PROVE IInv'
    OBVIOUS
  <2>1. CASE UNCHANGED futureVars
    BY <2>1 DEF futureVars, IInv, Typed, Sides
  <2>2. CASE FutureNext
    BY <2>2, PairInv DEF FutureNext
  <2>3. [FutureNext]_futureVars
    BY ShopSteps DEF IInv
  <2> QED
    BY <2>1, <2>2, <2>3
<1> QED
  BY <1>1, <1>2, PTL DEF Spec

\* "signal() keeps touching its own memory after the point where a waiting wait() call
\* can already unblock": whoever is still to touch a slot finds it alive, and the last
\* of the two sides deletes it.
THEOREM FutureSlotLifetime == Spec => []SlotLifetime
<1>1. IInv => SlotLifetime
  <2> SUFFICES ASSUME IInv, NEW d \in Dispatches
               PROVE  /\ producer[d] \in {"queued", "signalling", "abandoning"} => ~slot[d].deleted
                      /\ consumer[d] \in Operations \cup {"have"} => ~slot[d].deleted
                      /\ producer[d] = "done" /\ consumer[d] = "end" => slot[d].deleted
    BY DEF SlotLifetime
  <2>1. slot[d].deleted <=> producer[d] = "done" /\ consumer[d] = "end"
    BY Before DEF Pair
  <2> QED
    BY <2>1 DEF Operations
<1> QED
  BY <1>1, FutureInvariance, PTL

\* get() hands out what the promise was completed with, each time it is called, and
\* not before there is a result.
THEOREM FutureGetSeesResult == Spec => []GetSeesResult
<1>1. IInv => GetSeesResult
  BY DEF IInv, GetSeesResult
<1> QED
  BY <1>1, FutureInvariance, PTL
--------------------------------------------------------------------------------
(* The shops: who has which work *)

\* What the work of a frame, of a call of fire or of the loop that submits has to itself:
\* nobody else has it as well.
Bodily == {"pool", "inline", "after", "count", "destroy", "uncount"}

Claims(f) ==
  CASE f.pc \in Bodily   -> {f.work}
    [] f.pc = "fire"     -> {Item(f.id)}
    [] f.pc = "submit"   -> {Chunk(f.id, c) : c \in {n \in Nat : n >= f.k}}
    [] OTHER             -> {}

Works == {Chunk(s, c) : s \in Spreads, c \in Nat} \cup {Item(i) : i \in Items}

Frame == [pc : Bodily, work : Works] \cup [pc : {"submit", "apply"}, id : Spreads, k : Nat \ {0}]
           \cup [pc : {"fire", "unwind"}, id : Items]

Lives == {"new", "accepted", "refused", "ran", "over"}

ShopTyped ==
  /\ stack \in [Threads -> Seq(Frame)]
  /\ queued \in SUBSET Works
  /\ life \in [Items -> Lives]
  /\ closure \in [Items -> {"none", "packed", "heap", "frame", "gone"}]
  /\ calls \in [Spreads -> {"new", "active", "returned"}]
  /\ latch \in [Spreads -> Int]
  /\ DOMAIN hits = Spreads
  /\ \A s \in Spreads : \E n \in Nat : hits[s] \in [1..n -> {0, 1}]
  /\ inFlight \in Int

\* The claims of every thread's frames.
ClaimOf     == [f \in Frame |-> Claims(f)]
ClaimsOf(p) == Holdings(Threads, ClaimOf, p)
Claimed     == ClaimsOf(stack)

\* What somebody has, or what waits.
InHand == Taken(Threads, Claimed, queued)

\* Work that waits has not run.
WaitsOK(w) ==
  IF w.kind = "chunk" THEN w.c \in DOMAIN hits[w.id] /\ hits[w.id][w.c] = 0
                      ELSE life[w.id] = "accepted"

\* Work in a frame is as far as the frame.
BodyOK(f) ==
  IF f.work.kind = "chunk"
    THEN /\ f.pc \in {"pool", "inline", "count"}
         /\ f.work.c \in DOMAIN hits[f.work.id]
         /\ hits[f.work.id][f.work.c] = IF f.pc = "count" THEN 1 ELSE 0
    ELSE /\ f.pc # "count"
         /\ life[f.work.id] = IF f.pc \in {"destroy", "uncount"} THEN "ran" ELSE "accepted"
         /\ f.pc = "uncount" => /\ closure[f.work.id] = "gone"
                                /\ f.work.id \in Dispatches => producer[f.work.id] = "done"

FrameOK(f) ==
  /\ f.pc \in Bodily => BodyOK(f)
  /\ f.pc = "submit" => /\ calls[f.id] # "new"
                        /\ \A c \in DOMAIN hits[f.id] : c >= f.k => hits[f.id][c] = 0
  /\ f.pc = "fire" => life[f.id] = "accepted"
  /\ f.pc = "unwind" => life[f.id] = "refused"

\* The chunks that have still to run, or to be counted down.
Left(s) == {c \in DOMAIN hits[s] : hits[s][c] = 0 \/ Chunk(s, c) \in InHand}

SpreadOK(s) ==
  /\ calls[s] = "new" => hits[s] = <<>>
  /\ latch[s] = Cardinality(Left(s))
  /\ calls[s] = "returned" => latch[s] = 0

Flying == {i \in Items : life[i] \in {"accepted", "ran"}}

ItemOK(i) ==
  /\ i \in Flying => Item(i) \in InHand
  /\ closure[i] = "heap" => i \in Flying
  /\ i \in Dispatches /\ life[i] = "new" => producer[i] = "none"
  /\ i \in Dispatches /\ life[i] = "over" => producer[i] = "done"

ShopInv ==
  /\ ShopTyped
  /\ Disjoint(Threads, Claimed, queued)
  /\ \A w \in queued : WaitsOK(w)
  /\ \A t \in Threads : \A p \in 1..Len(stack[t]) : FrameOK(stack[t][p])
  /\ \A s \in Spreads : SpreadOK(s)
  /\ \A i \in Items : ItemOK(i)
  /\ IsFiniteSet(Flying)
  /\ backend \in Tracked => inFlight = Cardinality(Flying)

LEMMA Shapes ==
  /\ \A f \in Frame :
       /\ f.pc \in Bodily => f.work \in Works /\ \A l \in Bodily : [f EXCEPT !.pc = l] = Body(l, f.work)
       /\ f.pc \in {"submit", "apply"} => f.id \in Spreads /\ f.k \in Nat \ {0}
       /\ f.pc \in {"fire", "unwind"} => f.id \in Items
       /\ f.pc \in Bodily \cup {"submit", "apply", "fire", "unwind"}
  /\ \A l \in Bodily, w \in Works : Body(l, w) \in Frame
  /\ \A i \in Items : FireFrame("fire", i) \in Frame /\ FireFrame("unwind", i) \in Frame
  /\ \A s \in Spreads : SpreadFrame("submit", s) \in Frame /\ SpreadFrame("apply", s) \in Frame
  /\ \A f \in Frame : f.pc = "submit" =>
       [f EXCEPT !.k = f.k + 1] = [pc |-> "submit", id |-> f.id, k |-> f.k + 1]
  /\ \A s \in Spreads, k \in Nat \ {0} : [pc |-> "submit", id |-> s, k |-> k] \in Frame
  /\ \A s \in Spreads, c \in Nat : Chunk(s, c) \in Works
  /\ \A i \in Items : Item(i) \in Works
<1> USE DEF Frame, Bodily, Works, Body, FireFrame, SpreadFrame, Chunk, Item
<1>1. ASSUME NEW f \in Frame
      PROVE  /\ f.pc \in Bodily => f.work \in Works /\ \A l \in Bodily : [f EXCEPT !.pc = l] = Body(l, f.work)
             /\ f.pc \in {"submit", "apply"} => f.id \in Spreads /\ f.k \in Nat \ {0}
             /\ f.pc \in {"fire", "unwind"} => f.id \in Items
             /\ f.pc \in Bodily \cup {"submit", "apply", "fire", "unwind"}
             /\ f.pc = "submit" =>
                  [f EXCEPT !.k = f.k + 1] = [pc |-> "submit", id |-> f.id, k |-> f.k + 1]
  <2>1. CASE f \in [pc : Bodily, work : Works]
    BY <2>1
  <2>2. CASE f \in [pc : {"submit", "apply"}, id : Spreads, k : Nat \ {0}]
    BY <2>2
  <2>3. CASE f \in [pc : {"fire", "unwind"}, id : Items]
    BY <2>3
  <2> QED
    BY <2>1, <2>2, <2>3
<1>2. \A l \in Bodily, w \in Works : Body(l, w) \in Frame
  OBVIOUS
<1>3. \A i \in Items : FireFrame("fire", i) \in Frame /\ FireFrame("unwind", i) \in Frame
  OBVIOUS
<1>4. /\ \A s \in Spreads : SpreadFrame("submit", s) \in Frame /\ SpreadFrame("apply", s) \in Frame
      /\ \A s \in Spreads, k \in Nat \ {0} : [pc |-> "submit", id |-> s, k |-> k] \in Frame
  OBVIOUS
<1> HIDE DEF Frame, Bodily, Works, Body, FireFrame, SpreadFrame, Chunk, Item
<1>5. /\ \A s \in Spreads, c \in Nat : Chunk(s, c) \in Works
      /\ \A i \in Items : Item(i) \in Works
  BY DEF Works
<1> QED
  BY <1>1, <1>2, <1>3, <1>4, <1>5

LEMMA Turns ==
  ASSUME stack \in [Threads -> Seq(Frame)], NEW t \in Threads, NEW n, n = Len(stack[t])
  PROVE  /\ stack[t] \in Seq(Frame) /\ n \in Nat
         /\ pc(t) # "idle" => /\ n \in Nat \ {0} /\ Top(t) = stack[t][n]
                              /\ Top(t) \in Frame /\ pc(t) = Top(t).pc
         /\ \A f \in Frame : Enter(t, f) => Shift(Frame, Threads, stack, stack', t, n, <<f>>)
         /\ pc(t) # "idle" =>
              /\ Leave(t) => Shift(Frame, Threads, stack, stack', t, n - 1, <<>>)
              /\ \A f \in Frame : Goto(t, f) => Shift(Frame, Threads, stack, stack', t, n - 1, <<f>>)
              /\ \A f, g \in Frame :
                   GotoEnter(t, f, g) => Shift(Frame, Threads, stack, stack', t, n - 1, <<f, g>>)
         /\ UNCHANGED stack => Shift(Frame, Threads, stack, stack', t, n, <<>>)
<1>1. PICK s : s = stack[t]
  OBVIOUS
<1>2. s \in Seq(Frame) /\ n = Len(s) /\ n \in Nat
  BY <1>1
<1>3. pc(t) # "idle" => s # <<>> /\ n \in Nat \ {0} /\ Top(t) = s[n] /\ pc(t) = Top(t).pc
  BY <1>1, <1>2 DEF pc, Top, Last
<1>4. pc(t) # "idle" => Top(t) \in Frame
  BY <1>2, <1>3, ElementOfSeq
<1>5. ASSUME NEW f \in Frame, Enter(t, f)
      PROVE  Shift(Frame, Threads, stack, stack', t, n, <<f>>)
  <2>1. stack' = [stack EXCEPT ![t] = Append(s, f)]
    BY <1>1, <1>5 DEF Enter
  <2> QED
    BY <1>1, <1>2, <2>1, Shifts
<1>6. ASSUME pc(t) # "idle", Leave(t)
      PROVE  Shift(Frame, Threads, stack, stack', t, n - 1, <<>>)
  <2>1. stack' = [stack EXCEPT ![t] = SubSeq(s, 1, n - 1)]
    BY <1>1, <1>2, <1>6 DEF Leave, Front
  <2> QED
    BY <1>1, <1>2, <1>3, <1>6, <2>1, Shifts
<1>7. ASSUME pc(t) # "idle", NEW f \in Frame, Goto(t, f)
      PROVE  Shift(Frame, Threads, stack, stack', t, n - 1, <<f>>)
  <2>1. stack' = [stack EXCEPT ![t] = Append(SubSeq(s, 1, n - 1), f)]
    BY <1>1, <1>2, <1>7 DEF Goto, Front
  <2> QED
    BY <1>1, <1>2, <1>3, <1>7, <2>1, Shifts
<1>8. ASSUME pc(t) # "idle", NEW f \in Frame, NEW g \in Frame, GotoEnter(t, f, g)
      PROVE  Shift(Frame, Threads, stack, stack', t, n - 1, <<f, g>>)
  <2>1. stack' = [stack EXCEPT ![t] = Append(Append(SubSeq(s, 1, n - 1), f), g)]
    BY <1>1, <1>2, <1>8 DEF GotoEnter, Front
  <2> QED
    BY <1>1, <1>2, <1>3, <1>8, <2>1, Shifts
<1>9. ASSUME UNCHANGED stack
      PROVE  Shift(Frame, Threads, stack, stack', t, n, <<>>)
  BY <1>1, <1>2, <1>9, Tuples DEF Shift
<1> QED
  BY <1>1, <1>2, <1>3, <1>4, <1>5, <1>6, <1>7, <1>8, <1>9

\* The claims follow the frames.
ClaimsMove(p, q, t, b, G) ==
  /\ Restacks(Threads, ClaimsOf(p), ClaimsOf(q), t, b)
  /\ Len(p[t]) = b => Claim(ClaimsOf(p), t, b + 1) = {}
  /\ Len(p[t]) = b + 1 => Claim(ClaimsOf(p), t, b + 1) = Claims(p[t][b + 1])
  /\ Claim(ClaimsOf(q), t, b + 1) = IF Len(G) = 0 THEN {} ELSE Claims(G[1])
  /\ Claim(ClaimsOf(q), t, b + 2) = IF Len(G) = 2 THEN Claims(G[2]) ELSE {}

LEMMA ShiftClaims ==
  ASSUME NEW p \in [Threads -> Seq(Frame)], NEW q, NEW t \in Threads, NEW b, NEW G, Len(G) \in 0..2,
         Shift(Frame, Threads, p, q, t, b, G)
  PROVE  ClaimsMove(p, q, t, b, G)
<1>1. HeldMoves(Threads, ClaimOf, p, q, t, b, G)
  BY ShiftHeld
<1>2. b \in Nat /\ p[t] \in Seq(Frame) /\ q[t] \in Seq(Frame) /\ Len(q[t]) = b + Len(G)
  BY DEF Shift
<1>3. Len(p[t]) = b + 1 => p[t][b + 1] \in Frame
  BY <1>2, ElementOfSeq
<1>4. ASSUME NEW i \in 1..Len(G) PROVE G[i] \in Frame
  <2>1. b + i \in 1..Len(q[t]) /\ q[t][b + i] = G[i]
    BY <1>2 DEF Shift
  <2> QED
    BY <1>2, <2>1, ElementOfSeq
<1>5. Len(p[t]) = b + 1 => ClaimOf[p[t][b + 1]] = Claims(p[t][b + 1])
  BY <1>3 DEF ClaimOf
<1>6. /\ Len(G) # 0 => ClaimOf[G[1]] = Claims(G[1])
      /\ Len(G) = 2 => ClaimOf[G[2]] = Claims(G[2])
  BY <1>4 DEF ClaimOf
<1> QED
  BY <1>1, <1>5, <1>6 DEF ClaimsMove, HeldMoves, ClaimsOf

\* A step that touches no work but that of W, and takes back nothing.
Same(w) ==
  IF w.kind = "chunk"
    THEN w.c \in DOMAIN hits[w.id] => w.c \in DOMAIN hits'[w.id] /\ hits'[w.id][w.c] = hits[w.id][w.c]
    ELSE life[w.id] \in {"accepted", "ran"} =>
           life'[w.id] = life[w.id] /\ closure'[w.id] = closure[w.id]

Steady(W) ==
  /\ \A w \in Works \ W : Same(w)
  /\ \A s \in Spreads : calls[s] # "new" => calls'[s] # "new" /\ DOMAIN hits'[s] = DOMAIN hits[s]
  /\ \A i \in Items : life[i] = "refused" => life'[i] = "refused"
  /\ \A d \in Dispatches : producer[d] = "done" => producer'[d] = "done"

LEMMA WorkShapes ==
  /\ \A w \in Works : \/ w.kind = "chunk" /\ w.id \in Spreads /\ w.c \in Nat /\ w = Chunk(w.id, w.c)
                      \/ w.kind = "item" /\ w.id \in Items /\ w = Item(w.id)
  /\ \A s, c : Chunk(s, c).kind = "chunk" /\ Chunk(s, c).id = s /\ Chunk(s, c).c = c
  /\ \A i : Item(i).kind = "item" /\ Item(i).id = i
BY DEF Works, Chunk, Item

LEMMA ClaimsAt ==
  ASSUME NEW f
  PROVE  /\ f.pc \in Bodily => Claims(f) = {f.work}
         /\ f.pc = "fire" => Claims(f) = {Item(f.id)}
         /\ f.pc = "submit" => Claims(f) = {Chunk(f.id, c) : c \in {n \in Nat : n >= f.k}}
         /\ f.pc \in {"apply", "unwind"} => Claims(f) = {}
BY DEF Claims, Bodily

LEMMA WaitKept ==
  ASSUME NEW W, Steady(W), NEW w \in Works, w \notin W, WaitsOK(w)
  PROVE  WaitsOK(w)'
BY WorkShapes DEF Steady, Same, WaitsOK

LEMMA FrameKept ==
  ASSUME ShopTyped, NEW W, Steady(W), NEW f \in Frame, FrameOK(f), Claims(f) \cap W = {}
  PROVE  FrameOK(f)'
<1>1. CASE f.pc \in Bodily
  <2>1. f.work \in Works /\ f.work \notin W
    BY <1>1, Shapes, ClaimsAt
  <2>2. Same(f.work)
    BY <2>1 DEF Steady
  <2>3. BodyOK(f)
    BY <1>1 DEF FrameOK
  <2>4. f.pc \notin {"submit", "fire", "unwind"}
    BY <1>1 DEF Bodily
  <2>5. CASE f.work.kind = "chunk"
    <3>1. BodyOK(f)'
      BY <2>2, <2>3, <2>5 DEF Same, BodyOK
    <3> QED
      BY <2>4, <3>1 DEF FrameOK
  <2>6. CASE f.work.kind # "chunk"
    <3>1. f.work.id \in Dispatches /\ producer[f.work.id] = "done" => producer'[f.work.id] = "done"
      BY DEF Steady
    <3>2. BodyOK(f)'
      BY <2>2, <2>3, <2>6, <3>1 DEF Same, BodyOK
    <3> QED
      BY <2>4, <3>2 DEF FrameOK
  <2> QED
    BY <2>5, <2>6
<1>2. CASE f.pc = "submit"
  <2>1. f.id \in Spreads /\ calls[f.id] # "new"
    BY <1>2, Shapes DEF FrameOK
  <2>2. calls'[f.id] # "new" /\ DOMAIN hits'[f.id] = DOMAIN hits[f.id]
    BY <2>1 DEF Steady
  <2>3. ASSUME NEW c \in DOMAIN hits[f.id], c >= f.k
        PROVE  hits'[f.id][c] = 0
    <3>1. c \in Nat
      BY <2>1 DEF ShopTyped
    <3>2. Chunk(f.id, c) \in Claims(f)
      BY <1>2, <2>3, <3>1, ClaimsAt
    <3>3. Chunk(f.id, c) \in Works
      BY <2>1, <3>1, Shapes
    <3>4. Same(Chunk(f.id, c))
      BY <3>2, <3>3 DEF Steady
    <3>5. hits[f.id][c] = 0
      BY <1>2, <2>3 DEF FrameOK
    <3> QED
      BY <3>4, <3>5, WorkShapes DEF Same
  <2> QED
    BY <1>2, <2>2, <2>3 DEF FrameOK, Bodily
<1>3. CASE f.pc = "fire"
  <2>1. f.id \in Items /\ Item(f.id) \in Works /\ Item(f.id) \notin W
    BY <1>3, Shapes, ClaimsAt
  <2>2. Same(Item(f.id))
    BY <2>1 DEF Steady
  <2> QED
    BY <1>3, <2>2, WorkShapes DEF Same, FrameOK, Bodily
<1>4. CASE f.pc = "unwind"
  BY <1>4, Shapes DEF FrameOK, Steady, Bodily
<1> QED
  BY <1>1, <1>2, <1>3, <1>4 DEF FrameOK

\* A step that changes who has what: old is what the frame that it takes off the stack
\* had, x and y what the frames have that it puts there, new was nobody's, gone is done
\* with.
Trade(old, x, y, new, gone) ==
  /\ new \cap InHand = {} /\ gone \subseteq old
  /\ x \cap y = {} /\ x \cap queued' = {} /\ y \cap queued' = {}
  /\ x \cup y \cup queued' = (queued \cup old \cup new) \ gone
  /\ Steady(old \cup (queued \ queued') \cup new)
  /\ \A w \in queued' \ queued : WaitsOK(w)'

\* What a step leaves alone stays as it was.
Kept(new, gone) ==
  /\ stack' \in [Threads -> Seq(Frame)]
  /\ Disjoint(Threads, Claimed', queued')
  /\ InHand' = (InHand \cup new) \ gone
  /\ \A w \in queued' : WaitsOK(w)'
  /\ (\A u \in Threads : \A i \in 1..Len(stack[u]) : FrameOK(stack[u][i]))'

Step(t, b, G, new, gone) ==
  /\ Len(G) \in 0..2 /\ Shift(Frame, Threads, stack, stack', t, b, G)
  /\ Trade(Claim(Claimed, t, b + 1), Claim(Claimed', t, b + 1), Claim(Claimed', t, b + 2), new, gone)
  /\ \A i \in 1..Len(G) : FrameOK(G[i])'

LEMMA StepKeeps ==
  ASSUME ShopInv, NEW t \in Threads, NEW b, NEW G, NEW new, NEW gone, Step(t, b, G, new, gone)
  PROVE  Kept(new, gone)
<1> PICK old, x, y : /\ old = Claim(Claimed, t, b + 1)
                     /\ x = Claim(Claimed', t, b + 1) /\ y = Claim(Claimed', t, b + 2)
  OBVIOUS
<1> USE DEF Step, Trade
<1>1. /\ b \in Nat /\ stack \in [Threads -> Seq(Frame)] /\ stack' \in [Threads -> Seq(Frame)]
      /\ Disjoint(Threads, Claimed, queued)
  BY DEF ShopInv, ShopTyped, Shift
<1>2. Restacks(Threads, Claimed, Claimed', t, b)
  BY <1>1, ShiftClaims DEF Claimed, ClaimsMove
<1>3. /\ Disjoint(Threads, Claimed', queued')
      /\ InHand' = (InHand \cup new) \ gone
  <2>1. PICK C, D, q, r : C = Claimed /\ D = Claimed' /\ q = queued /\ r = queued'
    OBVIOUS
  <2>2. Exchanges(Threads, C, D, t, b, q, r, new, gone)
    BY <1>1, <1>2, <2>1 DEF Exchanges, InHand
  <2>3. Exchanged(Threads, C, D, q, r, new, gone)
    BY <1>1, <2>2, Exchange
  <2> QED
    BY <2>1, <2>3 DEF Exchanged, InHand
<1>4. ASSUME NEW w \in queued' PROVE WaitsOK(w)'
  <2>1. CASE w \in queued
    <3>1. w \notin old
      BY <1>1, <2>1 DEF Disjoint, Claim
    <3>2. w \notin new
      BY <2>1 DEF Taken, InHand
    <3>3. w \in Works /\ WaitsOK(w)
      BY <2>1 DEF ShopInv, ShopTyped
    <3> QED
      BY <1>4, <3>1, <3>2, <3>3, WaitKept
  <2> QED
    BY <1>4, <2>1
<1>5. ASSUME NEW u \in Threads, NEW i \in 1..Len(stack'[u]), NEW g, g = stack'[u][i]
      PROVE  FrameOK(g)'
  <2>1. CASE u = t /\ i \notin 1..b
    <3>1. Len(stack'[t]) = b + Len(G)
      BY DEF Shift
    <3>2. i - b \in 1..Len(G) /\ i = b + (i - b)
      BY <1>1, <2>1, <3>1
    <3>3. g = G[i - b]
      BY <1>5, <2>1, <3>2 DEF Shift
    <3> QED
      BY <2>1, <3>2, <3>3
  <2>2. CASE u = t => i \in 1..b
    <3>1. i \in 1..Len(stack[u]) /\ stack'[u][i] = stack[u][i]
      BY <1>1, <2>2 DEF Shift
    <3>2. g = stack[u][i] /\ g \in Frame
      BY <1>1, <1>5, <3>1, ElementOfSeq
    <3>3. FrameOK(g)
      BY <3>1, <3>2 DEF ShopInv
    <3>4. i \in DOMAIN Claimed[u] /\ Claimed[u][i] = Claims(g)
      BY <3>1, <3>2 DEF Claimed, ClaimsOf, Holdings, ClaimOf
    <3>5. Claims(g) \cap old = {}
      <4>1. u # t \/ i # b + 1
        BY <1>1, <2>2
      <4> QED
        BY <1>1, <3>4, <4>1 DEF Disjoint, Claim
    <3>6. Claims(g) \cap queued = {}
      BY <1>1, <3>4 DEF Disjoint
    <3>7. Claims(g) \cap new = {}
      BY <3>4 DEF Taken, InHand
    <3>8. Claims(g) \cap (old \cup (queued \ queued') \cup new) = {}
      BY <3>5, <3>6, <3>7
    <3> QED
      BY <3>2, <3>3, <3>8, FrameKept DEF ShopInv
  <2> QED
    BY <2>1, <2>2
<1> HIDE DEF Step, Trade
<1> QED
  BY <1>1, <1>3, <1>4, <1>5 DEF Kept

\* The frame on top.
LEMMA Mine ==
  ASSUME ShopInv, NEW t \in Threads, pc(t) # "idle", NEW f, f = Top(t)
  PROVE  /\ f \in Frame /\ pc(t) = f.pc /\ FrameOK(f)
         /\ Claims(f) \cap queued = {} /\ Claims(f) \subseteq InHand
<1>1. PICK n : n = Len(stack[t])
  OBVIOUS
<1>2. n \in Nat \ {0} /\ f = stack[t][n] /\ f \in Frame /\ pc(t) = f.pc
  BY <1>1, Turns DEF ShopInv, ShopTyped
<1>3. n \in 1..Len(stack[t])
  BY <1>1, <1>2
<1>4. n \in DOMAIN Claimed[t] /\ Claimed[t][n] = Claims(f)
  BY <1>2, <1>3 DEF Claimed, ClaimsOf, Holdings, ClaimOf
<1>5. FrameOK(f)
  BY <1>2, <1>3 DEF ShopInv
<1>6. Claims(f) \cap queued = {} /\ Claims(f) \subseteq InHand
  BY <1>4 DEF ShopInv, Disjoint, InHand, Taken
<1> QED
  BY <1>2, <1>5, <1>6

\* The ways to change a stack.
LEMMA StepEnter ==
  ASSUME ShopInv, NEW t \in Threads, NEW f \in Frame, Enter(t, f), FrameOK(f)',
         NEW new, NEW gone, Trade({}, Claims(f), {}, new, gone)
  PROVE  Kept(new, gone)
<1>1. PICK b, G : b = Len(stack[t]) /\ G = <<f>>
  OBVIOUS
<1>2. Len(G) = 1 /\ G[1] = f /\ 1..Len(G) = {1}
  BY <1>1, Tuples
<1>3. stack \in [Threads -> Seq(Frame)] /\ Shift(Frame, Threads, stack, stack', t, b, G)
  BY <1>1, Turns DEF ShopInv, ShopTyped
<1>4. /\ Claim(Claimed, t, b + 1) = {} /\ Claim(Claimed', t, b + 1) = Claims(f)
      /\ Claim(Claimed', t, b + 2) = {}
  <2>1. ClaimsMove(stack, stack', t, b, G)
    BY <1>2, <1>3, ShiftClaims
  <2> QED
    BY <1>1, <1>2, <1>3, <2>1 DEF Claimed, ClaimsMove
<1>5. Step(t, b, G, new, gone)
  <2>1. Trade(Claim(Claimed, t, b + 1), Claim(Claimed', t, b + 1), Claim(Claimed', t, b + 2), new, gone)
    BY <1>4, Zenon
  <2>2. Len(G) \in 0..2 /\ \A i \in 1..Len(G) : FrameOK(G[i])'
    BY <1>2
  <2> QED
    BY <1>3, <2>1, <2>2 DEF Step
<1> QED
  BY <1>5, StepKeeps

LEMMA StepStay ==
  ASSUME ShopInv, NEW t \in Threads, UNCHANGED stack,
         NEW new, NEW gone, Trade({}, {}, {}, new, gone)
  PROVE  Kept(new, gone)
<1>1. PICK b, G : b = Len(stack[t]) /\ G = <<>>
  OBVIOUS
<1>2. Len(G) = 0 /\ 1..Len(G) = {}
  BY <1>1, Tuples
<1>3. stack \in [Threads -> Seq(Frame)] /\ Shift(Frame, Threads, stack, stack', t, b, G)
  BY <1>1, Turns DEF ShopInv, ShopTyped
<1>4. /\ Claim(Claimed, t, b + 1) = {} /\ Claim(Claimed', t, b + 1) = {}
      /\ Claim(Claimed', t, b + 2) = {}
  <2>1. ClaimsMove(stack, stack', t, b, G)
    BY <1>2, <1>3, ShiftClaims
  <2> QED
    BY <1>1, <1>2, <1>3, <2>1 DEF Claimed, ClaimsMove
<1>5. Step(t, b, G, new, gone)
  <2>1. Trade(Claim(Claimed, t, b + 1), Claim(Claimed', t, b + 1), Claim(Claimed', t, b + 2), new, gone)
    BY <1>4, Zenon
  <2>2. Len(G) \in 0..2 /\ \A i \in 1..Len(G) : FrameOK(G[i])'
    BY <1>2
  <2> QED
    BY <1>3, <2>1, <2>2 DEF Step
<1> QED
  BY <1>5, StepKeeps

LEMMA StepLeave ==
  ASSUME ShopInv, NEW t \in Threads, pc(t) # "idle", NEW f, f = Top(t), Leave(t),
         NEW new, NEW gone, Trade(Claims(f), {}, {}, new, gone)
  PROVE  Kept(new, gone)
<1>1. PICK n, b, G : n = Len(stack[t]) /\ b = n - 1 /\ G = <<>>
  OBVIOUS
<1>2. Len(G) = 0 /\ 1..Len(G) = {}
  BY <1>1, Tuples
<1>3. /\ stack \in [Threads -> Seq(Frame)] /\ Shift(Frame, Threads, stack, stack', t, b, G)
      /\ Len(stack[t]) = b + 1 /\ f = stack[t][b + 1]
  <2>1. stack \in [Threads -> Seq(Frame)]
    BY DEF ShopInv, ShopTyped
  <2>2. n \in Nat \ {0} /\ f = stack[t][n] /\ Shift(Frame, Threads, stack, stack', t, n - 1, G)
    BY <1>1, <2>1, Turns
  <2> QED
    BY <1>1, <2>1, <2>2
<1>4. /\ Claim(Claimed, t, b + 1) = Claims(f) /\ Claim(Claimed', t, b + 1) = {}
      /\ Claim(Claimed', t, b + 2) = {}
  <2>1. ClaimsMove(stack, stack', t, b, G)
    BY <1>2, <1>3, ShiftClaims
  <2> QED
    BY <1>2, <1>3, <2>1 DEF Claimed, ClaimsMove
<1>5. Step(t, b, G, new, gone)
  <2>1. Trade(Claim(Claimed, t, b + 1), Claim(Claimed', t, b + 1), Claim(Claimed', t, b + 2), new, gone)
    BY <1>4, Zenon
  <2>2. Len(G) \in 0..2 /\ \A i \in 1..Len(G) : FrameOK(G[i])'
    BY <1>2
  <2> QED
    BY <1>3, <2>1, <2>2 DEF Step
<1> QED
  BY <1>5, StepKeeps

LEMMA StepGoto ==
  ASSUME ShopInv, NEW t \in Threads, pc(t) # "idle", NEW f, f = Top(t),
         NEW g \in Frame, Goto(t, g), FrameOK(g)',
         NEW new, NEW gone, Trade(Claims(f), Claims(g), {}, new, gone)
  PROVE  Kept(new, gone)
<1>1. PICK n, b, G : n = Len(stack[t]) /\ b = n - 1 /\ G = <<g>>
  OBVIOUS
<1>2. Len(G) = 1 /\ G[1] = g /\ 1..Len(G) = {1}
  BY <1>1, Tuples
<1>3. /\ stack \in [Threads -> Seq(Frame)] /\ Shift(Frame, Threads, stack, stack', t, b, G)
      /\ Len(stack[t]) = b + 1 /\ f = stack[t][b + 1]
  <2>1. stack \in [Threads -> Seq(Frame)]
    BY DEF ShopInv, ShopTyped
  <2>2. n \in Nat \ {0} /\ f = stack[t][n] /\ Shift(Frame, Threads, stack, stack', t, n - 1, G)
    BY <1>1, <2>1, Turns
  <2> QED
    BY <1>1, <2>1, <2>2
<1>4. /\ Claim(Claimed, t, b + 1) = Claims(f) /\ Claim(Claimed', t, b + 1) = Claims(g)
      /\ Claim(Claimed', t, b + 2) = {}
  <2>1. ClaimsMove(stack, stack', t, b, G)
    BY <1>2, <1>3, ShiftClaims
  <2> QED
    BY <1>2, <1>3, <2>1 DEF Claimed, ClaimsMove
<1>5. Step(t, b, G, new, gone)
  <2>1. Trade(Claim(Claimed, t, b + 1), Claim(Claimed', t, b + 1), Claim(Claimed', t, b + 2), new, gone)
    BY <1>4, Zenon
  <2>2. Len(G) \in 0..2 /\ \A i \in 1..Len(G) : FrameOK(G[i])'
    BY <1>2
  <2> QED
    BY <1>3, <2>1, <2>2 DEF Step
<1> QED
  BY <1>5, StepKeeps

LEMMA StepGotoEnter ==
  ASSUME ShopInv, NEW t \in Threads, pc(t) # "idle", NEW f, f = Top(t),
         NEW g \in Frame, NEW h \in Frame, GotoEnter(t, g, h), FrameOK(g)', FrameOK(h)',
         NEW new, NEW gone, Trade(Claims(f), Claims(g), Claims(h), new, gone)
  PROVE  Kept(new, gone)
<1>1. PICK n, b, G : n = Len(stack[t]) /\ b = n - 1 /\ G = <<g, h>>
  OBVIOUS
<1>2. Len(G) = 2 /\ G[1] = g /\ G[2] = h /\ 1..Len(G) = {1, 2}
  BY <1>1, Tuples
<1>3. /\ stack \in [Threads -> Seq(Frame)] /\ Shift(Frame, Threads, stack, stack', t, b, G)
      /\ Len(stack[t]) = b + 1 /\ f = stack[t][b + 1]
  <2>1. stack \in [Threads -> Seq(Frame)]
    BY DEF ShopInv, ShopTyped
  <2>2. n \in Nat \ {0} /\ f = stack[t][n] /\ Shift(Frame, Threads, stack, stack', t, n - 1, G)
    BY <1>1, <2>1, Turns
  <2> QED
    BY <1>1, <2>1, <2>2
<1>4. /\ Claim(Claimed, t, b + 1) = Claims(f) /\ Claim(Claimed', t, b + 1) = Claims(g)
      /\ Claim(Claimed', t, b + 2) = Claims(h)
  <2>1. ClaimsMove(stack, stack', t, b, G)
    BY <1>2, <1>3, ShiftClaims
  <2> QED
    BY <1>2, <1>3, <2>1 DEF Claimed, ClaimsMove
<1>5. Step(t, b, G, new, gone)
  <2>1. Trade(Claim(Claimed, t, b + 1), Claim(Claimed', t, b + 1), Claim(Claimed', t, b + 2), new, gone)
    BY <1>4, Zenon
  <2>2. Len(G) \in 0..2 /\ \A i \in 1..Len(G) : FrameOK(G[i])'
    BY <1>2
  <2> QED
    BY <1>3, <2>1, <2>2 DEF Step
<1> QED
  BY <1>5, StepKeeps

\* A spread whose chunks stay in the same hands.
LEMMA SpreadKept ==
  ASSUME NEW s, SpreadOK(s), hits'[s] = hits[s], latch'[s] = latch[s],
         calls'[s] = calls[s] \/ (calls'[s] = "returned" /\ latch[s] = 0),
         \A c \in DOMAIN hits[s] : Chunk(s, c) \in InHand' <=> Chunk(s, c) \in InHand
  PROVE  SpreadOK(s)'
<1>1. Left(s)' = Left(s)
  BY DEF Left
<1> QED
  BY <1>1 DEF SpreadOK

\* Work of a set that is of one kind only.
NoChunk(S) == \A s, c : Chunk(s, c) \notin S
NoItem(S)  == \A i : Item(i) \notin S

\* The steps that are about items leave the spreads as they are, ...
LEMMA SpreadsKept ==
  ASSUME ShopInv, UNCHANGED spreading, NEW new, NEW gone, NoChunk(new), NoChunk(gone),
         Kept(new, gone)
  PROVE  \A s \in Spreads : SpreadOK(s)'
<1> SUFFICES ASSUME NEW s \in Spreads PROVE SpreadOK(s)'
  OBVIOUS
<1>1. hits'[s] = hits[s] /\ latch'[s] = latch[s] /\ calls'[s] = calls[s]
  BY DEF spreading
<1>2. \A c \in DOMAIN hits[s] : Chunk(s, c) \in InHand' <=> Chunk(s, c) \in InHand
  BY DEF Kept, NoChunk
<1>3. SpreadOK(s)
  BY DEF ShopInv
<1> QED
  BY <1>1, <1>2, <1>3, SpreadKept

\* An item that is as far as it was.
LEMMA ItemKept ==
  ASSUME NEW i, ItemOK(i), i \in Items, life'[i] = life[i],
         closure'[i] = closure[i] \/ closure'[i] = "gone",
         i \in Dispatches => /\ life[i] = "new" => producer'[i] = producer[i]
                             /\ producer[i] = "done" => producer'[i] = "done",
         Item(i) \in InHand => Item(i) \in InHand'
  PROVE  ItemOK(i)'
<1>1. i \in Flying' <=> i \in Flying
  BY DEF Flying
<1> QED
  BY <1>1 DEF ItemOK

\* ... and those that are about chunks the items.
LEMMA ItemsKept ==
  ASSUME ShopInv, UNCHANGED <<futureVars, items, backend>>, NEW new, NEW gone, NoItem(new), NoItem(gone),
         Kept(new, gone)
  PROVE  /\ \A i \in Items : ItemOK(i)'
         /\ Flying' = Flying /\ IsFiniteSet(Flying')
         /\ (backend \in Tracked => inFlight = Cardinality(Flying))'
<1>1. Flying' = Flying
  BY DEF Flying, items
<1>2. ASSUME NEW i \in Items PROVE ItemOK(i)'
  <2>1. Item(i) \in InHand' <=> Item(i) \in InHand
    BY DEF Kept, NoItem
  <2>2. ItemOK(i)
    BY DEF ShopInv
  <2>3. life'[i] = life[i] /\ closure'[i] = closure[i] /\ producer' = producer
    BY DEF items, futureVars
  <2> QED
    BY <2>1, <2>2, <2>3, ItemKept
<1>3. (backend \in Tracked => inFlight = Cardinality(Flying))'
  BY <1>1 DEF ShopInv, items
<1> QED
  BY <1>1, <1>2, <1>3 DEF ShopInv

LEMMA Kinds ==
  /\ NoChunk({}) /\ NoItem({})
  /\ \A i : NoChunk({Item(i)})
  /\ \A s, c : NoItem({Chunk(s, c)})
  /\ \A s, S : NoItem({Chunk(s, c) : c \in S})
BY DEF NoChunk, NoItem, Chunk, Item

LEMMA SteadyAll ==
  ASSUME hits' = hits, UNCHANGED <<futureVars, items>>,
         \A s \in Spreads : calls[s] # "new" => calls'[s] # "new", NEW W
  PROVE  Steady(W)
BY DEF Steady, Same, futureVars, items

LEMMA HitsLen ==
  ASSUME ShopTyped, NEW s \in Spreads
  PROVE  /\ DOMAIN hits[s] = 1..Len(hits[s]) /\ Len(hits[s]) \in Nat
         /\ hits[s] \in [1..Len(hits[s]) -> {0, 1}]
<1>1. PICK n \in Nat : hits[s] \in [1..n -> {0, 1}]
  BY DEF ShopTyped
<1>2. hits[s] \in Seq({0, 1})
  BY <1>1, IsASeq
<1>3. DOMAIN hits[s] = 1..Len(hits[s]) /\ Len(hits[s]) \in Nat
  BY <1>2, LenProperties
<1> QED
  BY <1>1, <1>3

\* The chunks that a call has still to submit.
LEMMA SubmitClaims ==
  ASSUME NEW f \in Frame, f.pc = "submit", NEW g, g = [pc |-> "submit", id |-> f.id, k |-> f.k + 1]
  PROVE  /\ g \in Frame /\ [f EXCEPT !.k = f.k + 1] = g
         /\ Claims(f) = Claims(g) \cup {Chunk(f.id, f.k)}
         /\ Chunk(f.id, f.k) \notin Claims(g)
<1>1. f.id \in Spreads /\ f.k \in Nat \ {0}
  BY Shapes
<1>2. g \in Frame /\ [f EXCEPT !.k = f.k + 1] = g
  BY <1>1, Shapes
<1>3. /\ Claims(f) = {Chunk(f.id, c) : c \in {n \in Nat : n >= f.k}}
      /\ Claims(g) = {Chunk(f.id, c) : c \in {n \in Nat : n >= f.k + 1}}
  BY ClaimsAt
<1>4. {n \in Nat : n >= f.k} = {n \in Nat : n >= f.k + 1} \cup {f.k}
  BY <1>1
<1>5. Claims(f) = Claims(g) \cup {Chunk(f.id, f.k)}
  BY <1>3, <1>4
<1>6. Chunk(f.id, f.k) \notin Claims(g)
  BY <1>1, <1>3 DEF Chunk
<1> QED
  BY <1>2, <1>5, <1>6

LEMMA SubmitInv ==
  ASSUME ShopInv, NEW t \in Threads, Submit(t)
  PROVE  ShopInv'
<1>1. PICK f : f = Top(t)
  OBVIOUS
<1>2. pc(t) = "submit" /\ f.k <= Len(hits[f.id])
  BY <1>1 DEF Submit, Submitting
<1>3. /\ f \in Frame /\ f.pc = "submit" /\ FrameOK(f)
      /\ Claims(f) \cap queued = {} /\ Claims(f) \subseteq InHand
  BY <1>1, <1>2, Mine
<1>4. f.id \in Spreads /\ f.k \in Nat \ {0}
  BY <1>3, Shapes
<1>5. PICK g, w : g = [pc |-> "submit", id |-> f.id, k |-> f.k + 1] /\ w = Chunk(f.id, f.k)
  OBVIOUS
<1>6. /\ g \in Frame /\ [f EXCEPT !.k = f.k + 1] = g
      /\ Claims(f) = Claims(g) \cup {w} /\ w \notin Claims(g)
  BY <1>3, <1>5, SubmitClaims
<1>7. Goto(t, g) /\ queued' = queued \cup {w}
  BY <1>1, <1>5, <1>6 DEF Submit
<1>8. /\ UNCHANGED <<futureVars, items, backend>> /\ UNCHANGED spreading
      /\ hits' = hits /\ calls' = calls /\ latch' = latch
  BY DEF Submit, spreading
<1>9. WaitsOK(w)'
  <2>1. f.k \in DOMAIN hits[f.id]
    BY <1>2, <1>4, HitsLen DEF ShopInv
  <2>2. hits[f.id][f.k] = 0
    BY <1>3, <1>4, <2>1 DEF FrameOK
  <2> QED
    BY <1>5, <1>8, <2>1, <2>2, WorkShapes DEF WaitsOK
<1>10. FrameOK(g)'
  <2>1. g.pc = "submit" /\ g.id = f.id /\ g.k = f.k + 1
    BY <1>5
  <2>2. calls[f.id] # "new" /\ \A c \in DOMAIN hits[f.id] : c >= f.k => hits[f.id][c] = 0
    BY <1>3 DEF FrameOK
  <2>3. \A c \in DOMAIN hits[f.id] : c >= f.k + 1 => c >= f.k
    BY <1>4, HitsLen DEF ShopInv
  <2> QED
    BY <1>8, <2>1, <2>2, <2>3 DEF FrameOK, Bodily
<1>11. Trade(Claims(f), Claims(g), {}, {}, {})
  <2>1. \A W : Steady(W)
    BY <1>8, SteadyAll
  <2> QED
    BY <1>3, <1>6, <1>7, <1>9, <2>1 DEF Trade
<1>12. Kept({}, {})
  BY <1>1, <1>2, <1>6, <1>7, <1>10, <1>11, StepGoto
<1>13. ShopTyped'
  <2>1. w \in Works
    BY <1>4, <1>5, Shapes
  <2> QED
    BY <1>7, <1>8, <1>12, <2>1 DEF ShopInv, ShopTyped, items, Kept
<1>14. \A s \in Spreads : SpreadOK(s)'
  BY <1>8, <1>12, SpreadsKept, Kinds
<1> QED
  BY <1>8, <1>12, <1>13, <1>14, ItemsKept, Kinds DEF ShopInv, Kept

LEMMA SubmitRefusedInv ==
  ASSUME ShopInv, NEW t \in Threads, SubmitRefused(t)
  PROVE  ShopInv'
<1>1. PICK f : f = Top(t)
  OBVIOUS
<1>2. pc(t) = "submit" /\ f.k <= Len(hits[f.id])
  BY <1>1 DEF SubmitRefused, Submitting
<1>3. /\ f \in Frame /\ f.pc = "submit" /\ FrameOK(f)
      /\ Claims(f) \cap queued = {} /\ Claims(f) \subseteq InHand
  BY <1>1, <1>2, Mine
<1>4. f.id \in Spreads /\ f.k \in Nat \ {0}
  BY <1>3, Shapes
<1>5. PICK g, w, h : /\ g = [pc |-> "submit", id |-> f.id, k |-> f.k + 1]
                     /\ w = Chunk(f.id, f.k) /\ h = Body("inline", w)
  OBVIOUS
<1>6. /\ g \in Frame /\ [f EXCEPT !.k = f.k + 1] = g
      /\ Claims(f) = Claims(g) \cup {w} /\ w \notin Claims(g)
  BY <1>3, <1>5, SubmitClaims
<1>7. h \in Frame /\ h.pc = "inline" /\ h.work = w /\ Claims(h) = {w} /\ w \in Works
  <2>1. h.pc = "inline" /\ h.work = w
    BY <1>5 DEF Body
  <2>2. "inline" \in Bodily
    BY DEF Bodily
  <2>3. w \in Works
    BY <1>4, <1>5, Shapes
  <2> QED
    BY <1>5, <2>1, <2>2, <2>3, Shapes, ClaimsAt
<1>8. GotoEnter(t, g, h) /\ queued' = queued
  BY <1>1, <1>5, <1>6 DEF SubmitRefused
<1>9. /\ UNCHANGED <<futureVars, items, backend>> /\ UNCHANGED spreading
      /\ hits' = hits /\ calls' = calls /\ latch' = latch
  BY DEF SubmitRefused, spreading
<1>10. FrameOK(h)'
  <2>1. f.k \in DOMAIN hits[f.id]
    BY <1>2, <1>4, HitsLen DEF ShopInv
  <2>2. hits[f.id][f.k] = 0
    BY <1>3, <1>4, <2>1 DEF FrameOK
  <2>3. w.kind = "chunk" /\ w.id = f.id /\ w.c = f.k
    BY <1>5, WorkShapes
  <2> QED
    BY <1>7, <1>9, <2>1, <2>2, <2>3 DEF FrameOK, BodyOK
<1>11. FrameOK(g)'
  <2>1. g.pc = "submit" /\ g.id = f.id /\ g.k = f.k + 1
    BY <1>5
  <2>2. calls[f.id] # "new" /\ \A c \in DOMAIN hits[f.id] : c >= f.k => hits[f.id][c] = 0
    BY <1>3 DEF FrameOK
  <2>3. \A c \in DOMAIN hits[f.id] : c >= f.k + 1 => c >= f.k
    BY <1>4, HitsLen DEF ShopInv
  <2> QED
    BY <1>9, <2>1, <2>2, <2>3 DEF FrameOK, Bodily
<1>12. Trade(Claims(f), Claims(g), Claims(h), {}, {})
  <2>1. \A W : Steady(W)
    BY <1>9, SteadyAll
  <2> QED
    BY <1>3, <1>6, <1>7, <1>8, <2>1 DEF Trade
<1>13. Kept({}, {})
  BY <1>1, <1>2, <1>6, <1>7, <1>8, <1>10, <1>11, <1>12, StepGotoEnter
<1>14. ShopTyped'
  BY <1>8, <1>9, <1>13 DEF ShopInv, ShopTyped, items, Kept
<1>15. \A s \in Spreads : SpreadOK(s)'
  BY <1>9, <1>13, SpreadsKept, Kinds
<1> QED
  BY <1>9, <1>13, <1>14, <1>15, ItemsKept, Kinds DEF ShopInv, Kept

\* A thread takes work that waits.
LEMMA TakeInv ==
  ASSUME ShopInv, NEW t \in Threads, NEW l \in {"pool", "inline"}, NEW w \in queued,
         queued' = queued \ {w}, Enter(t, Body(l, w)),
         UNCHANGED <<futureVars, backend, spreading, items>>
  PROVE  ShopInv'
<1>1. PICK h : h = Body(l, w)
  OBVIOUS
<1>2. w \in Works /\ WaitsOK(w)
  BY DEF ShopInv, ShopTyped
<1>3. h \in Frame /\ h.pc = l /\ h.work = w /\ Claims(h) = {w}
  <2>1. h.pc = l /\ h.work = w
    BY <1>1 DEF Body
  <2>2. l \in Bodily
    BY DEF Bodily
  <2> QED
    BY <1>1, <1>2, <2>1, <2>2, Shapes, ClaimsAt
<1>4. Enter(t, h)
  BY <1>1
<1>5. /\ UNCHANGED <<futureVars, items, backend>> /\ UNCHANGED spreading
      /\ hits' = hits /\ calls' = calls /\ latch' = latch
  BY DEF spreading
<1>6. life' = life /\ closure' = closure
  BY DEF items
<1>7. FrameOK(h)'
  BY <1>2, <1>3, <1>5, <1>6 DEF FrameOK, BodyOK, WaitsOK
<1>8. Trade({}, Claims(h), {}, {}, {})
  <2>1. \A W : Steady(W)
    BY <1>5, SteadyAll
  <2> QED
    BY <1>3, <2>1 DEF Trade
<1>9. Kept({}, {})
  BY <1>3, <1>4, <1>7, <1>8, StepEnter
<1>10. ShopTyped'
  BY <1>5, <1>9 DEF ShopInv, ShopTyped, items, Kept
<1>11. \A s \in Spreads : SpreadOK(s)'
  BY <1>5, <1>9, SpreadsKept, Kinds
<1> QED
  BY <1>5, <1>9, <1>10, <1>11, ItemsKept, Kinds DEF ShopInv, Kept

LEMMA ApplyHereInv ==
  ASSUME ShopInv, NEW t \in Threads, ApplyHere(t)
  PROVE  ShopInv'
<1>1. PICK c \in DOMAIN hits[Top(t).id] :
        LET w == Chunk(Top(t).id, c)
        IN  w \in queued /\ queued' = queued \ {w} /\ Enter(t, Body("inline", w))
  BY DEF ApplyHere
<1>2. UNCHANGED <<futureVars, backend, spreading, items>>
  BY DEF ApplyHere
<1>3. PICK w : w = Chunk(Top(t).id, c)
  OBVIOUS
<1>4. w \in queued /\ queued' = queued \ {w} /\ Enter(t, Body("inline", w))
  BY <1>1, <1>3
<1> QED
  BY <1>2, <1>4, TakeInv

LEMMA CallbackStartsInv ==
  ASSUME ShopInv, NEW w \in Threads, CallbackStarts(w)
  PROVE  ShopInv'
BY TakeInv DEF CallbackStarts

\* The chunks of a call that returns are all counted down; of those that it would have
\* submitted next there are none.
LEMMA SpreadReturnInv ==
  ASSUME ShopInv, NEW t \in Threads, SpreadReturn(t)
  PROVE  ShopInv'
<1>1. PICK f : f = Top(t)
  OBVIOUS
<1>2. /\ pc(t) \in {"submit", "apply"} /\ latch[f.id] = 0
      /\ pc(t) = "submit" => ~(f.k <= Len(hits[f.id]))
  BY <1>1 DEF SpreadReturn, Submitting
<1>3. /\ f \in Frame /\ f.pc = pc(t)
      /\ Claims(f) \cap queued = {} /\ Claims(f) \subseteq InHand
  BY <1>1, <1>2, Mine
<1>4. f.id \in Spreads /\ f.k \in Nat \ {0}
  BY <1>2, <1>3, Shapes
<1>5. Leave(t) /\ queued' = queued /\ calls' = [calls EXCEPT ![f.id] = "returned"]
  BY <1>1 DEF SpreadReturn
<1>6. UNCHANGED <<futureVars, items, backend>> /\ hits' = hits /\ latch' = latch
  BY DEF SpreadReturn
<1>7. /\ calls' \in [Spreads -> {"new", "active", "returned"}]
      /\ calls'[f.id] = "returned" /\ \A s \in Spreads \ {f.id} : calls'[s] = calls[s]
  BY <1>4, <1>5 DEF ShopInv, ShopTyped
<1>8. Trade(Claims(f), {}, {}, {}, Claims(f))
  <2>1. \A W : Steady(W)
    BY <1>6, <1>7, SteadyAll
  <2> QED
    BY <1>3, <1>5, <2>1 DEF Trade
<1>9. Kept({}, Claims(f))
  BY <1>1, <1>2, <1>5, <1>8, StepLeave
<1>10. ShopTyped'
  BY <1>5, <1>6, <1>7, <1>9 DEF ShopInv, ShopTyped, items, Kept
<1>11. NoItem(Claims(f)) /\ \A s \in Spreads : \A c \in DOMAIN hits[s] : Chunk(s, c) \notin Claims(f)
  <2>1. CASE f.pc = "apply"
    BY <2>1, ClaimsAt DEF NoItem
  <2>2. CASE f.pc = "submit"
    <3>1. Claims(f) = {Chunk(f.id, c) : c \in {n \in Nat : n >= f.k}}
      BY <2>2, ClaimsAt
    <3>2. NoItem(Claims(f))
      BY <3>1, WorkShapes DEF NoItem
    <3>3. ASSUME NEW s \in Spreads, NEW c \in DOMAIN hits[s], Chunk(s, c) \in Claims(f)
          PROVE  FALSE
      <4>1. s = f.id /\ c \in Nat /\ c >= f.k
        BY <3>1, <3>3, WorkShapes
      <4>2. c \in 1..Len(hits[f.id]) /\ Len(hits[f.id]) \in Nat
        BY <3>3, <4>1, HitsLen DEF ShopInv
      <4>3. f.k <= Len(hits[f.id])
        BY <1>4, <4>1, <4>2
      <4> QED
        BY <1>2, <1>3, <2>2, <4>3
    <3> QED
      BY <3>2, <3>3
  <2> QED
    BY <1>2, <1>3, <2>1, <2>2
<1>12. ASSUME NEW s \in Spreads PROVE SpreadOK(s)'
  <2>1. SpreadOK(s)
    BY DEF ShopInv
  <2>2. \A c \in DOMAIN hits[s] : Chunk(s, c) \in InHand' <=> Chunk(s, c) \in InHand
    BY <1>9, <1>11 DEF Kept
  <2>3. calls'[s] = calls[s] \/ (calls'[s] = "returned" /\ latch[s] = 0)
    BY <1>2, <1>7
  <2> QED
    BY <1>6, <2>1, <2>2, <2>3, SpreadKept
<1> QED
  BY <1>6, <1>9, <1>10, <1>11, <1>12, ItemsKept, Kinds DEF ShopInv, Kept

\* The chunk that a frame works on.
LEMMA ChunkOf ==
  ASSUME ShopInv, NEW f \in Frame, FrameOK(f), f.pc \in Bodily, f.work.kind = "chunk",
         NEW s, s = f.work.id, NEW c, c = f.work.c
  PROVE  /\ s \in Spreads /\ c \in DOMAIN hits[s] /\ f.work = Chunk(s, c) /\ f.work \in Works
         /\ hits[s][c] = IF f.pc = "count" THEN 1 ELSE 0
         /\ Claims(f) = {Chunk(s, c)}
<1>1. f.work \in Works /\ Claims(f) = {f.work}
  BY Shapes, ClaimsAt
<1>2. BodyOK(f)
  BY DEF FrameOK
<1>3. s \in Spreads /\ f.work = Chunk(s, c)
  BY <1>1, WorkShapes
<1> QED
  BY <1>1, <1>2, <1>3 DEF BodyOK

LEMMA ChunkRunsInv ==
  ASSUME ShopInv, NEW t \in Threads, ChunkRuns(t)
  PROVE  ShopInv'
<1>1. PICK f, s, c : f = Top(t) /\ s = f.work.id /\ c = f.work.c
  OBVIOUS
<1>2. pc(t) \in {"pool", "inline"} /\ f.work.kind = "chunk"
  BY <1>1 DEF ChunkRuns
<1>3. /\ f \in Frame /\ f.pc \in {"pool", "inline"} /\ FrameOK(f)
      /\ Claims(f) \cap queued = {} /\ Claims(f) \subseteq InHand
  BY <1>1, <1>2, Mine
<1>4. f.pc \in Bodily /\ f.pc # "count"
  BY <1>3 DEF Bodily
<1>5. PICK w : w = Chunk(s, c)
  OBVIOUS
<1>6. /\ s \in Spreads /\ c \in DOMAIN hits[s] /\ f.work = w /\ w \in Works
      /\ hits[s][c] = 0 /\ Claims(f) = {w}
  BY <1>1, <1>2, <1>3, <1>4, <1>5, ChunkOf
<1>7. PICK g : g = Body("count", w)
  OBVIOUS
<1>8. g \in Frame /\ g.pc = "count" /\ g.work = w /\ Claims(g) = {w} /\ Goto(t, g) /\ queued' = queued
  <2>1. "count" \in Bodily
    BY DEF Bodily
  <2>2. g.pc = "count" /\ g.work = w
    BY <1>7 DEF Body
  <2>3. [f EXCEPT !.pc = "count"] = g
    BY <1>3, <1>4, <1>6, <1>7, <2>1, Shapes
  <2>4. Goto(t, g)
    BY <1>1, <2>3 DEF ChunkRuns, GotoPc
  <2> QED
    BY <1>6, <1>7, <2>1, <2>2, <2>4, Shapes, ClaimsAt DEF ChunkRuns
<1>9. UNCHANGED <<futureVars, items, backend>> /\ latch' = latch /\ calls' = calls
  BY DEF ChunkRuns
<1>10. PICK h : h = [hits[s] EXCEPT ![c] = 1]
  OBVIOUS
<1>11. hits' = [hits EXCEPT ![s] = h]
  <2>1. hits' = [hits EXCEPT ![s] = [hits[s] EXCEPT ![c] = hits[s][c] + 1]]
    BY <1>1 DEF ChunkRuns
  <2>2. hits[s][c] + 1 = 1
    BY <1>6
  <2> QED
    BY <1>10, <2>1, <2>2, Zenon
<1>12. /\ DOMAIN hits' = Spreads /\ hits'[s] = h /\ \A v \in Spreads \ {s} : hits'[v] = hits[v]
       /\ DOMAIN h = DOMAIN hits[s] /\ h[c] = 1 /\ \A x \in DOMAIN hits[s] \ {c} : h[x] = hits[s][x]
       /\ \A n \in Nat : hits[s] \in [1..n -> {0, 1}] => h \in [1..n -> {0, 1}]
  BY <1>6, <1>10, <1>11 DEF ShopInv, ShopTyped
<1>13. ASSUME NEW W, w \in W PROVE Steady(W)
  <2>1. ASSUME NEW v \in Works \ W PROVE Same(v)
    <3>1. CASE v.kind = "chunk"
      <4>1. v.id \in Spreads /\ (v.id # s \/ v.c # c)
        BY <1>5, <1>13, <2>1, <3>1, WorkShapes
      <4> QED
        BY <1>12, <3>1, <4>1 DEF Same
    <3>2. CASE v.kind # "chunk"
      BY <1>9, <3>2 DEF Same, items
    <3> QED
      BY <3>1, <3>2
  <2>2. \A v \in Spreads : DOMAIN hits'[v] = DOMAIN hits[v]
    BY <1>12
  <2> QED
    BY <1>9, <2>1, <2>2 DEF Steady, items, futureVars
<1>14. FrameOK(g)'
  <2>1. w.kind = "chunk" /\ w.id = s /\ w.c = c
    BY <1>5, WorkShapes
  <2> QED
    BY <1>6, <1>8, <1>12, <2>1 DEF FrameOK, BodyOK
<1>15. Trade(Claims(f), Claims(g), {}, {}, {})
  BY <1>3, <1>6, <1>8, <1>13 DEF Trade
<1>16. Kept({}, {})
  BY <1>1, <1>2, <1>8, <1>14, <1>15, StepGoto
<1>17. ShopTyped'
  <2>1. \A v \in Spreads : \E n \in Nat : hits'[v] \in [1..n -> {0, 1}]
    BY <1>6, <1>12 DEF ShopInv, ShopTyped
  <2> QED
    BY <1>8, <1>9, <1>12, <1>16, <2>1 DEF ShopInv, ShopTyped, items, Kept
<1>18. ASSUME NEW v \in Spreads PROVE SpreadOK(v)'
  <2>1. SpreadOK(v)
    BY DEF ShopInv
  <2>2. InHand' = InHand /\ w \in InHand
    BY <1>3, <1>6, <1>16 DEF Kept
  <2>3. CASE v # s
    BY <1>9, <1>12, <2>1, <2>2, <2>3, SpreadKept
  <2>4. CASE v = s
    <3>1. Left(s)' = Left(s)
      BY <1>5, <1>6, <1>12, <2>2 DEF Left
    <3>2. calls[s] # "new"
      <4>1. hits[s] # <<>>
        BY <1>6
      <4> QED
        BY <2>1, <2>4, <4>1 DEF SpreadOK
    <3> QED
      BY <1>9, <2>1, <2>4, <3>1, <3>2 DEF SpreadOK
  <2> QED
    BY <2>3, <2>4
<1> QED
  BY <1>8, <1>9, <1>16, <1>17, <1>18, ItemsKept, Kinds DEF ShopInv, Kept

LEMMA LeftFinite ==
  ASSUME ShopInv, NEW s \in Spreads
  PROVE  IsFiniteSet(Left(s))
<1>1. Len(hits[s]) \in Nat /\ DOMAIN hits[s] = 1..Len(hits[s])
  BY HitsLen DEF ShopInv
<1>2. IsFiniteSet(1..Len(hits[s]))
  BY <1>1, FS_Interval
<1>3. Left(s) \subseteq 1..Len(hits[s])
  BY <1>1 DEF Left
<1> QED
  BY <1>2, <1>3, FS_Subset

LEMMA ChunkCountsDownInv ==
  ASSUME ShopInv, NEW t \in Threads, ChunkCountsDown(t)
  PROVE  ShopInv'
<1>1. PICK f, s, c : f = Top(t) /\ s = f.work.id /\ c = f.work.c
  OBVIOUS
<1>2. pc(t) = "count"
  BY DEF ChunkCountsDown
<1>3. /\ f \in Frame /\ f.pc = "count" /\ FrameOK(f)
      /\ Claims(f) \cap queued = {} /\ Claims(f) \subseteq InHand
  BY <1>1, <1>2, Mine
<1>4. f.pc \in Bodily /\ f.work.kind = "chunk"
  <2>1. f.pc \in Bodily
    BY <1>3 DEF Bodily
  <2> QED
    BY <1>3, <2>1 DEF FrameOK, BodyOK
<1>5. PICK w : w = Chunk(s, c)
  OBVIOUS
<1>6. /\ s \in Spreads /\ c \in DOMAIN hits[s] /\ f.work = w /\ w \in Works
      /\ hits[s][c] = 1 /\ Claims(f) = {w}
  BY <1>1, <1>3, <1>4, <1>5, ChunkOf
<1>7. Leave(t) /\ queued' = queued /\ latch' = [latch EXCEPT ![s] = latch[s] - 1]
  BY <1>1 DEF ChunkCountsDown
<1>8. UNCHANGED <<futureVars, items, backend>> /\ hits' = hits /\ calls' = calls
  BY DEF ChunkCountsDown
<1>9. /\ latch' \in [Spreads -> Int] /\ latch'[s] = latch[s] - 1
      /\ \A v \in Spreads \ {s} : latch'[v] = latch[v]
  BY <1>6, <1>7 DEF ShopInv, ShopTyped
<1>10. Trade(Claims(f), {}, {}, {}, {w})
  <2>1. \A W : Steady(W)
    BY <1>8, SteadyAll
  <2> QED
    BY <1>3, <1>6, <1>7, <2>1 DEF Trade
<1>11. Kept({}, {w})
  BY <1>1, <1>2, <1>7, <1>10, StepLeave
<1>12. ShopTyped'
  BY <1>7, <1>8, <1>9, <1>11 DEF ShopInv, ShopTyped, items, Kept
<1>13. ASSUME NEW v \in Spreads PROVE SpreadOK(v)'
  <2>1. SpreadOK(v)
    BY DEF ShopInv
  <2>2. InHand' = InHand \ {w} /\ w \in InHand
    BY <1>3, <1>6, <1>11 DEF Kept
  <2>3. CASE v # s
    <3>1. \A x \in DOMAIN hits[v] : Chunk(v, x) # w
      BY <1>5, <2>3, WorkShapes
    <3> QED
      BY <1>8, <1>9, <2>1, <2>2, <2>3, <3>1, SpreadKept
  <2>4. CASE v = s
    <3>1. \A x \in DOMAIN hits[s] : Chunk(s, x) = w <=> x = c
      BY <1>5, WorkShapes
    <3>2. Left(s)' = Left(s) \ {c} /\ c \in Left(s)
      BY <1>5, <1>6, <1>8, <2>2, <3>1 DEF Left
    <3>3. IsFiniteSet(Left(s))
      BY <1>6, LeftFinite
    <3>4. Cardinality(Left(s) \ {c}) = Cardinality(Left(s)) - 1
      BY <3>2, <3>3, FS_RemoveElement
    <3>5. Cardinality(Left(s)) # 0
      BY <3>2, <3>3, FS_EmptySet
    <3>6. calls[s] # "returned"
      BY <2>1, <2>4, <3>5 DEF SpreadOK
    <3> QED
      BY <1>8, <1>9, <2>1, <2>4, <3>2, <3>4, <3>6 DEF SpreadOK
  <2> QED
    BY <2>3, <2>4
<1> QED
  BY <1>5, <1>7, <1>8, <1>11, <1>12, <1>13, ItemsKept, Kinds DEF ShopInv, Kept

\* What is in hand waits, or is in a frame.
LEMMA HandOf ==
  ASSUME ShopInv, NEW w \in InHand, w \notin queued
  PROVE  \E f \in Frame : FrameOK(f) /\ w \in Claims(f)
<1>1. PICK t \in Threads : \E i \in DOMAIN Claimed[t] : w \in Claimed[t][i]
  BY DEF InHand, Taken
<1>2. PICK i \in DOMAIN Claimed[t] : w \in Claimed[t][i]
  BY <1>1
<1>3. i \in 1..Len(stack[t]) /\ Claimed[t][i] = ClaimOf[stack[t][i]]
  BY <1>2 DEF Claimed, ClaimsOf, Holdings
<1>4. stack[t][i] \in Frame /\ FrameOK(stack[t][i])
  <2>1. stack[t] \in Seq(Frame)
    BY DEF ShopInv, ShopTyped
  <2> QED
    BY <1>3, <2>1, ElementOfSeq DEF ShopInv
<1> QED
  BY <1>2, <1>3, <1>4 DEF ClaimOf

LEMMA UnusedSpread ==
  ASSUME ShopInv, NEW s \in Spreads, calls[s] = "new", NEW c, Chunk(s, c) \in InHand
  PROVE  FALSE
<1>1. DOMAIN hits[s] = {}
  BY DEF ShopInv, SpreadOK
<1>2. PICK w : w = Chunk(s, c)
  OBVIOUS
<1>3. w.kind = "chunk" /\ w.id = s /\ w.c = c
  BY <1>2, WorkShapes
<1>4. CASE w \in queued
  BY <1>1, <1>3, <1>4 DEF ShopInv, WaitsOK
<1>5. CASE w \notin queued
  <2>1. PICK f \in Frame : FrameOK(f) /\ w \in Claims(f)
    BY <1>2, <1>5, HandOf
  <2>2. CASE f.pc \in Bodily
    <3>1. f.work = w
      BY <2>1, <2>2, ClaimsAt
    <3> QED
      BY <1>1, <1>3, <2>1, <2>2, <3>1 DEF FrameOK, BodyOK
  <2>3. CASE f.pc = "fire"
    BY <1>3, <2>1, <2>3, ClaimsAt, WorkShapes
  <2>4. CASE f.pc = "submit"
    <3>1. w \in {Chunk(f.id, x) : x \in {n \in Nat : n >= f.k}}
      BY <2>1, <2>4, ClaimsAt
    <3>2. f.id = s
      BY <1>3, <3>1, WorkShapes
    <3> QED
      BY <2>1, <2>4, <3>2 DEF FrameOK
  <2>5. CASE f.pc \in {"apply", "unwind"}
    BY <2>1, <2>5, ClaimsAt
  <2> QED
    BY <2>2, <2>3, <2>4, <2>5, Shapes
<1> QED
  BY <1>4, <1>5

\* The number of the chunks of a spread is one.
LEMMA CutLen ==
  ASSUME NEW n \in Nat, NEW S, NEW f \in [1..n -> S]
  PROVE  Len(f) = n
<1>1. f \in Seq(S)
  BY IsASeq
<1>2. 1..Len(f) = 1..n /\ Len(f) \in Nat
  BY <1>1, LenProperties
<1> QED
  BY <1>2

LEMMA NumbersOfChunks ==
  ASSUME NEW n \in Iterations, NEW chunks \in NumsOfChunks(n)
  PROVE  chunks \in Nat
<1>1. n \in Nat /\ Cores \in Nat \ {0}
  BY PlatformAssumption
<1>2. Partition!Smaller(n, 4 * Cores) \in Nat
  BY <1>1 DEF Partition!Smaller
<1>3. CASE backend \in {"windows", "apple"}
  BY <1>2, <1>3 DEF NumsOfChunks, Partition!ChunksOfFour
<1>4. CASE backend = "openmp"
  <2>1. PICK team \in 1..Cores : chunks = Len(Partition!OpenMPCut(n, team))
    BY <1>4 DEF NumsOfChunks
  <2>2. PICK each : each = n \div team + 1
    OBVIOUS
  <2>3. each \in Nat \ {0}
    BY <1>1, <2>2
  <2>4. PICK m : m = (n + each - 1) \div each
    OBVIOUS
  <2>5. m \in Nat
    BY <1>1, <2>3, <2>4
  <2>6. Partition!OpenMPCut(n, team)
          = [k \in 1..m |-> Partition!Chunk((k - 1) * each, Partition!Smaller(n, k * each))]
    BY <2>2, <2>4 DEF Partition!OpenMPCut
  <2>7. Len(Partition!OpenMPCut(n, team)) = m
    <3>1. PICK S : S = {Partition!Chunk((k - 1) * each, Partition!Smaller(n, k * each)) : k \in 1..m}
      OBVIOUS
    <3>2. [k \in 1..m |-> Partition!Chunk((k - 1) * each, Partition!Smaller(n, k * each))] \in [1..m -> S]
      BY <3>1
    <3> QED
      BY <2>5, <2>6, <3>2, CutLen
  <2> QED
    BY <2>1, <2>5, <2>7
<1>5. CASE backend \notin {"windows", "apple", "openmp"}
  BY <1>1, <1>5 DEF NumsOfChunks, Smallest
<1> QED
  BY <1>3, <1>4, <1>5

LEMMA SpreadCallInv ==
  ASSUME ShopInv, NEW t \in Threads, NEW s \in Spreads, NEW chunks \in Nat, NEW n, SpreadCall(t, s, n, chunks)
  PROVE  ShopInv'
<1>1. PICK l \in {"submit", "apply"} : l = IF backend = "windows" THEN "submit" ELSE "apply"
  OBVIOUS
<1>2. PICK f, new, Q, z : /\ f = SpreadFrame(l, s)
                          /\ new = {Chunk(s, c) : c \in IF l = "submit" THEN {m \in Nat : m >= 1} ELSE 1..chunks}
                          /\ Q = IF l = "submit" THEN {} ELSE {Chunk(s, c) : c \in 1..chunks}
                          /\ z = [c \in 1..chunks |-> 0]
  OBVIOUS
<1>3. /\ Enter(t, f) /\ queued' = queued \cup Q /\ calls[s] = "new"
      /\ calls' = [calls EXCEPT ![s] = "active"]
      /\ hits' = [hits EXCEPT ![s] = z]
      /\ latch' = [latch EXCEPT ![s] = chunks]
      /\ UNCHANGED <<futureVars, items, backend>>
  BY <1>1, <1>2 DEF SpreadCall
<1>4. f \in Frame /\ f.pc = l /\ f.id = s /\ (l = "submit" => f.k = 1)
  BY <1>2, Shapes DEF SpreadFrame
<1>5. /\ calls' \in [Spreads -> {"new", "active", "returned"}] /\ calls'[s] = "active"
      /\ latch' \in [Spreads -> Int] /\ latch'[s] = chunks
      /\ DOMAIN hits' = Spreads /\ hits'[s] = z
      /\ \A v \in Spreads \ {s} : calls'[v] = calls[v] /\ latch'[v] = latch[v] /\ hits'[v] = hits[v]
  BY <1>3 DEF ShopInv, ShopTyped
<1>6. z \in [1..chunks -> {0, 1}] /\ \A c \in 1..chunks : z[c] = 0
  BY <1>2
<1>7. new \cap InHand = {}
  BY <1>2, <1>3, UnusedSpread
<1>8. DOMAIN hits[s] = {}
  BY <1>3 DEF ShopInv, SpreadOK
<1>9. ASSUME NEW W PROVE Steady(W)
  <2>1. ASSUME NEW v \in Works \ W PROVE Same(v)
    <3>1. CASE v.kind = "chunk"
      <4>1. v.id \in Spreads
        BY <3>1, WorkShapes
      <4> QED
        BY <1>5, <1>8, <3>1, <4>1 DEF Same
    <3>2. CASE v.kind # "chunk"
      BY <1>3, <3>2 DEF Same, items
    <3> QED
      BY <3>1, <3>2
  <2>2. \A v \in Spreads : calls[v] # "new" => calls'[v] # "new" /\ DOMAIN hits'[v] = DOMAIN hits[v]
    BY <1>3, <1>5
  <2> QED
    BY <1>3, <2>1, <2>2 DEF Steady, items, futureVars
<1>10. FrameOK(f)'
  BY <1>1, <1>4, <1>5, <1>6 DEF FrameOK, Bodily
<1>11. ASSUME NEW w \in Q PROVE WaitsOK(w)' /\ w \in Works
  <2>1. PICK c \in 1..chunks : w = Chunk(s, c)
    BY <1>2, <1>11
  <2>2. w.kind = "chunk" /\ w.id = s /\ w.c = c /\ w \in Works
    BY <2>1, WorkShapes, Shapes
  <2> QED
    BY <1>5, <1>6, <2>2 DEF WaitsOK
<1>12. Trade({}, Claims(f), {}, new, {})
  <2>1. CASE l = "submit"
    <3>1. Claims(f) = new
      BY <1>2, <1>4, <2>1, ClaimsAt
    <3>2. queued' = queued /\ queued \subseteq InHand
      BY <1>2, <1>3, <2>1 DEF InHand, Taken
    <3> QED
      BY <1>7, <1>9, <3>1, <3>2 DEF Trade
  <2>2. CASE l = "apply"
    <3>1. Claims(f) = {}
      BY <1>4, <2>2, ClaimsAt
    <3>2. queued' = queued \cup new /\ Q = new
      BY <1>2, <1>3, <2>2
    <3>3. \A w \in queued' \ queued : WaitsOK(w)'
      BY <1>3, <1>11
    <3> QED
      BY <1>7, <1>9, <3>1, <3>2, <3>3 DEF Trade
  <2> QED
    BY <2>1, <2>2
<1>13. Kept(new, {})
  BY <1>3, <1>4, <1>10, <1>12, StepEnter
<1>14. ShopTyped'
  <2>1. \A v \in Spreads : \E m \in Nat : hits'[v] \in [1..m -> {0, 1}]
    BY <1>5, <1>6 DEF ShopInv, ShopTyped
  <2>2. queued' \in SUBSET Works
    BY <1>3, <1>11 DEF ShopInv, ShopTyped
  <2> QED
    BY <1>3, <1>5, <1>13, <2>1, <2>2 DEF ShopInv, ShopTyped, items, Kept
<1>15. ASSUME NEW v \in Spreads PROVE SpreadOK(v)'
  <2>1. SpreadOK(v)
    BY DEF ShopInv
  <2>2. CASE v # s
    <3>1. \A c : Chunk(v, c) \notin new
      BY <1>2, <2>2, WorkShapes
    <3>2. \A c \in DOMAIN hits[v] : Chunk(v, c) \in InHand' <=> Chunk(v, c) \in InHand
      BY <1>13, <3>1 DEF Kept
    <3> QED
      BY <1>5, <2>1, <2>2, <3>2, SpreadKept
  <2>3. CASE v = s
    <3>1. Left(s)' = 1..chunks
      BY <1>5, <1>6 DEF Left
    <3>2. Cardinality(1..chunks) = chunks
      BY FS_Interval
    <3> QED
      BY <1>5, <2>3, <3>1, <3>2 DEF SpreadOK
  <2> QED
    BY <2>2, <2>3
<1>16. NoItem(new) /\ NoItem({})
  BY <1>2, WorkShapes DEF NoItem
<1> QED
  BY <1>3, <1>13, <1>14, <1>15, <1>16, ItemsKept DEF ShopInv, Kept

LEMMA UnusedItem ==
  ASSUME ShopInv, NEW i \in Items, life[i] \notin {"accepted", "ran"}, Item(i) \in InHand
  PROVE  FALSE
<1>1. PICK w : w = Item(i)
  OBVIOUS
<1>2. w.kind = "item" /\ w.id = i
  BY <1>1, WorkShapes
<1>3. CASE w \in queued
  BY <1>2, <1>3 DEF ShopInv, WaitsOK
<1>4. CASE w \notin queued
  <2>1. PICK f \in Frame : FrameOK(f) /\ w \in Claims(f)
    BY <1>1, <1>4, HandOf
  <2>2. CASE f.pc \in Bodily
    <3>1. f.work = w
      BY <2>1, <2>2, ClaimsAt
    <3> QED
      BY <1>2, <2>1, <2>2, <3>1 DEF FrameOK, BodyOK
  <2>3. CASE f.pc = "fire"
    BY <1>2, <2>1, <2>3, ClaimsAt, WorkShapes DEF FrameOK
  <2>4. CASE f.pc = "submit"
    <3>1. w \in {Chunk(f.id, x) : x \in {n \in Nat : n >= f.k}}
      BY <2>1, <2>4, ClaimsAt
    <3> QED
      BY <1>2, <3>1, WorkShapes
  <2>5. CASE f.pc \in {"apply", "unwind"}
    BY <2>1, <2>5, ClaimsAt
  <2> QED
    BY <2>2, <2>3, <2>4, <2>5, Shapes
<1> QED
  BY <1>3, <1>4

\* An operation on a pair leaves the other promises, and a promise that is through.
Promises(i) == \A d \in Dispatches : /\ d # i => producer'[d] = producer[d]
                                     /\ producer[d] = "done" => producer'[d] = "done"

LEMMA PromisesKept ==
  ASSUME IInv, NEW i,
         \/ UNCHANGED futureVars \/ (i \in Dispatches /\ (PairMade(i) \/ DispatchRefused(i)))
         \/ DispatchReturns(i) \/ RunWork(i) \/ Drop(i) \/ SignalTail(i) \/ Abandon(i)
  PROVE  Promises(i)
<1>1. producer \in [Dispatches -> {"none", "queued", "leaked", "signalling", "abandoning", "done"}]
  BY DEF IInv, Typed
<1>2. CASE UNCHANGED futureVars
  BY <1>2 DEF futureVars, Promises
<1>3. CASE i \in Dispatches /\ (PairMade(i) \/ DispatchRefused(i))
  BY <1>1, <1>3 DEF PairMade, DispatchRefused, Producer, IInv, Promises
<1>4. CASE DispatchReturns(i)
  BY <1>4 DEF DispatchReturns, Promises
<1>5. CASE RunWork(i) \/ Drop(i) \/ SignalTail(i) \/ Abandon(i)
  BY <1>1, <1>5 DEF RunWork, Drop, SignalTail, Abandon, Producer, Promises
<1> QED
  BY <1>2, <1>3, <1>4, <1>5

\* A step that is about one item at most.
Others(i) == \A j \in Items \ {i} : life'[j] = life[j] /\ closure'[j] = closure[j]

LEMMA SteadyItem ==
  ASSUME ShopInv, UNCHANGED spreading, NEW i \in Items, Others(i), Promises(i),
         life[i] = "refused" => life'[i] = "refused",
         NEW W,
         \/ Item(i) \in W \/ life[i] \notin {"accepted", "ran"}
         \/ life'[i] = life[i] /\ closure'[i] = closure[i]
  PROVE  Steady(W)
<1>1. ASSUME NEW v \in Works \ W PROVE Same(v)
  <2>1. CASE v.kind = "chunk"
    BY <2>1 DEF Same, spreading
  <2>2. CASE v.kind # "chunk"
    <3>1. v.id \in Items /\ v = Item(v.id) /\ v \notin W
      BY <1>1, <2>2, WorkShapes
    <3>2. CASE v.id # i
      BY <2>2, <3>1, <3>2 DEF Same, Others
    <3>3. CASE v.id = i
      BY <2>2, <3>1, <3>3 DEF Same
    <3> QED
      BY <3>2, <3>3
  <2> QED
    BY <2>1, <2>2
<1>2. calls' = calls /\ hits' = hits
  BY DEF spreading
<1>3. \A j \in Items : life[j] = "refused" => life'[j] = "refused"
  BY DEF Others
<1> QED
  BY <1>1, <1>2, <1>3 DEF Steady, Promises

LEMMA ItemsMoved ==
  ASSUME ShopInv, NEW i \in Items, Others(i), Promises(i),
         NEW new, NEW gone, new \subseteq {Item(i)}, gone \subseteq {Item(i)}, Kept(new, gone),
         UNCHANGED spreading
  PROVE  /\ \A j \in Items \ {i} : ItemOK(j)'
         /\ \A s \in Spreads : SpreadOK(s)'
         /\ Flying' = IF life'[i] \in {"accepted", "ran"} THEN Flying \cup {i} ELSE Flying \ {i}
         /\ IsFiniteSet(Flying') /\ Cardinality(Flying) \in Nat
         /\ i \in Flying /\ life'[i] \notin {"accepted", "ran"} =>
              Cardinality(Flying') = Cardinality(Flying) - 1
         /\ i \notin Flying /\ life'[i] \in {"accepted", "ran"} =>
              Cardinality(Flying') = Cardinality(Flying) + 1
<1>1. ASSUME NEW j \in Items \ {i} PROVE ItemOK(j)'
  <2>1. Item(j) # Item(i)
    BY <1>1 DEF Item
  <2>2. Item(j) \in InHand => Item(j) \in InHand'
    BY <2>1 DEF Kept
  <2>3. ItemOK(j)
    BY DEF ShopInv
  <2> QED
    BY <2>2, <2>3, ItemKept DEF Others, Promises
<1>2. NoChunk(new) /\ NoChunk(gone)
  BY WorkShapes DEF NoChunk
<1>3. \A s \in Spreads : SpreadOK(s)'
  BY <1>2, SpreadsKept
<1>4. Flying' = IF life'[i] \in {"accepted", "ran"} THEN Flying \cup {i} ELSE Flying \ {i}
  BY DEF Flying, Others
<1>5. IsFiniteSet(Flying)
  BY DEF ShopInv
<1>6. /\ Cardinality(Flying) \in Nat /\ IsFiniteSet(Flying \cup {i}) /\ IsFiniteSet(Flying \ {i})
      /\ i \notin Flying => Cardinality(Flying \cup {i}) = Cardinality(Flying) + 1
      /\ i \in Flying => Cardinality(Flying \ {i}) = Cardinality(Flying) - 1
  BY <1>5, FS_CardinalityType, FS_AddElement, FS_RemoveElement
<1> QED
  BY <1>1, <1>3, <1>4, <1>5, <1>6

\* An item that is accepted is counted, if the shop counts, and somebody has it.
AcceptedOf(t, i) ==
  \/ Enter(t, FireFrame("fire", i)) /\ queued' = queued
  \/ Enter(t, Body("inline", Item(i))) /\ queued' = queued
  \/ UNCHANGED stack /\ queued' = queued \cup {Item(i)}

LEMMA AcceptInv ==
  ASSUME ShopInv, IInv, NEW t \in Threads, NEW i \in Items, NEW where \in {"packed", "heap", "frame"},
         Accept(t, i, where), AcceptedOf(t, i), UNCHANGED <<backend, spreading>>,
         inFlight' = IF backend \in Tracked THEN inFlight + 1 ELSE inFlight
  PROVE  ShopInv'
<1>1. /\ life[i] = "new" /\ i \notin Flying
      /\ life' = [life EXCEPT ![i] = "accepted"] /\ closure' = [closure EXCEPT ![i] = where]
  BY DEF Accept, Flying
<1>2. /\ life' \in [Items -> Lives] /\ life'[i] = "accepted"
      /\ closure' \in [Items -> {"none", "packed", "heap", "frame", "gone"}] /\ closure'[i] = where
      /\ Others(i)
  BY <1>1 DEF ShopInv, ShopTyped, Others, Lives
<1>3. Promises(i)
  BY PromisesKept DEF Accept, Promised
<1>4. PICK w : w = Item(i)
  OBVIOUS
<1>5. w \notin InHand /\ queued \subseteq InHand /\ w \in Works /\ w.kind = "item" /\ w.id = i
  <2>1. life[i] \notin {"accepted", "ran"}
    BY <1>1
  <2> QED
    BY <1>4, <2>1, UnusedItem, Shapes, WorkShapes DEF InHand, Taken
<1>6. \A W : Steady(W)
  <2>1. life[i] \notin {"accepted", "ran", "refused"}
    BY <1>1
  <2> QED
    BY <1>2, <1>3, <2>1, SteadyItem
<1>7. Kept({w}, {})
  <2>1. ASSUME NEW f, f = FireFrame("fire", i), Enter(t, f), queued' = queued PROVE Kept({w}, {})
    <3>1. f \in Frame /\ f.pc = "fire" /\ f.id = i
      BY <2>1, Shapes DEF FireFrame
    <3>2. Claims(f) = {w}
      BY <1>4, <3>1, ClaimsAt
    <3>3. FrameOK(f)'
      BY <1>2, <3>1 DEF FrameOK, Bodily
    <3>4. Trade({}, Claims(f), {}, {w}, {})
      BY <1>5, <1>6, <2>1, <3>2 DEF Trade
    <3> QED
      BY <2>1, <3>1, <3>3, <3>4, StepEnter
  <2>2. ASSUME NEW f, f = Body("inline", w), Enter(t, f), queued' = queued PROVE Kept({w}, {})
    <3>1. f \in Frame /\ f.pc = "inline" /\ f.work = w /\ f.pc \in Bodily
      BY <1>5, <2>2, Shapes DEF Body, Bodily
    <3>2. Claims(f) = {w}
      BY <3>1, ClaimsAt
    <3>3. FrameOK(f)'
      BY <1>2, <1>5, <3>1 DEF FrameOK, BodyOK
    <3>4. Trade({}, Claims(f), {}, {w}, {})
      BY <1>5, <1>6, <2>2, <3>2 DEF Trade
    <3> QED
      BY <2>2, <3>1, <3>3, <3>4, StepEnter
  <2>3. CASE UNCHANGED stack /\ queued' = queued \cup {w}
    <3>1. WaitsOK(w)'
      BY <1>2, <1>5 DEF WaitsOK
    <3>2. Trade({}, {}, {}, {w}, {})
      BY <1>5, <1>6, <2>3, <3>1 DEF Trade
    <3> QED
      BY <2>3, <3>2, StepStay
  <2> QED
    BY <1>4, <2>1, <2>2, <2>3 DEF AcceptedOf
<1>8. /\ \A j \in Items \ {i} : ItemOK(j)'
      /\ \A s \in Spreads : SpreadOK(s)'
      /\ Flying' = Flying \cup {i} /\ IsFiniteSet(Flying')
      /\ Cardinality(Flying') = Cardinality(Flying) + 1
  BY <1>1, <1>2, <1>3, <1>4, <1>7, ItemsMoved
<1>9. ItemOK(i)'
  BY <1>2, <1>4, <1>7, <1>8 DEF ItemOK, Kept
<1>10. ShopTyped'
  <2>1. queued' \in SUBSET Works
    BY <1>4, <1>5 DEF AcceptedOf, ShopInv, ShopTyped
  <2>2. inFlight' \in Int
    BY DEF ShopInv, ShopTyped
  <2> QED
    BY <1>2, <1>7, <2>1, <2>2 DEF ShopInv, ShopTyped, spreading, Kept
<1>11. (backend \in Tracked => inFlight = Cardinality(Flying))'
  BY <1>8 DEF ShopInv
<1> QED
  BY <1>7, <1>8, <1>9, <1>10, <1>11 DEF ShopInv, Kept

LEMMA FireAcceptInv ==
  ASSUME ShopInv, IInv, NEW t \in Threads, NEW i \in Items,
         \/ FirePacked(t, i) \/ FireHeap(t, i) \/ FireDetached(t, i) \/ FireInline(t, i)
         \/ DispatchInline(t, i) \/ GenericDispatch(t, i)
  PROVE  ShopInv'
<1>1. CASE FirePacked(t, i)
  BY <1>1, AcceptInv DEF FirePacked, AcceptedOf
<1>2. CASE FireHeap(t, i)
  BY <1>2, AcceptInv DEF FireHeap, AcceptedOf
<1>3. CASE FireDetached(t, i)
  BY <1>3, AcceptInv DEF FireDetached, AcceptedOf, Tracked
<1>4. CASE FireInline(t, i)
  BY <1>4, AcceptInv DEF FireInline, AcceptedOf, Tracked
<1>5. CASE DispatchInline(t, i)
  BY <1>5, AcceptInv DEF DispatchInline, AcceptedOf, Tracked
<1>6. CASE GenericDispatch(t, i)
  BY <1>6, AcceptInv DEF GenericDispatch, AcceptedOf, Tracked
<1> QED
  BY <1>1, <1>2, <1>3, <1>4, <1>5, <1>6

\* A step after which every item is as far as it was.
LEMMA SameItems ==
  ASSUME ShopInv, NEW i \in Items, Promises(i), life[i] # "new" \/ UNCHANGED producer,
         UNCHANGED <<backend, spreading, items>>, Kept({}, {}), queued' \in SUBSET Works
  PROVE  ShopInv'
<1>1. life' = life /\ closure' = closure /\ inFlight' = inFlight
  BY DEF items
<1>2. ASSUME NEW j \in Items PROVE ItemOK(j)'
  <2>1. ItemOK(j)
    BY DEF ShopInv
  <2>2. j \in Dispatches => /\ life[j] = "new" => producer'[j] = producer[j]
                            /\ producer[j] = "done" => producer'[j] = "done"
    BY DEF Promises
  <2>3. Item(j) \in InHand => Item(j) \in InHand'
    BY DEF Kept
  <2> QED
    BY <1>1, <2>1, <2>2, <2>3, ItemKept
<1>3. \A s \in Spreads : SpreadOK(s)'
  BY SpreadsKept, Kinds
<1>4. ShopTyped'
  BY <1>1 DEF ShopInv, ShopTyped, spreading, Kept
<1>5. Flying' = Flying
  BY <1>1 DEF Flying
<1> QED
  BY <1>1, <1>2, <1>3, <1>4, <1>5 DEF ShopInv, Kept

LEMMA FireSubmitInv ==
  ASSUME ShopInv, IInv, NEW t \in Threads, FireSubmit(t)
  PROVE  ShopInv'
<1>1. PICK f, i, w : f = Top(t) /\ i = f.id /\ w = Item(i)
  OBVIOUS
<1>2. pc(t) = "fire"
  BY DEF FireSubmit
<1>3. /\ f \in Frame /\ f.pc = "fire" /\ FrameOK(f)
      /\ Claims(f) \cap queued = {} /\ Claims(f) \subseteq InHand
  BY <1>1, <1>2, Mine
<1>4. i \in Items /\ w \in Works /\ w.kind = "item" /\ w.id = i /\ Claims(f) = {w} /\ life[i] = "accepted"
  BY <1>1, <1>3, Shapes, WorkShapes, ClaimsAt DEF FrameOK
<1>5. /\ Leave(t) /\ queued' = queued \cup {w} /\ UNCHANGED <<backend, spreading, items>>
      /\ DispatchReturns(i) \/ UNCHANGED futureVars
  BY <1>1 DEF FireSubmit, Handed
<1>6. life' = life /\ closure' = closure
  BY <1>5 DEF items
<1>7. Promises(i) /\ Others(i)
  BY <1>5, <1>6, PromisesKept DEF Others
<1>8. \A W : Steady(W)
  BY <1>4, <1>5, <1>6, <1>7, SteadyItem
<1>9. WaitsOK(w)'
  BY <1>4, <1>6 DEF WaitsOK
<1>10. Trade(Claims(f), {}, {}, {}, {})
  BY <1>3, <1>4, <1>5, <1>8, <1>9 DEF Trade
<1>11. Kept({}, {})
  BY <1>1, <1>2, <1>5, <1>10, StepLeave
<1>12. queued' \in SUBSET Works
  BY <1>4, <1>5 DEF ShopInv, ShopTyped
<1> QED
  BY <1>4, <1>5, <1>7, <1>11, <1>12, SameItems

LEMMA FireRefusedInv ==
  ASSUME ShopInv, IInv, NEW t \in Threads, FireRefused(t)
  PROVE  ShopInv'
<1>1. PICK f, i, w, g : f = Top(t) /\ i = f.id /\ w = Item(i) /\ g = Body("inline", w)
  OBVIOUS
<1>2. pc(t) = "fire"
  BY DEF FireRefused
<1>3. /\ f \in Frame /\ f.pc = "fire" /\ FrameOK(f)
      /\ Claims(f) \cap queued = {} /\ Claims(f) \subseteq InHand
  BY <1>1, <1>2, Mine
<1>4. i \in Items /\ w \in Works /\ w.kind = "item" /\ w.id = i /\ Claims(f) = {w} /\ life[i] = "accepted"
  BY <1>1, <1>3, Shapes, WorkShapes, ClaimsAt DEF FrameOK
<1>5. Goto(t, g) /\ queued' = queued /\ UNCHANGED <<futureVars, backend, spreading, items>>
  BY <1>1 DEF FireRefused
<1>6. life' = life /\ closure' = closure
  BY <1>5 DEF items
<1>7. Promises(i) /\ Others(i)
  BY <1>5, <1>6, PromisesKept DEF Others
<1>8. \A W : Steady(W)
  BY <1>4, <1>5, <1>6, <1>7, SteadyItem
<1>9. g \in Frame /\ g.pc = "inline" /\ g.work = w /\ g.pc \in Bodily
  BY <1>1, <1>4, Shapes DEF Body, Bodily
<1>10. Claims(g) = {w}
  BY <1>9, ClaimsAt
<1>11. FrameOK(g)'
  BY <1>4, <1>6, <1>9 DEF FrameOK, BodyOK
<1>12. Trade(Claims(f), Claims(g), {}, {}, {})
  BY <1>3, <1>4, <1>5, <1>8, <1>10 DEF Trade
<1>13. Kept({}, {})
  BY <1>1, <1>2, <1>5, <1>9, <1>11, <1>12, StepGoto
<1>14. queued' \in SUBSET Works
  BY <1>5 DEF ShopInv, ShopTyped
<1> QED
  BY <1>4, <1>5, <1>7, <1>13, <1>14, SameItems

\* An item that is refused was never in anybody's hands.
LEMMA RefusedInv ==
  ASSUME ShopInv, IInv, NEW t \in Threads, NEW i \in Items, FireNoMemory(t, i) \/ GenericRefused(t, i)
  PROVE  ShopInv'
<1>1. /\ life[i] = "new" /\ i \notin Flying
      /\ life' = [life EXCEPT ![i] = "refused"] /\ closure' = closure
      /\ UNCHANGED <<backend, spreading>> /\ inFlight' = inFlight /\ queued' = queued
  BY DEF FireNoMemory, GenericRefused, Flying
<1>2. life' \in [Items -> Lives] /\ life'[i] = "refused" /\ Others(i)
  BY <1>1 DEF ShopInv, ShopTyped, Others, Lives
<1>3. Promises(i)
  BY PromisesKept DEF FireNoMemory, GenericRefused, Promised
<1>4. \A W : Steady(W)
  BY <1>1, <1>2, <1>3, SteadyItem
<1>5. Kept({}, {})
  <2>1. CASE UNCHANGED stack
    <3>1. Trade({}, {}, {}, {}, {})
      BY <1>1, <1>4 DEF Trade
    <3> QED
      BY <2>1, <3>1, StepStay
  <2>2. CASE Enter(t, FireFrame("unwind", i))
    <3>1. PICK f : f = FireFrame("unwind", i)
      OBVIOUS
    <3>2. f \in Frame /\ f.pc = "unwind" /\ f.id = i
      BY <3>1, Shapes DEF FireFrame
    <3>3. Claims(f) = {}
      BY <3>2, ClaimsAt
    <3>4. FrameOK(f)'
      BY <1>2, <3>2 DEF FrameOK, Bodily
    <3>5. Trade({}, Claims(f), {}, {}, {})
      BY <1>1, <1>4, <3>3 DEF Trade
    <3> QED
      BY <2>2, <3>1, <3>2, <3>4, <3>5, StepEnter
  <2> QED
    BY <2>1, <2>2 DEF FireNoMemory, GenericRefused
<1>6. /\ \A j \in Items \ {i} : ItemOK(j)'
      /\ \A s \in Spreads : SpreadOK(s)'
      /\ Flying' = Flying
  <2>1. {} \subseteq {Item(i)}
    OBVIOUS
  <2>2. Flying' = Flying
    BY <1>1, <1>2 DEF Flying, Others
  <2> QED
    BY <1>1, <1>2, <1>3, <1>5, <2>1, <2>2, ItemsMoved
<1>7. ItemOK(i)'
  BY <1>1, <1>2, <1>6 DEF ItemOK, ShopInv
<1>8. ShopTyped'
  BY <1>1, <1>2, <1>5 DEF ShopInv, ShopTyped, spreading, Kept
<1> QED
  BY <1>1, <1>5, <1>6, <1>7, <1>8 DEF ShopInv, Kept

LEMMA UnwindInv ==
  ASSUME ShopInv, IInv, NEW t \in Threads, Unwind(t)
  PROVE  ShopInv'
<1>1. PICK f, i : f = Top(t) /\ i = f.id
  OBVIOUS
<1>2. pc(t) = "unwind"
  BY DEF Unwind
<1>3. f \in Frame /\ f.pc = "unwind" /\ FrameOK(f) /\ Claims(f) = {}
  BY <1>1, <1>2, Mine, ClaimsAt
<1>4. i \in Items /\ life[i] = "refused"
  BY <1>1, <1>3, Shapes DEF FrameOK
<1>5. /\ queued' = queued /\ UNCHANGED <<backend, spreading, items>>
      /\ Leave(t) \/ UNCHANGED stack
      /\ DispatchReturns(i) \/ Drop(i) \/ SignalTail(i) \/ Abandon(i)
  BY <1>1 DEF Unwind
<1>6. life' = life /\ closure' = closure
  BY <1>5 DEF items
<1>7. Promises(i) /\ Others(i)
  BY <1>5, <1>6, PromisesKept DEF Others
<1>8. \A W : Steady(W)
  BY <1>4, <1>5, <1>6, <1>7, SteadyItem
<1>9. Trade({}, {}, {}, {}, {}) /\ Trade(Claims(f), {}, {}, {}, {})
  BY <1>3, <1>5, <1>8 DEF Trade
<1>10. Kept({}, {})
  BY <1>1, <1>2, <1>5, <1>9, StepLeave, StepStay
<1>11. queued' \in SUBSET Works
  BY <1>5 DEF ShopInv, ShopTyped
<1> QED
  BY <1>4, <1>5, <1>7, <1>10, <1>11, SameItems

\* The item that a frame works on.
LEMMA ItemOf ==
  ASSUME ShopInv, NEW f \in Frame, FrameOK(f), f.pc \in Bodily, f.work.kind = "item",
         NEW i, i = f.work.id
  PROVE  /\ i \in Items /\ f.work = Item(i) /\ f.work \in Works /\ Claims(f) = {Item(i)}
         /\ life[i] = IF f.pc \in {"destroy", "uncount"} THEN "ran" ELSE "accepted"
         /\ f.pc = "uncount" => /\ closure[i] = "gone"
                                /\ i \in Dispatches => producer[i] = "done"
<1>1. f.work \in Works /\ Claims(f) = {f.work}
  BY Shapes, ClaimsAt
<1>2. i \in Items /\ f.work = Item(i)
  BY <1>1, WorkShapes
<1>3. BodyOK(f)
  BY DEF FrameOK
<1> QED
  BY <1>1, <1>2, <1>3 DEF BodyOK

\* An item's frame goes on to its next station.
LEMMA StationInv ==
  ASSUME ShopInv, IInv, NEW t \in Threads, pc(t) # "idle", NEW f, f = Top(t), f.pc \in Bodily,
         f.work.kind = "item", NEW i, i = f.work.id, NEW l \in {"destroy", "after", "uncount"},
         GotoPc(t, l), queued' = queued, Others(i), Promises(i), UNCHANGED <<backend, spreading>>,
         inFlight' = inFlight,
         life' \in [Items -> Lives], life'[i] = IF l = "after" THEN "accepted" ELSE "ran",
         closure' \in [Items -> {"none", "packed", "heap", "frame", "gone"}],
         closure'[i] \in {closure[i], "gone"},
         l = "uncount" => closure'[i] = "gone" /\ (i \in Dispatches => producer'[i] = "done")
  PROVE  ShopInv'
<1>1. f \in Frame /\ FrameOK(f) /\ Claims(f) \cap queued = {} /\ Claims(f) \subseteq InHand
  BY Mine
<1>2. PICK w, g : w = Item(i) /\ g = Body(l, w)
  OBVIOUS
<1>3. /\ i \in Items /\ f.work = w /\ w \in Works /\ Claims(f) = {w}
      /\ life[i] \in {"accepted", "ran"}
  BY <1>1, <1>2, ItemOf
<1>4. g \in Frame /\ g.pc = l /\ g.work = w /\ g.pc \in Bodily /\ Goto(t, g)
  <2>1. l \in Bodily
    BY DEF Bodily
  <2>2. [f EXCEPT !.pc = l] = g
    <3>1. [f EXCEPT !.pc = l] = Body(l, f.work)
      BY <1>1, <2>1, Shapes
    <3> QED
      BY <1>2, <1>3, <3>1, Zenon
  <2> QED
    BY SMTT(30), <1>2, <1>3, <2>1, <2>2, Shapes DEF Body, GotoPc
<1>5. Claims(g) = {w}
  BY <1>4, ClaimsAt
<1>6. FrameOK(g)'
  <2>1. w.kind = "item" /\ w.id = i
    BY <1>2, WorkShapes
  <2> QED
    BY <1>4, <2>1 DEF FrameOK, BodyOK
<1>7. \A W : w \in W => Steady(W)
  BY <1>2, <1>3, SteadyItem
<1>8. Trade(Claims(f), Claims(g), {}, {}, {})
  BY <1>1, <1>3, <1>5, <1>7 DEF Trade
<1>9. Kept({}, {})
  BY <1>4, <1>6, <1>8, StepGoto
<1>10. /\ \A j \in Items \ {i} : ItemOK(j)'
       /\ \A s \in Spreads : SpreadOK(s)'
       /\ Flying' = Flying
  <2>1. {} \subseteq {Item(i)}
    OBVIOUS
  <2>2. i \in Flying /\ life'[i] \in {"accepted", "ran"}
    BY <1>3 DEF Flying
  <2>3. Flying' = Flying
    BY <2>2 DEF Flying, Others
  <2> QED
    BY <1>3, <1>9, <2>1, <2>3, ItemsMoved
<1>11. ItemOK(i)'
  <2>1. i \in Flying' /\ Item(i) \in InHand'
    BY <1>1, <1>2, <1>3, <1>9, <1>10 DEF Kept, Flying
  <2> QED
    BY <2>1 DEF ItemOK
<1>12. ShopTyped'
  BY <1>9 DEF ShopInv, ShopTyped, spreading, Kept
<1> QED
  BY <1>3, <1>9, <1>10, <1>11, <1>12 DEF ShopInv, Kept

LEMMA ItemRunsInv ==
  ASSUME ShopInv, IInv, NEW t \in Threads, ItemRuns(t)
  PROVE  ShopInv'
<1>1. PICK f, i : f = Top(t) /\ i = f.work.id
  OBVIOUS
<1>2. pc(t) \in {"pool", "inline", "after"} /\ f.work.kind = "item"
  BY <1>1 DEF ItemRuns, RunsItem
<1>3. f \in Frame /\ f.pc = pc(t) /\ FrameOK(f)
  BY <1>1, <1>2, Mine
<1>4. f.pc \in Bodily
  BY <1>2, <1>3 DEF Bodily
<1>5. i \in Items /\ life[i] = "accepted"
  BY <1>1, <1>2, <1>3, <1>4, ItemOf
<1>6. /\ queued' = queued /\ UNCHANGED <<backend, spreading>> /\ inFlight' = inFlight /\ closure' = closure
      /\ RunWork(i) \/ UNCHANGED futureVars
      /\ \/ life' = [life EXCEPT ![i] = "ran"] /\ GotoPc(t, "destroy")
         \/ life' = life /\ GotoPc(t, "after")
  BY <1>1 DEF ItemRuns
<1>7. Promises(i)
  BY <1>6, PromisesKept
<1>8. /\ life \in [Items -> Lives] /\ closure \in [Items -> {"none", "packed", "heap", "frame", "gone"}]
  BY DEF ShopInv, ShopTyped
<1>9. CASE life' = [life EXCEPT ![i] = "ran"] /\ GotoPc(t, "destroy")
  <2>1. life' \in [Items -> Lives] /\ life'[i] = "ran" /\ Others(i)
    BY <1>5, <1>6, <1>8, <1>9 DEF Others, Lives
  <2> QED
    BY <1>1, <1>2, <1>4, <1>6, <1>7, <1>8, <1>9, <2>1, StationInv
<1>10. CASE life' = life /\ GotoPc(t, "after")
  <2>1. Others(i)
    BY <1>6, <1>10 DEF Others
  <2> QED
    BY <1>1, <1>2, <1>4, <1>5, <1>6, <1>7, <1>8, <1>10, <2>1, StationInv
<1> QED
  BY <1>6, <1>9, <1>10

LEMMA ItemDestroysInv ==
  ASSUME ShopInv, IInv, NEW t \in Threads, ItemDestroys(t)
  PROVE  ShopInv'
<1>1. PICK f, i : f = Top(t) /\ i = f.work.id
  OBVIOUS
<1>2. pc(t) = "destroy"
  BY DEF ItemDestroys
<1>3. f \in Frame /\ f.pc = "destroy" /\ FrameOK(f)
  BY <1>1, <1>2, Mine
<1>4. f.pc \in Bodily /\ f.work.kind = "item"
  <2>1. f.pc \in Bodily
    BY <1>3 DEF Bodily
  <2>2. f.work.kind # "chunk"
    BY <1>3, <2>1 DEF FrameOK, BodyOK
  <2>3. f.work \in Works
    BY <1>3, <2>1, Shapes
  <2> QED
    BY <2>1, <2>2, <2>3, WorkShapes
<1>5. i \in Items /\ life[i] = "ran"
  BY <1>1, <1>3, <1>4, ItemOf
<1>6. /\ queued' = queued /\ UNCHANGED <<backend, spreading>> /\ inFlight' = inFlight /\ life' = life
      /\ \/ (SignalTail(i) \/ Abandon(i)) /\ stack' = stack /\ closure' = closure
         \/ /\ ~(Promised(i) /\ producer[i] # "done")
            /\ closure' = [closure EXCEPT ![i] = "gone"] /\ GotoPc(t, "uncount")
            /\ UNCHANGED futureVars
  BY <1>1 DEF ItemDestroys
<1>7. Promises(i)
  BY <1>6, PromisesKept
<1>8. /\ life \in [Items -> Lives] /\ closure \in [Items -> {"none", "packed", "heap", "frame", "gone"}]
  BY DEF ShopInv, ShopTyped
<1>9. CASE stack' = stack /\ closure' = closure
  <2>1. Others(i) /\ UNCHANGED items
    BY <1>6, <1>9 DEF Others, items
  <2>2. \A W : Steady(W)
    BY <1>5, <1>6, <1>7, <1>9, <2>1, SteadyItem
  <2>3. Trade({}, {}, {}, {}, {})
    BY <1>6, <2>2 DEF Trade
  <2>4. Kept({}, {})
    BY <1>9, <2>3, StepStay
  <2>5. queued' \in SUBSET Works
    BY <1>6 DEF ShopInv, ShopTyped
  <2> QED
    BY <1>5, <1>6, <1>7, <2>1, <2>4, <2>5, SameItems
<1>10. CASE /\ ~(Promised(i) /\ producer[i] # "done")
            /\ closure' = [closure EXCEPT ![i] = "gone"] /\ GotoPc(t, "uncount")
            /\ UNCHANGED futureVars
  <2>1. /\ closure' \in [Items -> {"none", "packed", "heap", "frame", "gone"}]
        /\ closure'[i] = "gone" /\ Others(i)
    BY <1>5, <1>6, <1>8, <1>10 DEF Others
  <2>2. i \in Dispatches => producer'[i] = "done"
    BY <1>7, <1>10 DEF Promised, Promises
  <2> QED
    BY <1>1, <1>2, <1>4, <1>5, <1>6, <1>7, <1>8, <1>10, <2>1, <2>2, StationInv
<1> QED
  BY <1>6, <1>9, <1>10

LEMMA ItemEndsInv ==
  ASSUME ShopInv, IInv, NEW t \in Threads, ItemEnds(t)
  PROVE  ShopInv'
<1>1. PICK f, i, w : f = Top(t) /\ i = f.work.id /\ w = Item(i)
  OBVIOUS
<1>2. pc(t) = "uncount"
  BY DEF ItemEnds
<1>3. /\ f \in Frame /\ f.pc = "uncount" /\ FrameOK(f)
      /\ Claims(f) \cap queued = {} /\ Claims(f) \subseteq InHand
  BY <1>1, <1>2, Mine
<1>4. f.pc \in Bodily /\ f.work.kind = "item"
  <2>1. f.pc \in Bodily
    BY <1>3 DEF Bodily
  <2>2. f.work.kind # "chunk"
    BY <1>3, <2>1 DEF FrameOK, BodyOK
  <2>3. f.work \in Works
    BY <1>3, <2>1, Shapes
  <2> QED
    BY <2>1, <2>2, <2>3, WorkShapes
<1>5. /\ i \in Items /\ life[i] = "ran" /\ closure[i] = "gone" /\ Claims(f) = {w}
      /\ i \in Dispatches => producer[i] = "done"
  BY <1>1, <1>3, <1>4, ItemOf
<1>6. /\ queued' = queued /\ UNCHANGED <<backend, spreading>> /\ closure' = closure /\ Leave(t)
      /\ life' = [life EXCEPT ![i] = "over"]
      /\ DispatchReturns(i) \/ UNCHANGED futureVars
      /\ inFlight' = IF backend \in Tracked THEN inFlight - 1 ELSE inFlight
  BY <1>1 DEF ItemEnds
<1>7. Promises(i)
  BY <1>6, PromisesKept
<1>8. life' \in [Items -> Lives] /\ life'[i] = "over" /\ Others(i)
  BY <1>5, <1>6 DEF ShopInv, ShopTyped, Others, Lives
<1>9. \A W : w \in W => Steady(W)
  BY <1>1, <1>5, <1>6, <1>7, <1>8, SteadyItem
<1>10. Trade(Claims(f), {}, {}, {}, {w})
  BY <1>3, <1>5, <1>6, <1>9 DEF Trade
<1>11. Kept({}, {w})
  BY <1>1, <1>2, <1>6, <1>10, StepLeave
<1>12. /\ \A j \in Items \ {i} : ItemOK(j)'
       /\ \A s \in Spreads : SpreadOK(s)'
       /\ Flying' = Flying \ {i} /\ IsFiniteSet(Flying')
       /\ Cardinality(Flying') = Cardinality(Flying) - 1
  <2>1. {} \subseteq {Item(i)} /\ {w} \subseteq {Item(i)}
    BY <1>1
  <2>2. i \in Flying /\ life'[i] \notin {"accepted", "ran"}
    BY <1>5, <1>8 DEF Flying
  <2> QED
    BY <1>5, <1>6, <1>7, <1>8, <1>11, <2>1, <2>2, ItemsMoved
<1>13. ItemOK(i)'
  BY <1>5, <1>6, <1>7, <1>8, <1>12 DEF ItemOK, Promises
<1>14. ShopTyped'
  <2>1. inFlight' \in Int
    BY <1>6 DEF ShopInv, ShopTyped
  <2> QED
    BY <1>6, <1>8, <1>11, <2>1 DEF ShopInv, ShopTyped, spreading, Kept
<1>15. (backend \in Tracked => inFlight = Cardinality(Flying))'
  BY <1>6, <1>12 DEF ShopInv
<1> QED
  BY <1>5, <1>11, <1>12, <1>13, <1>14, <1>15 DEF ShopInv, Kept

\* The owner of a future does nothing to the shop.
LEMMA OwnerShopInv ==
  ASSUME ShopInv, IInv, NEW d \in Dispatches, UseFuture(d) \/ OwnerStep(d)
  PROVE  ShopInv'
<1>1. /\ UNCHANGED <<backend, spreading, items>> /\ queued' = queued /\ stack' = stack
      /\ producer' = producer
  BY DEF UseFuture, OwnerStep, shopVars, FutureCall, ConsumerStep, FutureWait, FutureReturn, FutureRelease
<1>2. d \in Items
  BY DEF Items
<1>3. Promises(d) /\ Others(d) /\ life' = life /\ closure' = closure
  BY <1>1 DEF Promises, Others, items
<1>4. \A W : Steady(W)
  BY <1>1, <1>2, <1>3, SteadyItem
<1>5. CASE \E t \in Threads : TRUE
  <2>1. PICK t \in Threads : TRUE
    BY <1>5
  <2>2. Trade({}, {}, {}, {}, {})
    BY <1>1, <1>4 DEF Trade
  <2>3. Kept({}, {})
    BY <1>1, <2>2, StepStay
  <2>4. queued' \in SUBSET Works
    BY <1>1 DEF ShopInv, ShopTyped
  <2> QED
    BY <1>1, <1>2, <1>3, <2>3, <2>4, SameItems
<1>6. \E t \in Threads : TRUE
  BY <1>2 DEF Threads, Callbacks
<1> QED
  BY <1>5, <1>6

LEMMA ShopStutter ==
  ASSUME ShopInv, IInv, UNCHANGED vars
  PROVE  ShopInv'
<1> USE DEF vars, futureVars, spreading, items
<1>1. Claimed' = Claimed /\ queued' = queued /\ stack' = stack
  BY DEF Claimed
<1>2. InHand' = InHand
  BY <1>1 DEF InHand
<1>3. \A w : WaitsOK(w)' <=> WaitsOK(w)
  BY DEF WaitsOK
<1>4. (\A t \in Threads : \A i \in 1..Len(stack[t]) : FrameOK(stack[t][i]))'
  BY SMTT(30), <1>1 DEF ShopInv, FrameOK, BodyOK
<1>5. \A s \in Spreads : SpreadOK(s)'
  <2>1. \A s \in Spreads : Left(s)' = Left(s)
    BY <1>2 DEF Left
  <2> QED
    BY <2>1 DEF ShopInv, SpreadOK
<1>6. Flying' = Flying
  BY DEF Flying
<1>7. \A i \in Items : ItemOK(i)'
  BY <1>2, <1>6 DEF ShopInv, ItemOK
<1>8. ShopTyped'
  BY DEF ShopInv, ShopTyped
<1> QED
  BY <1>1, <1>3, <1>4, <1>5, <1>6, <1>7, <1>8 DEF ShopInv

LEMMA ShopNext ==
  ASSUME ShopInv, IInv, Next
  PROVE  ShopInv'
<1>1. ASSUME NEW t \in Threads, SpreadStep(t) PROVE ShopInv'
  BY <1>1, SubmitInv, SubmitRefusedInv, ApplyHereInv, SpreadReturnInv, ChunkRunsInv, ChunkCountsDownInv
     DEF SpreadStep
<1>2. ASSUME NEW t \in Threads, ItemStep(t) PROVE ShopInv'
  BY <1>2, FireSubmitInv, FireRefusedInv, UnwindInv, ItemRunsInv, ItemDestroysInv, ItemEndsInv
     DEF ItemStep
<1>3. ASSUME NEW t \in Threads, Call(t) PROVE ShopInv'
  <2>1. CASE \E s \in NextCall, n \in Iterations : \E chunks \in NumsOfChunks(n) : SpreadCall(t, s, n, chunks)
    <3>1. PICK s \in NextCall, n \in Iterations : \E chunks \in NumsOfChunks(n) : SpreadCall(t, s, n, chunks)
      BY <2>1
    <3>2. PICK chunks \in NumsOfChunks(n) : SpreadCall(t, s, n, chunks)
      BY <3>1
    <3>3. s \in Spreads
      BY <3>1 DEF NextCall, Unused
    <3>4. chunks \in Nat
      BY <3>1, <3>2, NumbersOfChunks
    <3> QED
      BY <3>2, <3>3, <3>4, SpreadCallInv
  <2>2. CASE \E i \in Items : Fire(t, i)
    BY <2>2, FireAcceptInv, RefusedInv DEF Fire
  <2> QED
    BY <1>3, <2>1, <2>2 DEF Call
<1>4. ASSUME NEW t \in Threads, Progress(t) PROVE ShopInv'
  BY <1>1, <1>2, <1>4, CallbackStartsInv DEF Progress
<1> QED
  BY <1>3, <1>4, OwnerShopInv DEF Next

LEMMA ShopInit == Init => ShopInv
<1> SUFFICES ASSUME Init PROVE ShopInv
  OBVIOUS
<1>1. \A t \in Threads : stack[t] = <<>> /\ Len(stack[t]) = 0
  BY DEF Init
<1>2. \A t \in Threads : DOMAIN Claimed[t] = {}
  BY <1>1 DEF Claimed, ClaimsOf, Holdings, ClaimOf
<1>3. InHand = {} /\ Disjoint(Threads, Claimed, queued)
  BY <1>2 DEF InHand, Taken, Disjoint, Init
<1>4. ShopTyped
  <2>1. stack \in [Threads -> Seq(Frame)]
    BY DEF Init
  <2>2. \A s \in Spreads : hits[s] \in [1..0 -> {0, 1}]
    BY DEF Init
  <2> QED
    BY <2>1, <2>2 DEF Init, ShopTyped, Lives
<1>5. \A s \in Spreads : SpreadOK(s)
  <2>1. \A s \in Spreads : Left(s) = {}
    BY DEF Init, Left
  <2>2. Cardinality({}) = 0
    BY FS_EmptySet
  <2> QED
    BY <2>1, <2>2 DEF Init, SpreadOK
<1>6. Flying = {} /\ IsFiniteSet({}) /\ Cardinality({}) = 0
  BY FS_EmptySet DEF Init, Flying
<1>7. \A i \in Items : ItemOK(i)
  BY <1>6 DEF Init, FutureInit, ItemOK
<1> QED
  BY <1>1, <1>3, <1>4, <1>5, <1>6, <1>7 DEF ShopInv, Init

LEMMA ShopInvariance == Spec => []ShopInv
<1>1. ShopInv /\ IInv /\ [Next]_vars => ShopInv'
  BY ShopNext, ShopStutter
<1> QED
  BY <1>1, ShopInit, FutureInvariance, PTL DEF Spec

\* "safe because sync.wait() keeps this frame alive": whatever the numbers of threads,
\* spreads, iterations and cores, and whichever callbacks are refused, a spread returns
\* when each of its chunks has run once and nobody will touch one again.
THEOREM PlatformSpreadComplete == Spec => []SpreadComplete
<1>1. ShopInv => SpreadComplete
  <2> SUFFICES ASSUME ShopInv, NEW s \in Spreads, NEW c \in DOMAIN hits[s]
               PROVE  /\ hits[s][c] <= 1
                      /\ calls[s] = "returned" => hits[s][c] = 1 /\ ~InUse(Chunk(s, c))
    BY DEF SpreadComplete
  <2>1. hits[s][c] \in {0, 1}
    BY DEF ShopInv, ShopTyped
  <2>2. ASSUME calls[s] = "returned" PROVE hits[s][c] = 1 /\ Chunk(s, c) \notin InHand
    <3>1. Cardinality(Left(s)) = 0 /\ IsFiniteSet(Left(s))
      BY <2>2, LeftFinite DEF ShopInv, SpreadOK
    <3>2. Left(s) = {}
      BY <3>1, FS_EmptySet
    <3> QED
      BY <2>1, <3>2 DEF Left
  <2>3. PICK w : w = Chunk(s, c)
    OBVIOUS
  <2>4. ASSUME InUse(w) PROVE w \in InHand
    <3>1. CASE w \in queued
      BY <3>1 DEF InHand, Taken
    <3>2. CASE \E f \in Frames : LET frame == stack[f[1]][f[2]]
                                IN  "work" \in DOMAIN frame /\ frame.work = w
      <4>1. PICK t \in Threads : \E i \in DOMAIN stack[t] :
                   "work" \in DOMAIN stack[t][i] /\ stack[t][i].work = w
        BY <3>2 DEF Frames
      <4>2. PICK i \in DOMAIN stack[t] : "work" \in DOMAIN stack[t][i] /\ stack[t][i].work = w
        BY <4>1
      <4>3. PICK f : f = stack[t][i]
        OBVIOUS
      <4>4. stack[t] \in Seq(Frame) /\ i \in 1..Len(stack[t])
        BY <4>2 DEF ShopInv, ShopTyped
      <4>5. f \in Frame
        BY <4>3, <4>4, ElementOfSeq
      <4>6. f.pc \in Bodily
        BY <4>2, <4>3, <4>5 DEF Frame
      <4>7. Claims(f) = {w}
        BY <4>2, <4>3, <4>6, ClaimsAt
      <4>8. i \in DOMAIN Claimed[t] /\ Claimed[t][i] = Claims(f)
        BY <4>3, <4>4 DEF Claimed, ClaimsOf, Holdings, ClaimOf
      <4> QED
        BY <4>7, <4>8 DEF InHand, Taken
    <3> QED
      BY <2>4, <3>1, <3>2 DEF InUse
  <2> QED
    BY <2>1, <2>2, <2>3, <2>4
<1> QED
  BY <1>1, ShopInvariance, PTL

\* wait_until_idle() on the shops that count: with nothing in flight, nothing of what was
\* accepted is left, and with nothing to do, nothing is in flight.
THEOREM PlatformIdleMeansDone == Spec => []IdleMeansDone
<1>1. ShopInv => IdleMeansDone
  <2> SUFFICES ASSUME ShopInv, backend \in Tracked PROVE IdleMeansDone
    BY DEF IdleMeansDone
  <2>1. inFlight = Cardinality(Flying) /\ IsFiniteSet(Flying)
    BY DEF ShopInv
  <2>2. ASSUME inFlight = 0
        PROVE  /\ \A i \in Items : life[i] \notin {"accepted", "ran"} /\ closure[i] # "heap"
               /\ \A d \in Dispatches : life[d] # "refused" => producer[d] \in {"none", "done"}
    <3>1. Flying = {}
      BY <2>1, <2>2, FS_EmptySet
    <3>2. ASSUME NEW i \in Items PROVE life[i] \notin {"accepted", "ran"} /\ closure[i] # "heap"
      BY <3>1 DEF ShopInv, ItemOK, Flying
    <3>3. ASSUME NEW d \in Dispatches, life[d] # "refused" PROVE producer[d] \in {"none", "done"}
      <4>1. d \in Items
        BY DEF Items
      <4>2. life[d] \in {"new", "over"}
        BY <3>2, <3>3, <4>1 DEF ShopInv, ShopTyped, Lives
      <4> QED
        BY <4>1, <4>2 DEF ShopInv, ItemOK
    <3> QED
      BY <3>2, <3>3
  <2>3. ASSUME queued = {}, \A t \in Threads : stack[t] = <<>> PROVE inFlight = 0
    <3>1. \A t \in Threads : DOMAIN Claimed[t] = {}
      BY <2>3 DEF Claimed, ClaimsOf, Holdings, ClaimOf
    <3>2. InHand = {}
      BY <2>3, <3>1 DEF InHand, Taken
    <3>3. Flying = {}
      BY <3>2 DEF ShopInv, ItemOK, Flying
    <3> QED
      BY <2>1, <3>3, FS_EmptySet
  <2> QED
    BY <2>2, <2>3 DEF IdleMeansDone
<1> QED
  BY <1>1, ShopInvariance, PTL
================================================================================
