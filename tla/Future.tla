--------------------------------- MODULE Future ---------------------------------
(***************************************************************************)
(* threading/future.hpp and outcome_future.hpp: the one-shot promise and   *)
(* future over a shared slot.  The two slot types differ in how a result   *)
(* is stored, not in their protocol.  PlatformShop has the shops that hand *)
(* the promise out, run it and destroy it.                                 *)
(*                                                                         *)
(* slot      result (completed_ when not "none"), tokens of completion_,   *)
(*           waited_, owners_, and whether it has been deleted             *)
(* producer  the promise: not made, held by work that waits, completing    *)
(*           (signal() has let the waiter go), in its destructor, gone     *)
(* consumer  the dispatching thread, then the owner of the future          *)
(* got       what get() returned or threw last, "pending" before the first *)
(***************************************************************************)
EXTENDS Integers

CONSTANT Dispatches      \* the dispatch calls

VARIABLES slot, producer, consumer, got

futureVars == <<slot, producer, consumer, got>>

Results == {"value", "exception", "broken_promise"}

NewSlot == [result |-> "none", tokens |-> 0, waited |-> FALSE, owners |-> 2,
            deleted |-> FALSE]

FutureInit ==
  /\ slot = [d \in Dispatches |-> NewSlot]
  /\ producer = [d \in Dispatches |-> "none"]
  /\ consumer = [d \in Dispatches |-> "start"]
  /\ got = [d \in Dispatches |-> "pending"]

Producer(d, l) == producer' = [producer EXCEPT ![d] = l]
Consumer(d, l) == consumer' = [consumer EXCEPT ![d] = l]

\* Mutant: the first owner to leave deletes the slot.
ReleasedBySingleOwner(s) == [s EXCEPT !.owners = @ - 1, !.deleted = TRUE]

\* release(): the last owner deletes.
Released(s) == [s EXCEPT !.owners = @ - 1, !.deleted = (s.owners = 1)]

\* set_value or set_exception up to the moment when signal() lets a wait() pass.
Completed(s, r) == [s EXCEPT !.result = r, !.tokens = @ + 1]
--------------------------------------------------------------------------------
(* dispatch_lite, dispatch_outcome: the pair is made *)

\* The promise is moved into the work, the call keeps the future.
PairMade(d) ==
  /\ consumer[d] = "start"
  /\ Producer(d, "queued") /\ Consumer(d, "calling")
  /\ UNCHANGED <<slot, got>>

\* A dispatch of the generic shop that is refused: the wrapper is not destroyed
\* (work_t's destructor is trivial), and with it its promise; a completed replacement
\* pair is made, and the assignment of its future first releases the one that the
\* wrapper's constructor made.
DispatchRefused(d) ==
  /\ consumer[d] = "start"
  /\ Producer(d, "leaked") /\ Consumer(d, "release")
  /\ UNCHANGED <<slot, got>>

\* The call returns the future.
DispatchReturns(d) ==
  /\ consumer[d] = "calling"
  /\ Consumer(d, "have")
  /\ UNCHANGED <<slot, producer, got>>
--------------------------------------------------------------------------------
(* promise: run, the tail of signal(), and the destructor *)

RunWork(d) ==
  /\ producer[d] = "queued"
  /\ \E r \in {"value", "exception"} : slot' = [slot EXCEPT ![d] = Completed(@, r)]
  /\ Producer(d, "signalling")
  /\ UNCHANGED <<consumer, got>>

\* The work is destroyed without having run, and the promise with it.
Drop(d) ==
  /\ producer[d] = "queued"
  /\ Producer(d, "abandoning")
  /\ UNCHANGED <<slot, consumer, got>>

\* signal() reads and writes its own words after the token is out.
SignalTail(d) ==
  /\ producer[d] = "signalling"
  /\ Producer(d, "abandoning")
  /\ UNCHANGED <<slot, consumer, got>>

\* Mutant: a promise that was never completed is just let go.
AbandonSilently(d) ==
  /\ producer[d] = "abandoning"
  /\ slot' = [slot EXCEPT ![d] = Released(@)] /\ Producer(d, "done")
  /\ UNCHANGED <<consumer, got>>

\* abandon(): completes the slot if nothing has, then releases it.
Abandon(d) ==
  /\ producer[d] = "abandoning"
  /\ IF slot[d].result = "none"
       THEN /\ slot' = [slot EXCEPT ![d] = Completed(@, "broken_promise")]
            /\ Producer(d, "signalling")
       ELSE /\ slot' = [slot EXCEPT ![d] = Released(@)]
            /\ Producer(d, "done")
  /\ UNCHANGED <<consumer, got>>
--------------------------------------------------------------------------------
(* future: wait, get, and release, by the destructor or the assignment that
   replaces it *)

Operations == {"wait", "get", "release"}

FutureCall(d, op) ==
  /\ consumer[d] = "have"
  /\ Consumer(d, op)
  /\ UNCHANGED <<slot, producer, got>>

\* completion_.wait(), the first time only.
FutureWait(d) ==
  /\ consumer[d] \in Operations
  /\ ~slot[d].waited /\ slot[d].tokens > 0
  /\ slot' = [slot EXCEPT ![d].tokens = @ - 1, ![d].waited = TRUE]
  /\ UNCHANGED <<producer, consumer, got>>

\* Mutant: a future that was is read without waiting for it.
FutureReturnUnwaited(d) ==
  /\ consumer[d] \in {"wait", "get"}
  /\ got' = [got EXCEPT ![d] = IF consumer[d] = "get" THEN slot[d].result ELSE @]
  /\ Consumer(d, "have")
  /\ UNCHANGED <<slot, producer>>

FutureReturn(d) ==
  /\ consumer[d] \in {"wait", "get"} /\ slot[d].waited
  /\ got' = [got EXCEPT ![d] = IF consumer[d] = "get" THEN slot[d].result ELSE @]
  /\ Consumer(d, "have")
  /\ UNCHANGED <<slot, producer>>

FutureRelease(d) ==
  /\ consumer[d] = "release" /\ slot[d].waited
  /\ slot' = [slot EXCEPT ![d] = Released(@)]
  /\ Consumer(d, "end")
  /\ UNCHANGED <<producer, got>>
--------------------------------------------------------------------------------
ConsumerStep(d) == FutureWait(d) \/ FutureReturn(d) \/ FutureRelease(d)
--------------------------------------------------------------------------------
\* signal() "keeps touching its own memory after the point where a waiting wait()
\* call can already unblock": whoever is still to touch a slot finds it alive, and
\* when both sides are through, in whichever order, the slot is deleted, not leaked.
SlotLifetime ==
  \A d \in Dispatches :
    /\ producer[d] \in {"queued", "signalling", "abandoning"} => ~slot[d].deleted
    /\ consumer[d] \in Operations \cup {"have"} => ~slot[d].deleted
    /\ producer[d] = "done" /\ consumer[d] = "end" => slot[d].deleted

\* get() hands out what the promise was completed with, however often it is called,
\* and returns from a slot that nothing has completed never.
GetSeesResult ==
  \A d \in Dispatches :
    got[d] # "pending" => got[d] = slot[d].result /\ got[d] # "none"

\* Every dispatch of work that is accepted returns, and so does every call on its
\* future: a dropped promise completes it as well, and a second wait() does not need
\* a second signal.
CallsReturn ==
  \A d \in Dispatches :
    (consumer[d] \in Operations \cup {"calling"} /\ producer[d] # "leaked")
      ~> (consumer[d] \in {"have", "end"})
================================================================================
