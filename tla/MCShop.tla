--------------------------------- MODULE MCShop ---------------------------------
(* TLC instances of Shop. *)
EXTENDS Shop, TLC

Instance(workers, faults, iterations, callers, may, most) ==
  [workers |-> workers, faults |-> faults, iterations |-> iterations,
   callers |-> callers, may |-> may, calls |-> most]

\* Two items, before, while and after a pool of one worker is replaced by one of two.
\* Two spreads at once on one worker, and on none.
CallSetups == {Instance(1, {}, {}, 1, {"fire", "resize", "stop"}, 3)}
                \cup {Instance(workers, {}, {2}, 2, {}, 2) : workers \in {0, 1}}

\* A spread against an item on two workers, where everything can fail; and a spread
\* alone on three workers, of which the caller wakes one.
SpreadSetups == {Instance(2, Faults, {4}, 1, {"fire"}, 2), Instance(3, {}, {3}, 1, {}, 1)}

\* One spread on two workers, of which the caller wakes one; stealing may miss work.
WakeSetups == {Instance(2, {"look"}, {3}, 1, {}, 1)}

TrackingSetups == {Instance(1, {}, {}, 2, {"fire"}, 2)}

\* An item and a user thread on one worker, which spread in each other's work.
NestedSetups == {Instance(1, {}, {2}, 1, {"fire"}, 4)}

\* Items are interchangeable, and so are spread calls; sound for the invariants.
CallSymmetry == Permutations(Items) \cup Permutations(Spreads)
================================================================================
