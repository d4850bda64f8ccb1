--------------------------------- MODULE Barrier ---------------------------------
(***************************************************************************)
(* What a completion barrier promises the thread that spreads              *)
(* (threading/barrier.hpp): the arrivals that it expects can be announced  *)
(* at once or one by one, while others already arrive; the join returns    *)
(* when all have arrived, and not before.                                  *)
(***************************************************************************)
EXTENDS Naturals

VARIABLES pending,   \* arrivals expected and still to come
          phase      \* of the spreading thread: "none" (no barrier), "open", "joining"

vars == <<pending, phase>>

Init == pending = 0 /\ phase = "none"

Construct == phase = "none" /\ phase' = "open" /\ pending' = 0

\* initialize(), add_expected_arrival()
Expect == phase = "open" /\ pending' > pending /\ UNCHANGED phase

\* arrive(), from a worker.
Arrive == /\ phase # "none" /\ pending > 0
          /\ pending' = pending - 1
          /\ UNCHANGED phase

\* The spreading thread joins; if it has a part of its own, with its own arrival.
Join == /\ phase = "open" /\ phase' = "joining"
        /\ pending' = pending \/ (pending > 0 /\ pending' = pending - 1)

Return == phase = "joining" /\ pending = 0 /\ phase' = "none" /\ UNCHANGED pending

Next == Construct \/ Expect \/ Arrive \/ Join \/ Return

SafeSpec == Init /\ [][Next]_vars

\* What is expected arrives, and the join then returns.
Spec == SafeSpec /\ WF_vars(Arrive) /\ WF_vars(Return)
================================================================================
