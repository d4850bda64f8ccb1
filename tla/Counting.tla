-------------------------------- MODULE Counting --------------------------------
(***************************************************************************)
(* Counting threads by where they are, and units by who holds them.        *)
(***************************************************************************)
EXTENDS Integers, FiniteSets

\* The threads that the location function p puts into the set of locations L.
Where(p, L) == {t \in DOMAIN p : p[t] \in L}

\* One slot for every unit that f gives to the threads of S; its cardinality is
\* the sum of f over S.
Slots(f, S) == UNION {{t} \X (1..f[t]) : t \in S}
================================================================================
