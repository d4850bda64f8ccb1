--------------------------------- MODULE Futex ---------------------------------
(***************************************************************************)
(* The blocking half of psi::thrd_lite::futex (threading/futex.hpp and its *)
(* Linux, Apple, Windows and Emscripten backends), shared by every module  *)
(* that parks threads on a word.  The word itself is a variable of the     *)
(* module that uses it; these operators only say who a wake may reach.     *)
(***************************************************************************)
EXTENDS Naturals, FiniteSets

\* wait_if_equal compares the word and enqueues the thread in one atomic step
\* of the kernel: it parks only against the expected value, and returns at once
\* otherwise.
ParksAgainst(word, expected) == word = expected

\* wake(n): Linux and Emscripten wake n of the parked threads (all of them when
\* fewer are parked); Apple and Windows have no exact-count call and wake all.
WokenBy(parked, n) ==
  {W \in SUBSET parked : W = parked \/ Cardinality(W) = n}

\* wake_all(bits): Linux wakes exactly the threads that listen on one of the
\* bits; the other backends ignore the bitset and wake everyone.
WokenByBits(parked, listensOn, bits) ==
  {{t \in parked : listensOn[t] \in bits}, parked}
================================================================================
