------------------------------- MODULE MCLibuv ---------------------------------
(* Model values for the threads, spreads and items of Libuv. *)
EXTENDS Libuv

CONSTANTS p1, c1, loop1, s1, s2, i1
================================================================================
