----------------------------- MODULE MCPlatformShop -----------------------------
(* Model values for the threads, calls and items of PlatformShop. *)
EXTENDS PlatformShop

CONSTANTS c1, c2, f1, d1, s1, s2
================================================================================
