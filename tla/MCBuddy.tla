------------------------------ MODULE MCBuddy ------------------------------
(* Pools of buddy_test.c's kinds: a power of two, an even and an odd size  *)
(* that are none, 1 and 0; requests from 1 byte to more than the pool, and *)
(* indexes inside and outside of it.                                       *)
EXTENDS Buddy
Pools == {0, 1, 4, 6, 7}
Sizes == 1 .. 8
Places == -1 .. 7
=============================================================================
