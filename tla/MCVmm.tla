------------------------------- MODULE MCVmm -------------------------------
(* A pool of three bytes (VmmOne) holds three pages, or pages of two sizes *)
(* in either order; one of two bytes (VmmTwo) a page for each process.     *)
EXTENDS Vmm
Sizes == 1 .. POOL_SIZE
Starts == 0 .. POOL_SIZE
Pools == {POOL_SIZE}
=============================================================================
