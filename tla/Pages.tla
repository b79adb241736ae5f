------------------------------- MODULE Pages -------------------------------
(***************************************************************************)
(* Nodes of the buddy tree and pages of the pool of hw5_vmm: the bytes     *)
(* from idx to idx + size - 1 (node_t in buddy.h).                         *)
(***************************************************************************)
EXTENDS Integers

CONSTANTS
  PoolSizes,  \* the sizes given to buddy_init
  Requests,   \* the sizes given to buddy_alloc
  Indexes     \* the indexes given to buddy_free and buddy_size

(* A request of 0 bytes would split for ever (buddy.c:63).                 *)
ASSUME PagesAssumption ==
  /\ PoolSizes \subseteq Nat
  /\ Requests \subseteq Nat \ {0}
  /\ Indexes \subseteq Int

Page(idx, size) == [idx |-> idx, size |-> size]

Apart(m, n) == m.idx + m.size <= n.idx \/ n.idx + n.size <= m.idx

Inside(m, n) == n.idx <= m.idx /\ m.idx + m.size <= n.idx + n.size

(* Is the byte at idx in n?                                                *)
Holds(n, idx) == n.idx <= idx /\ idx < n.idx + n.size
=============================================================================
