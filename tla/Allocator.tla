------------------------------ MODULE Allocator ------------------------------
(***************************************************************************)
(* What hw5_vmm/buddy.h promises (abstract specification): buddy_alloc     *)
(* hands out a page of at least the bytes asked for that overlaps no other *)
(* page, or -1; buddy_free takes back exactly the page that starts at idx, *)
(* or returns -1 when there is none; buddy_size finds the page around any  *)
(* index.                                                                  *)
(***************************************************************************)
EXTENDS Pages

VARIABLES
  pool,    \* the size given to buddy_init; -1: no pool
  pages,   \* the allocated pages
  result   \* what the last call returned

allocVars == <<pool, pages, result>>

AllocInit == pool = -1 /\ pages = {} /\ result = 0

Start(size) ==
  /\ pool = -1
  /\ \/ pool' = size /\ result' = 0
     \/ pool' = -1 /\ result' = -1
  /\ UNCHANGED pages

Hand(size) ==
  /\ pool # -1
  /\ \/ \E idx \in 0 .. pool - 1, len \in size .. pool :
          /\ idx + len <= pool
          /\ \A page \in pages : Apart(Page(idx, len), page)
          /\ pages' = pages \cup {Page(idx, len)}
          /\ result' = idx
     \/ UNCHANGED pages /\ result' = -1
  /\ UNCHANGED pool

TakeBack(idx) ==
  /\ pool # -1
  /\ \/ \E page \in pages :
          /\ page.idx = idx
          /\ pages' = pages \ {page}
          /\ result' = 0
     \/ /\ \A page \in pages : page.idx # idx
        /\ UNCHANGED pages
        /\ result' = -1
  /\ UNCHANGED pool

(* The bytes from idx to the end of its page.                              *)
Query(idx) ==
  /\ pool # -1
  /\ \/ \E page \in pages :
          Holds(page, idx) /\ result' = page.idx + page.size - idx
     \/ (\A page \in pages : ~ Holds(page, idx)) /\ result' = -1
  /\ UNCHANGED <<pool, pages>>

Stop == pool' = -1 /\ pages' = {} /\ UNCHANGED result
=============================================================================
