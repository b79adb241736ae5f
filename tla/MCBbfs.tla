------------------------------- MODULE MCBbfs -------------------------------
(* Two names, two inodes and two descriptors, which are interchangeable.   *)
EXTENDS Bbfs, TLC
Sym == Permutations(Names) \cup Permutations(Files) \cup Permutations(Handles)
LastChar == {127}
=============================================================================
