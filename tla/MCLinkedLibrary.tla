-------------------------- MODULE MCLinkedLibrary --------------------------
(* Instances of LinkedLibrary for TLC. *)
EXTENDS LinkedLibrary, TLC

Symmetry == Permutations(Threads) \cup Permutations(Addresses)

=============================================================================
