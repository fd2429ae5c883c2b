----------------------------- MODULE MCReinsert -----------------------------
(* Instances of Reinsert for TLC. *)
EXTENDS Reinsert, TLC

ThreadSymmetry == Permutations(Threads) \cup Permutations(Requests)
=============================================================================
