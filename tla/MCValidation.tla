---------------------------- MODULE MCValidation ----------------------------
(* Peers, goroutines and challenges are interchangeable. *)
EXTENDS Validation, TLC

Symmetry == Permutations(Peer) \cup Permutations(Job) \cup Permutations(Challenge)

=============================================================================
