------------------------------ MODULE MCFollow ------------------------------
(* Nodes and threads are interchangeable. *)
EXTENDS Follow, TLC

Symmetry == Permutations(Node) \cup Permutations(Worker)

=============================================================================
