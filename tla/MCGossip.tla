------------------------------ MODULE MCGossip ------------------------------
(***************************************************************************)
(* Instances of Gossip for TLC: up to three peers, the topologies of the   *)
(* runs and how many rumors each peer originates.                          *)
(***************************************************************************)
EXTENDS Gossip

CONSTANTS A, B, C

\* A -> B: only A is told about the other.
PairPeers == [n \in Node |-> IF n = A THEN {B} ELSE {}]
\* A -> B -> C, as in the tests of peer/tests/unit/HW1_test.go.
ChainPeers == [n \in Node |-> CASE n = A -> {B} [] n = B -> {C} [] n = C -> {}]
\* B <- A -> C: one peer with two to choose from.
StarPeers == [n \in Node |-> IF n = A THEN {B, C} ELSE {}]

LateBack == {<<B, A>>}

OneFromA == [n \in Node |-> IF n = A THEN 1 ELSE 0]
TwoFromA == [n \in Node |-> IF n = A THEN 2 ELSE 0]
=============================================================================
