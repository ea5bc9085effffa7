------------------------------ MODULE Directory ------------------------------
(***************************************************************************)
(* What the Chord overlay is for: findSuccessor tells which member of the  *)
(* ring is responsible for a key, while nodes enter.                       *)
(***************************************************************************)
EXTENDS Ring

CONSTANTS Node, NoNode

VARIABLES members,  \* the nodes in the ring
          query,    \* query[n]: the look-up under way at n, if there is one
          answer    \* answer[n]: the answer to the last one

vars == <<members, query, answer>>

\* The first member at or after the key.
IsOwner(n, key, ring) == n \in ring /\ \A m \in ring : Dist(key, n) <= Dist(key, m)

Init == /\ members = {}
        /\ query = [n \in Node |-> {}]
        /\ answer = [n \in Node |-> NoNode]

Enter(n) == /\ members' = members \cup {n}
            /\ UNCHANGED <<query, answer>>

Ask(n, key) == /\ n \in members /\ query[n] = {}
               /\ query' = [query EXCEPT ![n] = {[key |-> key, since |-> members]}]
               /\ answer' = [answer EXCEPT ![n] = NoNode]
               /\ UNCHANGED members

\* The owner when the look-up began, or a node that entered since: without one
\* of these the answer is exact.
Tell(n, result) == /\ \E q \in query[n] : \/ IsOwner(result, q.key, q.since)
                                          \/ result \in members \ q.since
                   /\ answer' = [answer EXCEPT ![n] = result]
                   /\ query' = [query EXCEPT ![n] = {}]
                   /\ UNCHANGED members

GiveUp(n) == /\ query[n] # {}
             /\ query' = [query EXCEPT ![n] = {}]
             /\ UNCHANGED <<members, answer>>

Next == \E n \in Node : \/ Enter(n)
                        \/ \E key \in Key : Ask(n, key)
                        \/ \E result \in Node : Tell(n, result)
                        \/ GiveUp(n)

Spec == Init /\ [][Next]_vars
=============================================================================
