--------------------------- MODULE RumorBroadcast ---------------------------
(***************************************************************************)
(* What Broadcast promises (types/messaging_def.go calls it "reliable      *)
(* delivery"): the messages of one origin reach the handlers of every      *)
(* other node in the order they were broadcast and once each.  Nothing is  *)
(* promised across origins.                                                *)
(***************************************************************************)
EXTENDS Integers, Sequences

CONSTANT Node

VARIABLES sent,     \* sent[o]: how many messages o has broadcast
          received  \* received[n][o]: the messages of o handled by n

vars == <<sent, received>>

Init == /\ sent = [o \in Node |-> 0]
        /\ received = [n \in Node |-> [o \in Node |-> <<>>]]

Publish(o) == /\ sent' = [sent EXCEPT ![o] = @ + 1]
              /\ UNCHANGED received

\* The next message of o, provided that it exists.
Accept(n, o) == /\ n # o
                /\ Len(received[n][o]) < sent[o]
                /\ received' = [received EXCEPT ![n][o] = Append(@, Len(@) + 1)]
                /\ UNCHANGED sent

Next == \E o \in Node : Publish(o) \/ \E n \in Node : Accept(n, o)

Spec == Init /\ [][Next]_vars
=============================================================================
