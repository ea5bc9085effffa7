----------------------------- MODULE MCStimulus -----------------------------
(* Two controllers, the second of which looks up the first, and an element  *)
(* inside the element of the second.                                        *)
EXTENDS Stimulus

CONSTANTS peerInfo, routing

PageParent == <<Root, Root, 2>>
PageValue == <<<<peerInfo>>, <<routing>>, NoAttribute>>
PageNeeds == [i \in Identifier |-> IF i = routing THEN {peerInfo} ELSE {}]
PageAttribute == {NoAttribute, <<peerInfo>>, <<routing>>, <<peerInfo, routing>>, <<routing, routing>>}
=============================================================================
