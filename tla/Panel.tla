------------------------------- MODULE Panel -------------------------------
(***************************************************************************)
(* What one panel of the web page promises its user (main.js): a panel     *)
(* shows the content of something that changes on its own - the routing    *)
(* table of the peer, its catalog, the file chosen in a form - and learns  *)
(* it only by requests.  Contents are versions: source counts the changes, *)
(* shown is the version on display, 0 while there is none.                 *)
(*                                                                         *)
(* A request may be answered late and after requests made later, or never. *)
(* What it brings on display is a version the source had at some moment    *)
(* between the request and the answer: never one from before the request,  *)
(* never one the source did not have.                                      *)
(***************************************************************************)
EXTENDS Naturals

VARIABLES source, shown, requests   \* requests: [id, since] not yet settled

vars == <<source, shown, requests>>

Init ==
    /\ source \in Nat
    /\ shown = 0
    /\ \A r \in requests : r.since = source

\* The source changes, whoever changes it.
Change ==
    /\ source' = source + 1
    /\ UNCHANGED <<shown, requests>>

\* One more request is made.
Ask(r) ==
    /\ r.since = source
    /\ requests' = requests \cup {r}
    /\ UNCHANGED <<source, shown>>

\* A request is settled and its answer shown.
Show(r) ==
    /\ r \in requests
    /\ shown' \in r.since .. source
    /\ requests' = requests \ {r}
    /\ UNCHANGED source

\* A request is settled without an answer: the panel stays as it is.
GiveUp(r) ==
    /\ r \in requests
    /\ requests' = requests \ {r}
    /\ UNCHANGED <<source, shown>>

Next ==
    \/ Change
    \/ \E r \in requests' : Ask(r)
    \/ \E r \in requests : Show(r) \/ GiveUp(r)

Spec == Init /\ [][Next]_vars
=============================================================================
