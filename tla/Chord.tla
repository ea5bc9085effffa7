-------------------------------- MODULE Chord --------------------------------
(***************************************************************************)
(* The Chord overlay of Nex2Chat (peer/impl/chord_utils.go): Join, with    *)
(* InitFingerTable and updateOthers, and the look-ups of findSuccessor.    *)
(* Every remote procedure call is a step at the callee.                    *)
(*                                                                         *)
(* A node has one caller of its API at a time, which joins the ring and    *)
(* then looks keys up.  What a call does elsewhere, rpcFindSuccessor at    *)
(* the node that is asked and the chain of rpcUpdateFingerTable from node  *)
(* to predecessor, is nested in it: the caller waits for the reply.        *)
(*                                                                         *)
(* A call that can reach its callee is answered before AckTimeout, so a    *)
(* handler runs once per call; a scan of a finger table is one step.       *)
(***************************************************************************)
EXTENDS Ring, FiniteSets

CONSTANTS Node,       \* the nodes, in the ring or not, each known by its chordID
          NoNode,     \* ChordNode{}: identifier 0, address ""
          Asked,      \* keys that are looked up
          Introduced, \* TRUE: gossip has told everybody every address
          MaxMembers, \* bound: nodes that join
          MaxJoins,   \* bound: joins that may be under way at a time
          MaxJobs     \* bound: joins and look-ups that may be under way at a time

\* Chord IDs are hashes of public keys: no two are taken to be equal.
ASSUME NodeAssumption  == Node \subseteq Key /\ NoNode \notin Key
ASSUME AskedAssumption == Asked \subseteq Key
ASSUME ModeAssumption  == /\ Introduced \in BOOLEAN
                          /\ MaxMembers \in Nat /\ MaxJoins \in Nat /\ MaxJobs \in Nat

VARIABLES finger,     \* finger[n][i]: fingerTable[i].Node of n
          predecessor,\* predecessor[n]: predecessorChord of n
          known,      \* known[n]: the addresses in n's routing table
          job         \* job[n]: what the caller at n is doing

vars == <<finger, predecessor, known, job>>

Index == 0 .. M - 1

IdOf(node) == IF node = NoNode THEN 0 ELSE node

\* NewSafeFingerTable: finger i starts 2^i further on.
FingerStart(n, i) == AddInt(n, 2 ^ i)

\* pc: "out", in no ring; "in", between calls.  A search goes from "ask" through
\* "hop" and "successor" to "found"; goal says what it is for.
Job == [pc : {"out", "in", "ask", "hop", "successor", "found",
              "getPredecessor", "setPredecessor", "setSuccessor",
              "initFingers", "updateOthers", "updateFinger"},
        goal : {"successor", "finger", "update", "lookup"},
        existing : Node,              \* Join's argument
        i : 0 .. M,                   \* the loops' index
        by : Node,                    \* who runs findPredecessor, or calls an update
        key : Key,                    \* findPredecessor's argument
        cur : Node \cup {NoNode},     \* remoteChord
        succ : Node \cup {NoNode},    \* remoteChordSuccessor
        result : Node \cup {NoNode},  \* the last look-up's answer
        members : SUBSET Node]        \* history: the ring when the look-up began

NewJob(n) == [pc |-> "out", goal |-> "lookup", existing |-> n, i |-> 0, by |-> n, key |-> 0,
              cur |-> NoNode, succ |-> NoNode, result |-> NoNode, members |-> {}]

-----------------------------------------------------------------------------
(* Calls. *)

\* Unicast needs the callee's address in the routing table.
CanCall(a, b) == b # NoNode /\ b \in known[a]

\* The callee and the caller AddPeer each other, and the caller AddPeers the node
\* in the reply, which is ChordNode{} when there is none.
Called(a, b, replied) ==
  [known EXCEPT ![a] = @ \cup {b, replied}, ![b] = @ \cup {a}]

\* rpcSuccessor and rpcClosestPrecedingFinger of the caller itself are local.
Read(a, b, replied) == IF a = b THEN known ELSE Called(a, b, replied)

\* closestPrecedingFinger: the last finger between the node and the key.
Preceding(n, key) == {i \in Index : IsStrictlyBetween(IdOf(finger[n][i]), n, key)}
ClosestPrecedingFinger(n, key) ==
  IF Preceding(n, key) = {} THEN n
  ELSE finger[n][CHOOSE i \in Preceding(n, key) : \A j \in Preceding(n, key) : j <= i]

-----------------------------------------------------------------------------
Init ==
  /\ finger = [n \in Node |-> [i \in Index |-> NoNode]]
  /\ predecessor = [n \in Node |-> NoNode]
  /\ known = [n \in Node |-> IF Introduced THEN Node ELSE {n}]
  /\ job = [n \in Node |-> NewJob(n)]

\* hasJoinedChordNetwork; a Join under way; and those the ring passes through.
Joined  == {n \in Node : job[n].pc # "out" /\ job[n].goal = "lookup"}
Joining == {n \in Node : job[n].pc # "out" /\ job[n].goal # "lookup"}
Members == {n \in Node : job[n].pc # "out" /\ job[n].goal # "successor"}
Busy    == {n \in Node : job[n].pc \notin {"out", "in"}}

\* Join with no existing node.
JoinFirst(n) ==
  /\ Joined \cup Joining = {}
  /\ MaxMembers > 0
  /\ finger' = [finger EXCEPT ![n] = [i \in Index |-> n]]
  /\ predecessor' = [predecessor EXCEPT ![n] = n]
  /\ job' = [job EXCEPT ![n].pc = "in"]
  /\ UNCHANGED known

\* Join, up to InitFingerTable's rpcFindSuccessor of the first finger.
Join(n, existing) ==
  /\ job[n].pc = "out" /\ existing \in Joined
  /\ Cardinality(Joining) < MaxJoins /\ Cardinality(Busy) < MaxJobs
  /\ Cardinality(Joined \cup Joining) < MaxMembers
  /\ known' = [known EXCEPT ![n] = @ \cup {existing}]
  /\ job' = [job EXCEPT ![n].pc = "ask", ![n].goal = "successor", ![n].existing = existing,
                        ![n].by = existing, ![n].key = FingerStart(n, 0)]
  /\ UNCHANGED <<finger, predecessor>>

\* A post is stored or fetched: findSuccessor of its key.
LookUp(n, key) ==
  /\ job[n].pc = "in"
  /\ Cardinality(Busy) < MaxJobs
  /\ job' = [job EXCEPT ![n] = [NewJob(n) EXCEPT !.pc = "ask", !.key = key, !.members = Members]]
  /\ UNCHANGED <<finger, predecessor, known>>

-----------------------------------------------------------------------------
(* findPredecessor, run by job[n].by. *)

\* It begins at the node that runs it.
Ask(n) ==
  LET by == job[n].by IN
  /\ job[n].pc = "ask"
  /\ by \in known[n]
  /\ known' = [known EXCEPT ![by] = @ \cup {n}]
  /\ job' = [job EXCEPT ![n].pc = "hop", ![n].cur = by, ![n].succ = finger[by][0]]
  /\ UNCHANGED <<finger, predecessor>>

\* What findPredecessor was called for goes on.
Found(n) == job' = [job EXCEPT ![n].pc = IF job[n].goal = "update" THEN "updateFinger" ELSE "found"]

\* While the key is not in (cur, succ]: go to cur's closest preceding finger.
Hop(n) ==
  LET j == job[n] IN
  /\ j.pc = "hop"
  /\ IF IsBetweenLeftOpenRightClosed(j.key, IdOf(j.cur), IdOf(j.succ))
     THEN Found(n) /\ UNCHANGED known
     ELSE LET next == ClosestPrecedingFinger(j.cur, j.key) IN
          /\ CanCall(j.by, j.cur)
          /\ known' = Read(j.by, j.cur, next)
          /\ job' = [job EXCEPT ![n].pc = "successor", ![n].cur = next]
  /\ UNCHANGED <<finger, predecessor>>

\* rpcSuccessor of that finger.
ReadSuccessor(n) ==
  LET j == job[n] IN
  /\ j.pc = "successor"
  /\ CanCall(j.by, j.cur)
  /\ known' = Read(j.by, j.cur, finger[j.cur][0])
  /\ job' = [job EXCEPT ![n].pc = "hop", ![n].succ = finger[j.cur][0]]
  /\ UNCHANGED <<finger, predecessor>>

\* findSuccessor reads the successor of what findPredecessor found once more.
\* The reply of rpcFindSuccessor goes to the caller.
FindSuccessor(n, goal, result) ==
  LET j == job[n]
      asked == Read(j.by, j.cur, result) IN
  /\ j.pc = "found" /\ j.goal = goal
  /\ CanCall(j.by, j.cur)
  /\ result = finger[j.cur][0]
  /\ known' = IF j.by = n THEN asked
              ELSE [asked EXCEPT ![n] = @ \cup {j.by, result}]

Answer(n) ==
  LET result == finger[job[n].cur][0] IN
  /\ FindSuccessor(n, "lookup", result)
  /\ job' = [job EXCEPT ![n] = [NewJob(n) EXCEPT !.pc = "in", !.result = result]]
  /\ UNCHANGED <<finger, predecessor>>

-----------------------------------------------------------------------------
(* InitFingerTable. *)

SetFirstFinger(n) ==
  LET result == finger[job[n].cur][0] IN
  /\ FindSuccessor(n, "successor", result)
  /\ finger' = [finger EXCEPT ![n][0] = result]
  /\ job' = [job EXCEPT ![n].pc = "getPredecessor", ![n].by = n]
  /\ UNCHANGED predecessor

GetPredecessor(n) ==
  LET succ == finger[n][0] IN
  /\ job[n].pc = "getPredecessor"
  /\ CanCall(n, succ)
  /\ predecessor' = [predecessor EXCEPT ![n] = predecessor[succ]]
  /\ known' = Called(n, succ, predecessor[succ])
  /\ job' = [job EXCEPT ![n].pc = "setPredecessor"]
  /\ UNCHANGED finger

\* Variant: the handler drops the new predecessor when it has one already.
SetFirstPredecessor(n) ==
  LET succ == finger[n][0] IN
  /\ job[n].pc = "setPredecessor"
  /\ CanCall(n, succ)
  /\ predecessor' = [predecessor EXCEPT ![succ] = IF @ = NoNode THEN n ELSE @]
  /\ known' = Called(n, succ, NoNode)
  /\ job' = [job EXCEPT ![n].pc = "setSuccessor"]
  /\ UNCHANGED finger

SetPredecessor(n) ==
  LET succ == finger[n][0] IN
  /\ job[n].pc = "setPredecessor"
  /\ CanCall(n, succ)
  /\ predecessor' = [predecessor EXCEPT ![succ] = n]
  /\ known' = Called(n, succ, NoNode)
  /\ job' = [job EXCEPT ![n].pc = "setSuccessor"]
  /\ UNCHANGED finger

SetSuccessor(n) ==
  LET pred == predecessor[n] IN
  /\ job[n].pc = "setSuccessor"
  /\ CanCall(n, pred)
  /\ finger' = [finger EXCEPT ![pred][0] = n]
  /\ known' = Called(n, pred, NoNode)
  /\ job' = [job EXCEPT ![n].pc = "initFingers", ![n].goal = "finger", ![n].i = 0]
  /\ UNCHANGED predecessor

\* Finger i + 1 is finger i, unless its start is beyond that one.
InitFinger(n) ==
  LET i == job[n].i
      start == FingerStart(n, i + 1) IN
  /\ job[n].pc = "initFingers" /\ i < M - 1
  /\ IF IsBetweenLeftClosedRightOpen(start, n, IdOf(finger[n][i]))
     THEN /\ finger' = [finger EXCEPT ![n][i + 1] = finger[n][i]]
          /\ job' = [job EXCEPT ![n].i = i + 1]
     ELSE /\ job' = [job EXCEPT ![n].pc = "ask", ![n].goal = "finger", ![n].key = start,
                                ![n].by = job[n].existing]
          /\ UNCHANGED finger
  /\ UNCHANGED <<predecessor, known>>

\* Variant: the finger asked for is stored one place too low.
SetFingerBelow(n) ==
  LET result == finger[job[n].cur][0] IN
  /\ FindSuccessor(n, "finger", result)
  /\ finger' = [finger EXCEPT ![n][job[n].i] = result]
  /\ job' = [job EXCEPT ![n].pc = "initFingers", ![n].by = n, ![n].i = @ + 1]
  /\ UNCHANGED predecessor

SetFinger(n) ==
  LET result == finger[job[n].cur][0] IN
  /\ FindSuccessor(n, "finger", result)
  /\ finger' = [finger EXCEPT ![n][job[n].i + 1] = result]
  /\ job' = [job EXCEPT ![n].pc = "initFingers", ![n].by = n, ![n].i = @ + 1]
  /\ UNCHANGED predecessor

-----------------------------------------------------------------------------
(* updateOthers. *)

\* For each i: findPredecessor of the key that n is 2^i beyond.
UpdateOthers(n) ==
  LET i == job[n].i IN
  /\ \/ /\ job[n].pc = "initFingers" /\ i = M - 1
        /\ job' = [job EXCEPT ![n].pc = "updateOthers", ![n].i = 0]
     \/ /\ job[n].pc = "updateOthers" /\ i < M
        /\ job' = [job EXCEPT ![n].pc = "ask", ![n].goal = "update", ![n].by = n,
                              ![n].key = SubtractInt(n, 2 ^ i)]
     \/ /\ job[n].pc = "updateOthers" /\ i = M
        /\ job' = [job EXCEPT ![n] = [NewJob(n) EXCEPT !.pc = "in"]]
  /\ UNCHANGED <<finger, predecessor, known>>

NextUpdate(n) == job' = [job EXCEPT ![n].pc = "updateOthers", ![n].by = n, ![n].i = @ + 1]

\* rpcUpdateFingerTable of n itself: the base case.
UpdateDone(n) ==
  /\ job[n].pc = "updateFinger" /\ job[n].cur = n
  /\ NextUpdate(n)
  /\ UNCHANGED <<finger, predecessor, known>>

\* updateFingerTable: a node that takes n as its finger tells its predecessor.
UpdateFinger(n) ==
  LET j == job[n]
      p == j.cur IN
  /\ j.pc = "updateFinger" /\ p # n
  /\ CanCall(j.by, p)
  /\ known' = Called(j.by, p, NoNode)
  /\ IF IsBetweenLeftClosedRightOpen(n, p, IdOf(finger[p][j.i]))
     THEN /\ finger' = [finger EXCEPT ![p][j.i] = n]
          /\ job' = [job EXCEPT ![n].by = p, ![n].cur = predecessor[p]]
     ELSE NextUpdate(n) /\ UNCHANGED finger
  /\ UNCHANGED predecessor

-----------------------------------------------------------------------------
(* Calls that cannot succeed. *)

\* Whom the job has to call next.
Callee(n) ==
  LET j == job[n] IN
  CASE j.pc = "ask" -> j.by
    [] j.pc = "hop" /\ IsBetweenLeftOpenRightClosed(j.key, IdOf(j.cur), IdOf(j.succ)) -> j.by
    [] j.pc = "updateFinger" /\ j.cur = n -> j.by
    [] j.pc \in {"hop", "successor", "found", "updateFinger"} -> j.cur
    [] j.pc \in {"getPredecessor", "setPredecessor"} -> finger[n][0]
    [] j.pc = "setSuccessor" -> predecessor[n]
    [] OTHER -> n

Caller(n) == IF job[n].pc = "ask" THEN n ELSE job[n].by

Lost(n) == job[n].pc # "out" /\ ~CanCall(Caller(n), Callee(n))

\* A Unicast that fails for want of an address is no attempt: the caller tries
\* forever, and only somebody who waits for its reply gives up.
Spins(n) == Lost(n) /\ Caller(n) = n /\ Callee(n) \notin known[n]

\* After RPCRetry timeouts the call fails, and all that waits for it.  Whoever
\* waits for a forwarded update is answered when it tries again: the finger has
\* been set by then.
Fail(n) ==
  /\ Lost(n) /\ ~Spins(n)
  /\ IF job[n].pc = "updateFinger" /\ Caller(n) # n
     THEN NextUpdate(n)
     ELSE job' = [job EXCEPT ![n] = [NewJob(n) EXCEPT !.pc = IF n \in Joined THEN "in" ELSE "out"]]
  /\ UNCHANGED <<finger, predecessor, known>>

Step(n) == \/ Ask(n) \/ Hop(n) \/ ReadSuccessor(n) \/ Answer(n)
           \/ SetFirstFinger(n) \/ GetPredecessor(n) \/ SetPredecessor(n) \/ SetSuccessor(n)
           \/ InitFinger(n) \/ SetFinger(n)
           \/ UpdateOthers(n) \/ UpdateDone(n) \/ UpdateFinger(n)
           \/ Fail(n)

Next == \E n \in Node : \/ JoinFirst(n)
                        \/ \E existing \in Node : Join(n, existing)
                        \/ \E key \in Asked : LookUp(n, key)
                        \/ Step(n)

Spec == Init /\ [][Next]_vars

\* A caller goes on while it can.  Nobody has to join or to look anything up.
FairSpec == Spec /\ \A n \in Node : WF_vars(Step(n))

-----------------------------------------------------------------------------
(* Properties. *)

\* Every variable has its type; above all, the identifiers that are searched for
\* are on the circle (AddIntToBytes and SubtractIntFromBytes reduce mod 2^M).
TypeOK ==
  /\ finger \in [Node -> [Index -> Node \cup {NoNode}]]
  /\ predecessor \in [Node -> Node \cup {NoNode}]
  /\ known \in [Node -> SUBSET (Node \cup {NoNode})]
  /\ job \in [Node -> Job]

\* n's successor is the nearest member clockwise.
OnRing(n) == LET succ == finger[n][0]
             IN succ \in Members /\ \A m \in Members : Gap(n, succ) <= Gap(n, m)

\* The successors of the members are one ring through all of them at every
\* moment, while Join links a node in (rpcFindSuccessor, rpcSetSuccessor) and
\* updateOthers moves fingers, the first ones included.
SuccessorsFormRing == \A n \in Members : OnRing(n)

\* When no Join is under way the predecessors, which rpcSetPredecessor and
\* rpcGetPredecessor set in other steps than the successors, are their inverse.
RingWhenQuiet == Joining = {} => \A n \in Joined : OnRing(n) /\ predecessor[finger[n][0]] = n

\* A search, or the chain of updates, comes to ChordNode{} only through a node
\* that is in the ring but has not finished its Join: the finger table of a
\* member is whole, also when other Joins have failed half way or still run.
OnlyHalfJoinedMislead ==
  [][\A n \in Node :
       /\ job'[n].pc \in {"successor", "updateFinger"}
       /\ job[n].cur # NoNode /\ job'[n].cur = NoNode
       => job[n].cur \notin Joined]_vars

\* No Join fails: a hypothesis of theorems, which three nodes satisfy and four
\* need not.
JoinsReach == \A n \in Joining : ~Lost(n)

\* updateOthers reaches all nodes whose finger tables should refer to n: when no
\* Join is under way, finger i is the first member at or after its start.
FingersRight ==
  Joining = {} => \A n, m \in Joined : \A i \in Index :
    Dist(FingerStart(n, i), finger[n][i]) <= Dist(FingerStart(n, i), m)

\* updateFingerTable and rpcSetSuccessor replace a member's finger by a nearer
\* node only: a new node never makes a search take a longer way.
FingersGetNearer ==
  [][\A n \in Members : \A i \in Index : finger[n][i] # NoNode =>
       Gap(n, finger'[n][i]) <= Gap(n, finger[n][i])]_vars

\* A look-up is answered by the member that was responsible for the key when it
\* began, or by a node that has entered the ring since, though findSuccessor
\* crosses the ring while a Join relinks it and reads the successor twice.
LookingUp(n) == n \in Joined /\ job[n].pc # "in"
Lookups == INSTANCE Directory WITH
  members <- Members,
  query   <- [n \in Node |-> IF LookingUp(n) THEN {[key |-> job[n].key, since |-> job[n].members]}
                                            ELSE {}],
  answer  <- [n \in Node |-> job[n].result]

ImplementsDirectory == Lookups!Spec

\* Every call of Join and of findSuccessor returns, with a result or an error
\* ("RpcRetry specifies the number of attempts", peer.go:107).
JobsEnd == \A n \in Node : job[n].pc \notin {"out", "in"} ~> job[n].pc \in {"out", "in"}

\* But for the caller that has not been told its callee's address, whose retries
\* no RPCRetry counts, it does: no search goes round in the ring, through
\* half-joined nodes and failed Joins, and no chain of updates.
CallsEnd ==
  \A n \in Node : job[n].pc \notin {"out", "in"} ~> (job[n].pc \in {"out", "in"} \/ Spins(n))
=============================================================================
