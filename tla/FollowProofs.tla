---------------------------- MODULE FollowProofs ----------------------------
(***************************************************************************)
(* Proofs about Follow, for any nodes, any number of callbacks at a time   *)
(* and of calls: the type invariant, that every follower gets every post   *)
(* key, and that whom a node follows has accepted it.                      *)
(***************************************************************************)
EXTENDS Follow, TLAPS

\* A thread that is not idle is about a peer, and one that stores keys has a reader.
Busy == \A n \in Node : \A t \in Thread :
    /\ Pc(n, t) # "idle" => thread[n][t].peer \in Node
    /\ Pc(n, t) = "store" => thread[n][t].reader \in Node

Typed == TypeOK /\ Busy

-----------------------------------------------------------------------------
\* What a step of a thread does to the threads.
LEMMA GotoTyped ==
    ASSUME Typed, NEW n \in Node, NEW t \in Thread, NEW r \in ThreadRecord, Goto(n, t, r),
           r.pc # "idle" => r.peer \in Node,
           r.pc = "store" => r.reader \in Node
    PROVE  thread' \in [Node -> [Thread -> ThreadRecord]] /\ Busy'
<1>1. thread' \in [Node -> [Thread -> ThreadRecord]]
  BY DEF Goto, Typed, TypeOK
<1>2. \A m \in Node : \A u \in Thread :
        thread'[m][u] = IF m = n /\ u = t THEN r ELSE thread[m][u]
  BY DEF Goto, Typed, TypeOK
<1> QED
  BY <1>1, <1>2 DEF Busy, Typed, Pc

LEMMA IdleRecord == Idle \in ThreadRecord /\ Idle.pc = "idle"
BY DEF Idle, ThreadRecord, At

LEMMA ContinueTyped ==
    ASSUME Typed, NEW n \in Node, NEW t \in Thread, NEW pc \in At, Pc(n, t) # "idle",
           pc # "store", Continue(n, t, pc)
    PROVE  thread' \in [Node -> [Thread -> ThreadRecord]] /\ Busy'
<1> DEFINE r == [thread[n][t] EXCEPT !.pc = pc]
<1>1. thread[n][t] \in ThreadRecord /\ thread[n][t].peer \in Node
  BY DEF Typed, TypeOK, Busy
<1>2. r \in ThreadRecord /\ r.pc = pc /\ r.peer = thread[n][t].peer
  BY <1>1 DEF ThreadRecord
<1>3. Goto(n, t, r)
  BY DEF Continue
<1> HIDE DEF r
<1> QED
  BY <1>1, <1>2, <1>3, GotoTyped

LEMMA UserTyped ==
    ASSUME Typed, NEW n \in Node, UserStep(n), ~ UpdateKeys(n, User)
    PROVE  Typed'
<1>0. User \in Thread
  BY DEF Thread
<1>1. ASSUME NEW p \in Node, FollowRequest(n, p)
      PROVE  Typed'
  <2> DEFINE r == [Idle EXCEPT !.pc = "record", !.id = calls', !.peer = p]
  <2>1. calls' \in Nat
    BY <1>1 DEF FollowRequest, Call, Typed, TypeOK
  <2>2. r \in ThreadRecord /\ r.pc = "record" /\ r.peer \in Node
    BY <2>1 DEF Idle, ThreadRecord, At
  <2>3. Goto(n, User, r)
    BY <1>1 DEF FollowRequest
  <2>4. network' \subseteq Packet
    BY <1>1, <2>1 DEF FollowRequest, Packet, Typed, TypeOK
  <2> HIDE DEF r
  <2>5. thread' \in [Node -> [Thread -> ThreadRecord]] /\ Busy'
    BY <1>0, <2>2, <2>3, GotoTyped
  <2> QED
    BY <1>1, <2>1, <2>4, <2>5 DEF FollowRequest, Typed, TypeOK, tables
<1>2. ASSUME NEW p \in Node, StopFollowing(n, p)
      PROVE  Typed'
  <2>1. Busy'
    BY <1>2 DEF StopFollowing, Typed, Busy, Pc
  <2> QED
    BY <1>2, <2>1 DEF StopFollowing, Call, Typed, TypeOK
<1>3. ASSUME NEW p \in Node, Block(n, p)
      PROVE  Typed'
  <2> DEFINE r == [Idle EXCEPT !.pc = "stop", !.peer = p]
  <2>1. r \in ThreadRecord /\ r.pc = "stop" /\ r.peer \in Node
    BY DEF Idle, ThreadRecord, At
  <2>2. Goto(n, User, r)
    BY <1>3 DEF Block
  <2> HIDE DEF r
  <2>3. thread' \in [Node -> [Thread -> ThreadRecord]] /\ Busy'
    BY <1>0, <2>1, <2>2, GotoTyped
  <2>4. calls' \in Nat
    BY <1>3 DEF Block, Call, Typed, TypeOK
  <2>5. blocked' \in [Node -> SUBSET Node]
    BY <1>3 DEF Block, Typed, TypeOK
  <2> QED
    BY <1>3, <2>3, <2>4, <2>5 DEF Block, Typed, TypeOK
<1>4. CASE RecordPending(n)
  <2>1. thread' \in [Node -> [Thread -> ThreadRecord]] /\ Busy'
    BY <1>0, <1>4, IdleRecord, GotoTyped DEF RecordPending
  <2>2. thread[n][User].id \in Nat
    BY <1>0 DEF Typed, TypeOK, ThreadRecord
  <2> QED
    BY <1>4, <2>1, <2>2 DEF RecordPending, Typed, TypeOK
<1>5. CASE BlockStops(n)
  <2>1. thread' \in [Node -> [Thread -> ThreadRecord]] /\ Busy'
    BY <1>0, <1>5, ContinueTyped, "remove" \in At DEF BlockStops, At
  <2> QED
    BY <1>5, <2>1 DEF BlockStops, Typed, TypeOK
<1>6. CASE RemoveFollower(n)
  <2>1. thread' \in [Node -> [Thread -> ThreadRecord]] /\ Busy'
    BY <1>0, <1>6, ContinueTyped, "append" \in At DEF RemoveFollower, At
  <2> QED
    BY <1>6, <2>1 DEF RemoveFollower, Typed, TypeOK
<1>7. CASE GenerateKey(n)
  <2>1. thread' \in [Node -> [Thread -> ThreadRecord]] /\ Busy'
    BY <1>0, <1>7, ContinueTyped, "followers" \in At DEF GenerateKey, At
  <2>2. posts' \in [Node -> Nat]
    BY <1>7 DEF GenerateKey, Typed, TypeOK
  <2> QED
    BY <1>7, <2>1, <2>2 DEF GenerateKey, Typed, TypeOK
<1> QED
  BY <1>1, <1>2, <1>3, <1>4, <1>5, <1>6, <1>7 DEF UserStep

LEMMA KeysTyped ==
    ASSUME Typed, NEW n \in Node, NEW t \in Thread, UpdateKeys(n, t)
    PROVE  Typed'
<1>0. thread[n][t] \in ThreadRecord
  BY DEF Typed, TypeOK
<1>1. CASE GetFollowers(n, t)
  <2> DEFINE r == [thread[n][t] EXCEPT !.pc = "next", !.todo = followers[n]]
  <2>1. r \in ThreadRecord /\ r.pc = "next" /\ r.peer = thread[n][t].peer
    BY <1>0 DEF ThreadRecord, At, Typed, TypeOK
  <2>2. Goto(n, t, r) /\ thread[n][t].peer \in Node
    BY <1>1 DEF GetFollowers, Typed, Busy
  <2> HIDE DEF r
  <2>3. thread' \in [Node -> [Thread -> ThreadRecord]] /\ Busy'
    BY <2>1, <2>2, GotoTyped
  <2> QED
    BY <1>1, <2>3 DEF GetFollowers, Typed, TypeOK, tables
<1>2. CASE NextFollower(n, t)
  <2>1. PICK v \in thread[n][t].todo :
          Goto(n, t, [thread[n][t] EXCEPT !.todo = @ \ {v},
                                          !.pc = IF v \in followers[n] THEN "store" ELSE "next",
                                          !.reader = v])
    BY <1>2 DEF NextFollower
  <2> DEFINE r == [thread[n][t] EXCEPT !.todo = @ \ {v},
                                       !.pc = IF v \in followers[n] THEN "store" ELSE "next",
                                       !.reader = v]
  <2>2. v \in Node
    BY <1>0 DEF ThreadRecord
  <2>3. r \in ThreadRecord /\ r.reader = v /\ r.peer = thread[n][t].peer
    BY <1>0, <2>2 DEF ThreadRecord, At
  <2>4. Goto(n, t, r) /\ thread[n][t].peer \in Node
    BY <1>2, <2>1 DEF NextFollower, Typed, Busy
  <2> HIDE DEF r
  <2>5. thread' \in [Node -> [Thread -> ThreadRecord]] /\ Busy'
    BY <2>2, <2>3, <2>4, GotoTyped
  <2> QED
    BY <1>2, <2>5 DEF NextFollower, Typed, TypeOK, tables
<1>3. CASE StoreKeys(n, t)
  <2>1. thread' \in [Node -> [Thread -> ThreadRecord]] /\ Busy'
    BY <1>3, ContinueTyped, "next" \in At DEF StoreKeys, At
  <2>2. keys' \in [Node -> [Node -> SUBSET Nat]]
    BY <1>3 DEF StoreKeys, Typed, TypeOK, Busy
  <2> QED
    BY <1>3, <2>1, <2>2 DEF StoreKeys, Typed, TypeOK
<1>4. CASE KeysUpdated(n, t)
  <2>1. thread' \in [Node -> [Thread -> ThreadRecord]] /\ Busy'
    BY <1>4, IdleRecord, GotoTyped DEF KeysUpdated
  <2>2. thread[n][t].id \in Nat /\ thread[n][t].peer \in Node
    BY <1>0, <1>4 DEF ThreadRecord, KeysUpdated, Typed, Busy, Pc
  <2>3. network' \subseteq Packet
    BY <1>4, <2>2 DEF KeysUpdated, Packet, Typed, TypeOK
  <2> QED
    BY <1>4, <2>1, <2>3 DEF KeysUpdated, Typed, TypeOK, tables
<1> QED
  BY <1>1, <1>2, <1>3, <1>4 DEF UpdateKeys

LEMMA ReceiveTyped ==
    ASSUME Typed, NEW n \in Node, NEW w \in Worker, NEW packet \in network,
           NEW pc \in At \ {"store"}, NEW drop \in BOOLEAN,
           network' = network \ {packet}, UNCHANGED <<calls, tables>>,
           Goto(n, w, IF drop THEN Idle
                      ELSE [Idle EXCEPT !.pc = pc, !.id = packet.id, !.peer = packet.from])
    PROVE  Typed'
<1> DEFINE r == IF drop THEN Idle
                ELSE [Idle EXCEPT !.pc = pc, !.id = packet.id, !.peer = packet.from]
<1>1. packet.id \in Nat /\ packet.from \in Node
  BY DEF Typed, TypeOK, Packet
<1>2. r \in ThreadRecord /\ (r.pc # "idle" => r.peer \in Node) /\ r.pc # "store"
  BY <1>1, IdleRecord DEF Idle, ThreadRecord, At
<1>3. Goto(n, w, r) /\ w \in Thread
  BY DEF Thread
<1> HIDE DEF r
<1>4. thread' \in [Node -> [Thread -> ThreadRecord]] /\ Busy'
  BY <1>2, <1>3, GotoTyped
<1> QED
  BY <1>4 DEF Typed, TypeOK, tables

LEMMA WorkerTyped ==
    ASSUME Typed, NEW n \in Node, NEW w \in Worker, WorkerStep(n, w), ~ UpdateKeys(n, w)
    PROVE  Typed'
<1>0. w \in Thread
  BY DEF Thread
<1>1. ASSUME NEW packet \in network, ReceiveRequest(n, w, packet)
      PROVE  Typed'
  <2>1. (packet.from \in blocked[n]) \in BOOLEAN /\ "prompt" \in At \ {"store"}
    BY DEF At
  <2> QED
    BY <1>1, <2>1, ReceiveTyped DEF ReceiveRequest
<1>2. ASSUME NEW packet \in network, ReceiveReply(n, w, packet)
      PROVE  Typed'
  <2>1. Goto(n, w, IF packet.id \notin pending[n] THEN Idle
                   ELSE [Idle EXCEPT !.pc = "delete", !.id = packet.id, !.peer = packet.from])
    BY <1>2 DEF ReceiveReply
  <2>2. (packet.id \notin pending[n]) \in BOOLEAN /\ "delete" \in At \ {"store"}
    BY DEF At
  <2> QED
    BY <1>2, <2>1, <2>2, ReceiveTyped DEF ReceiveReply
<1>3. CASE Accept(n, w)
  <2>1. thread' \in [Node -> [Thread -> ThreadRecord]] /\ Busy'
    BY <1>0, <1>3, ContinueTyped, "followers" \in At DEF Accept, At
  <2>2. thread[n][w].peer \in Node
    BY <1>0, <1>3 DEF Accept, Typed, Busy
  <2> QED
    BY <1>3, <2>1, <2>2 DEF Accept, Typed, TypeOK
<1>4. CASE Refuse(n, w) \/ FindsNil(n, w)
  <2>1. thread' \in [Node -> [Thread -> ThreadRecord]] /\ Busy'
    BY <1>0, <1>4, IdleRecord, GotoTyped DEF Refuse, FindsNil
  <2> QED
    BY <1>4, <2>1 DEF Refuse, FindsNil, Typed, TypeOK, tables
<1>5. CASE DeletePending(n, w)
  <2>1. thread' \in [Node -> [Thread -> ThreadRecord]] /\ Busy'
    BY <1>0, <1>5, ContinueTyped, "follow" \in At DEF DeletePending, At
  <2> QED
    BY <1>5, <2>1 DEF DeletePending, Typed, TypeOK
<1>6. CASE AddFollowing(n, w)
  <2>1. thread' \in [Node -> [Thread -> ThreadRecord]] /\ Busy'
    BY <1>0, <1>6, IdleRecord, GotoTyped DEF AddFollowing
  <2>2. thread[n][w].peer \in Node
    BY <1>0, <1>6 DEF AddFollowing, Typed, Busy
  <2> QED
    BY <1>6, <2>1, <2>2 DEF AddFollowing, Typed, TypeOK
<1> QED
  BY <1>1, <1>2, <1>3, <1>4, <1>5, <1>6 DEF WorkerStep

LEMMA TypedInit == Init => Typed
BY IdleRecord DEF Init, Typed, TypeOK, Busy, Pc

LEMMA TypedStep == Typed /\ [Next]_vars => Typed'
<1> SUFFICES ASSUME Typed, [Next]_vars PROVE Typed'
  OBVIOUS
<1>1. ASSUME NEW n \in Node, UserStep(n) PROVE Typed'
  BY <1>1, UserTyped, KeysTyped DEF Thread
<1>2. ASSUME NEW n \in Node, NEW w \in Worker, WorkerStep(n, w) PROVE Typed'
  BY <1>2, WorkerTyped, KeysTyped DEF Thread
<1>3. ASSUME NEW packet \in network, Lose(packet) PROVE Typed'
  BY <1>3 DEF Lose, Typed, TypeOK, Busy, Pc, tables
<1>4. CASE UNCHANGED vars
  BY <1>4 DEF vars, tables, Typed, TypeOK, Busy, Pc
<1> QED
  BY <1>1, <1>2, <1>3, <1>4 DEF Next

\* Every variable of Follow has its type: in particular each answer goes to a node.
THEOREM FollowTypeCorrect == Spec => []TypeOK
<1>1. Spec => []Typed
  BY TypedInit, TypedStep, PTL DEF Spec
<1>2. Typed => TypeOK
  BY DEF Typed
<1> QED
  BY <1>1, <1>2, PTL

-----------------------------------------------------------------------------
(* Every follower gets every post key.  A key that is not stored for a     *)
(* follower yet is owed by a thread: by one that will read the list of     *)
(* followers, or that has the follower on its list or is serving it.       *)

Owes(n, t, v) ==
    \/ Pc(n, t) \in {"append", "followers"}
    \/ Pc(n, t) \in {"next", "store"} /\ v \in thread[n][t].todo
    \/ Pc(n, t) = "store" /\ thread[n][t].reader = v

Covered(n, v, k) == k \in keys[n][v] \/ \E t \in Thread : Owes(n, t, v)

KeysOwed == \A n \in Node : \A v \in followers[n] : \A k \in 1 .. posts[n] : Covered(n, v, k)

\* Threads that a step leaves alone still owe what they owed.
LEMMA OthersOwe ==
    ASSUME Typed, NEW n \in Node, NEW t \in Thread, NEW r, Goto(n, t, r)
    PROVE  \A m \in Node : \A u \in Thread : \A v :
             m # n \/ u # t => Owes(m, u, v)' = Owes(m, u, v)
<1>1. \A m \in Node : \A u \in Thread : m # n \/ u # t => thread'[m][u] = thread[m][u]
  BY DEF Goto, Typed, TypeOK
<1> QED
  BY <1>1 DEF Owes, Pc

\* What t has in its record after it.
LEMMA RecordAfter ==
    ASSUME Typed, NEW n \in Node, NEW t \in Thread, NEW r, Goto(n, t, r)
    PROVE  thread'[n][t] = r
BY DEF Goto, Typed, TypeOK

\* A step that takes nothing from t's debts, at a node whose tables stay.
LEMMA OwesNoLess ==
    ASSUME Typed, KeysOwed, NEW n \in Node, NEW t \in Thread, NEW r, Goto(n, t, r),
           UNCHANGED <<followers, keys, posts>>,
           \A v \in followers[n] : Owes(n, t, v) => Owes(n, t, v)'
    PROVE  KeysOwed'
<1> SUFFICES ASSUME NEW m \in Node, NEW v \in followers[m], NEW k \in 1 .. posts[m]
             PROVE  Covered(m, v, k)'
  BY DEF KeysOwed
<1>1. CASE k \in keys[m][v]
  BY <1>1 DEF Covered
<1>2. ASSUME NEW u \in Thread, Owes(m, u, v)
      PROVE  Owes(m, u, v)'
  BY <1>2, OthersOwe
<1> QED
  BY <1>1, <1>2 DEF KeysOwed, Covered

\* A thread outside updateNodePostKeys owes nothing.
LEMMA OwesNothing ==
    ASSUME NEW n, NEW t, NEW v,
           Pc(n, t) \notin {"append", "followers", "next", "store"}
    PROVE  ~ Owes(n, t, v)
BY DEF Owes

\* While the user is about to append, everything is owed.
LEMMA AppendOwes ==
    ASSUME NEW n, NEW v, Pc(n, User) = "append"
    PROVE  Owes(n, User, v)
BY DEF Owes

LEMMA UserOwes ==
    ASSUME Typed, KeysOwed, NEW n \in Node, UserStep(n), ~ UpdateKeys(n, User)
    PROVE  KeysOwed'
<1>0. User \in Thread
  BY DEF Thread
<1>1. ASSUME NEW p \in Node, FollowRequest(n, p) PROVE KeysOwed'
  BY <1>0, <1>1, OwesNothing, OwesNoLess DEF FollowRequest, Call, tables
<1>2. ASSUME NEW p \in Node, StopFollowing(n, p) PROVE KeysOwed'
  BY <1>2 DEF StopFollowing, KeysOwed, Covered, Owes, Pc
<1>3. ASSUME NEW p \in Node, Block(n, p) PROVE KeysOwed'
  BY <1>0, <1>3, OwesNothing, OwesNoLess DEF Block, Call
<1>4. CASE RecordPending(n)
  BY <1>0, <1>4, OwesNothing, OwesNoLess DEF RecordPending
<1>5. CASE BlockStops(n)
  BY <1>0, <1>5, OwesNothing, OwesNoLess DEF BlockStops, Continue
<1>6. CASE RemoveFollower(n)
  <2> DEFINE r == [thread[n][User] EXCEPT !.pc = "append"]
  <2>1. Goto(n, User, r)
    BY <1>6 DEF RemoveFollower, Continue
  <2>2. thread'[n][User].pc = "append"
    BY <1>0, <2>1, RecordAfter DEF Typed, TypeOK, ThreadRecord
  <2>3. \A m \in Node : followers'[m] \subseteq followers[m]
    BY <1>6 DEF RemoveFollower, Typed, TypeOK
  <2> SUFFICES ASSUME NEW m \in Node, NEW v \in followers'[m], NEW k \in 1 .. posts[m]
               PROVE  Covered(m, v, k)'
    BY <1>6 DEF KeysOwed, RemoveFollower
  <2>4. CASE m = n
    BY <1>0, <2>2, <2>4 DEF Covered, Owes, Pc
  <2>5. CASE m # n
    <3>1. Covered(m, v, k)
      BY <2>3 DEF KeysOwed
    <3>2. \A u \in Thread : Owes(m, u, v)' = Owes(m, u, v)
      BY <1>0, <2>1, <2>5, OthersOwe
    <3> QED
      BY <1>6, <3>1, <3>2 DEF Covered, RemoveFollower
  <2> QED
    BY <2>4, <2>5
<1>7. CASE GenerateKey(n)
  <2> DEFINE r == [thread[n][User] EXCEPT !.pc = "followers"]
  <2>1. Goto(n, User, r)
    BY <1>7 DEF GenerateKey, Continue
  <2>2. thread'[n][User].pc = "followers"
    BY <1>0, <2>1, RecordAfter DEF Typed, TypeOK, ThreadRecord
  <2> SUFFICES ASSUME NEW m \in Node, NEW v \in followers[m], NEW k \in 1 .. posts'[m]
               PROVE  Covered(m, v, k)'
    BY <1>7 DEF KeysOwed, GenerateKey
  <2>4. CASE m = n
    BY <1>0, <2>2, <2>4 DEF Covered, Owes, Pc
  <2>5. CASE m # n
    <3>1. posts'[m] = posts[m]
      BY <1>7, <2>5 DEF GenerateKey, Typed, TypeOK
    <3>2. Covered(m, v, k)
      BY <3>1 DEF KeysOwed
    <3>3. \A u \in Thread : Owes(m, u, v)' = Owes(m, u, v)
      BY <1>0, <2>1, <2>5, OthersOwe
    <3> QED
      BY <1>7, <3>2, <3>3 DEF Covered, GenerateKey
  <2> QED
    BY <2>4, <2>5
<1> QED
  BY <1>1, <1>2, <1>3, <1>4, <1>5, <1>6, <1>7 DEF UserStep

LEMMA KeysOwe ==
    ASSUME Typed, KeysOwed, NEW n \in Node, NEW t \in Thread, UpdateKeys(n, t)
    PROVE  KeysOwed'
<1>0. thread[n][t] \in ThreadRecord
  BY DEF Typed, TypeOK
<1>1. CASE GetFollowers(n, t)
  <2> DEFINE r == [thread[n][t] EXCEPT !.pc = "next", !.todo = followers[n]]
  <2>1. Goto(n, t, r)
    BY <1>1 DEF GetFollowers
  <2>2. r.pc = "next" /\ r.todo = followers[n]
    BY <1>0 DEF ThreadRecord
  <2> HIDE DEF r
  <2>3. thread'[n][t] = r
    BY <2>1, RecordAfter
  <2>4. \A v \in followers[n] : Owes(n, t, v)'
    BY <2>2, <2>3 DEF Owes, Pc
  <2> QED
    BY <1>1, <2>1, <2>4, OwesNoLess DEF GetFollowers, tables
<1>2. CASE NextFollower(n, t)
  <2>1. PICK v \in thread[n][t].todo :
          Goto(n, t, [thread[n][t] EXCEPT !.todo = @ \ {v},
                                          !.pc = IF v \in followers[n] THEN "store" ELSE "next",
                                          !.reader = v])
    BY <1>2 DEF NextFollower
  <2> DEFINE r == [thread[n][t] EXCEPT !.todo = @ \ {v},
                                       !.pc = IF v \in followers[n] THEN "store" ELSE "next",
                                       !.reader = v]
  <2>2. Goto(n, t, r)
    BY <2>1
  <2>3. /\ thread'[n][t].pc = IF v \in followers[n] THEN "store" ELSE "next"
        /\ thread'[n][t].todo = thread[n][t].todo \ {v}
        /\ thread'[n][t].reader = v
    <3>1. thread'[n][t] = r
      BY <2>2, RecordAfter
    <3>2. r.pc = (IF v \in followers[n] THEN "store" ELSE "next") /\ r.reader = v
      BY <1>0 DEF ThreadRecord
    <3>3. r.todo = thread[n][t].todo \ {v}
      BY <1>0 DEF ThreadRecord
    <3> QED
      BY <3>1, <3>2, <3>3
  <2>4. \A x \in followers[n] : Owes(n, t, x) => Owes(n, t, x)'
    BY <1>2, <2>3 DEF NextFollower, Owes, Pc
  <2> HIDE DEF r
  <2> QED
    BY <1>2, <2>2, <2>4, OwesNoLess DEF NextFollower, tables
<1>3. CASE StoreKeys(n, t)
  <2> DEFINE r == [thread[n][t] EXCEPT !.pc = "next"]
             x == thread[n][t].reader
  <2>1. Goto(n, t, r)
    BY <1>3 DEF StoreKeys, Continue
  <2>2. thread'[n][t].pc = "next" /\ thread'[n][t].todo = thread[n][t].todo
    BY <1>0, <2>1, RecordAfter DEF ThreadRecord
  <2>3. x \in Node
    BY <1>3 DEF StoreKeys, Typed, Busy
  <2>4. \A m \in Node : \A v \in Node : keys[m][v] \subseteq keys'[m][v]
    BY <1>3, <2>3 DEF StoreKeys, Typed, TypeOK
  <2>5. 1 .. posts[n] \subseteq keys'[n][x]
    BY <1>3, <2>3 DEF StoreKeys, Typed, TypeOK
  <2>6. \A v : Owes(n, t, v) => Owes(n, t, v)' \/ v = x
    BY <1>3, <2>2 DEF StoreKeys, Owes, Pc
  <2> HIDE DEF r, x
  <2> SUFFICES ASSUME NEW m \in Node, NEW v \in followers[m], NEW k \in 1 .. posts[m]
               PROVE  Covered(m, v, k)'
    BY <1>3 DEF KeysOwed, StoreKeys
  <2>7. v \in Node
    BY DEF Typed, TypeOK
  <2>8. CASE k \in keys[m][v]
    BY <2>4, <2>7, <2>8 DEF Covered
  <2>9. ASSUME NEW u \in Thread, Owes(m, u, v)
        PROVE  Covered(m, v, k)'
    <3>1. CASE m = n /\ u = t
      BY <2>5, <2>6, <2>9, <3>1 DEF Covered
    <3>2. CASE m # n \/ u # t
      BY <2>1, <2>9, <3>2, OthersOwe DEF Covered
    <3> QED
      BY <3>1, <3>2
  <2> QED
    BY <2>8, <2>9 DEF KeysOwed, Covered
<1>4. CASE KeysUpdated(n, t)
  <2>1. \A v \in followers[n] : ~ Owes(n, t, v)
    BY <1>4 DEF KeysUpdated, Owes, Pc
  <2> QED
    BY <1>4, <2>1, OwesNoLess DEF KeysUpdated, tables
<1> QED
  BY <1>1, <1>2, <1>3, <1>4 DEF UpdateKeys

LEMMA WorkerOwes ==
    ASSUME Typed, KeysOwed, NEW n \in Node, NEW w \in Worker, WorkerStep(n, w), ~ UpdateKeys(n, w)
    PROVE  KeysOwed'
<1>0. w \in Thread /\ User \in Thread /\ w # User
  BY ThreadAssumption DEF Thread
<1>1. ASSUME NEW packet \in network, ReceiveRequest(n, w, packet) PROVE KeysOwed'
  BY <1>0, <1>1, OwesNothing, OwesNoLess DEF ReceiveRequest, tables
<1>2. ASSUME NEW packet \in network, ReceiveReply(n, w, packet) PROVE KeysOwed'
  BY <1>0, <1>2, OwesNothing, OwesNoLess DEF ReceiveReply, tables
<1>3. CASE Accept(n, w)
  <2> DEFINE r == [thread[n][w] EXCEPT !.pc = "followers"]
  <2>1. Goto(n, w, r)
    BY <1>3 DEF Accept, Continue
  <2>2. thread'[n][w].pc = "followers"
    BY <1>0, <2>1, RecordAfter DEF Typed, TypeOK, ThreadRecord
  <2> HIDE DEF r
  <2> SUFFICES ASSUME NEW m \in Node, NEW v \in followers'[m], NEW k \in 1 .. posts[m]
               PROVE  Covered(m, v, k)'
    BY <1>3 DEF KeysOwed, Accept
  <2>3. CASE m = n
    BY <1>0, <2>2, <2>3 DEF Covered, Owes, Pc
  <2>4. CASE m # n
    <3>1. v \in followers[m]
      BY <1>3, <2>4 DEF Accept, Typed, TypeOK
    <3>2. Covered(m, v, k)
      BY <3>1 DEF KeysOwed
    <3>3. \A u \in Thread : Owes(m, u, v)' = Owes(m, u, v)
      BY <1>0, <2>1, <2>4, OthersOwe
    <3> QED
      BY <1>3, <3>2, <3>3 DEF Covered, Accept
  <2> QED
    BY <2>3, <2>4
<1>4. CASE Refuse(n, w)
  BY <1>0, <1>4, OwesNothing, OwesNoLess DEF Refuse, tables
<1>5. CASE FindsNil(n, w)
  <2>1. Goto(n, w, Idle) /\ UNCHANGED <<followers, keys, posts>>
    BY <1>5 DEF FindsNil, tables
  <2>2. \A v : Owes(n, User, v)'
    BY <1>0, <1>5, <2>1, OthersOwe, AppendOwes DEF FindsNil
  <2> SUFFICES ASSUME NEW m \in Node, NEW v \in followers[m], NEW k \in 1 .. posts[m]
               PROVE  Covered(m, v, k)'
    BY <2>1 DEF KeysOwed
  <2>3. CASE m = n
    BY <1>0, <2>2, <2>3 DEF Covered
  <2>4. CASE m # n
    <3>1. \A u \in Thread : Owes(m, u, v)' = Owes(m, u, v)
      BY <1>0, <2>1, <2>4, OthersOwe
    <3> QED
      BY <2>1, <3>1 DEF KeysOwed, Covered
  <2> QED
    BY <2>3, <2>4
<1>6. CASE DeletePending(n, w)
  BY <1>0, <1>6, OwesNothing, OwesNoLess DEF DeletePending, Continue
<1>7. CASE AddFollowing(n, w)
  BY <1>0, <1>7, OwesNothing, OwesNoLess DEF AddFollowing
<1> QED
  BY <1>1, <1>2, <1>3, <1>4, <1>5, <1>6, <1>7 DEF WorkerStep

LEMMA KeysOwedStep == Typed /\ KeysOwed /\ [Next]_vars => KeysOwed'
<1> SUFFICES ASSUME Typed, KeysOwed, [Next]_vars PROVE KeysOwed'
  OBVIOUS
<1>1. ASSUME NEW n \in Node, UserStep(n) PROVE KeysOwed'
  BY <1>1, UserOwes, KeysOwe DEF Thread
<1>2. ASSUME NEW n \in Node, NEW w \in Worker, WorkerStep(n, w) PROVE KeysOwed'
  BY <1>2, WorkerOwes, KeysOwe DEF Thread
<1>3. ASSUME NEW packet \in network, Lose(packet) PROVE KeysOwed'
  BY <1>3 DEF Lose, KeysOwed, Covered, Owes, Pc, tables
<1>4. CASE UNCHANGED vars
  BY <1>4 DEF vars, tables, KeysOwed, Covered, Owes, Pc
<1> QED
  BY <1>1, <1>2, <1>3, <1>4 DEF Next

\* Every follower of a node has all its post keys once nobody is storing keys,
\* whatever callbacks, blocks and panics have crossed.
THEOREM EveryFollowerGetsKeys == Spec => []FollowersGetKeys
<1>1. Init => Typed /\ KeysOwed
  BY TypedInit DEF Init, KeysOwed
<1>2. Typed /\ KeysOwed /\ [Next]_vars => (Typed /\ KeysOwed)'
  BY TypedStep, KeysOwedStep
<1>3. Typed /\ KeysOwed => FollowersGetKeys
  BY OwesNothing DEF KeysOwed, Covered, FollowersGetKeys
<1> QED
  BY <1>1, <1>2, <1>3, PTL DEF Spec

-----------------------------------------------------------------------------
(* Whom a node follows has accepted it.  The acceptance is known to the    *)
(* callback that answers, goes with the answer, and is known to the        *)
(* callback that takes the answer.                                         *)

Accepted(n, p) == n \in followers[p] \cup removed[p]

Earned(n, r) ==
    /\ r.pc \in {"followers", "next", "store"} => Accepted(r.peer, n)
    /\ r.pc \in {"delete", "follow"} => Accepted(n, r.peer)

Listed ==
    /\ \A n \in Node : \A p \in following[n] : Accepted(n, p)
    /\ \A packet \in network : packet.type = "followreply" => Accepted(packet.to, packet.from)
    /\ \A n \in Node : \A w \in Worker : Earned(n, thread[n][w])

\* Who has been accepted stays so or is removed.
AcceptedStays == \A n \in Node : \A p \in Node : Accepted(n, p) => Accepted(n, p)'

LEMMA TablesStay ==
    ASSUME UNCHANGED <<followers, removed>>
    PROVE  AcceptedStays
BY DEF AcceptedStays, Accepted

LEMMA NobodyForgotten == Typed /\ [Next]_vars => AcceptedStays
<1> SUFFICES ASSUME Typed, [Next]_vars PROVE AcceptedStays
  OBVIOUS
<1>1. ASSUME NEW n \in Node, NEW t \in Thread, UpdateKeys(n, t)
      PROVE  UNCHANGED <<followers, removed>>
  BY <1>1 DEF UpdateKeys, GetFollowers, NextFollower, StoreKeys, KeysUpdated, tables
<1>2. ASSUME NEW n \in Node, UserStep(n)
      PROVE  AcceptedStays
  <2>1. CASE RemoveFollower(n)
    BY <2>1 DEF RemoveFollower, AcceptedStays, Accepted, Typed, TypeOK
  <2>2. CASE ~ RemoveFollower(n)
    <3>1. UNCHANGED <<followers, removed>>
      BY <1>1, <1>2, <2>2 DEF UserStep, FollowRequest, StopFollowing, Block, RecordPending,
           BlockStops, GenerateKey, Thread, tables
    <3> QED
      BY <3>1, TablesStay
  <2> QED
    BY <2>1, <2>2
<1>3. ASSUME NEW n \in Node, NEW w \in Worker, WorkerStep(n, w)
      PROVE  AcceptedStays
  <2>1. CASE Accept(n, w)
    BY <2>1 DEF Accept, AcceptedStays, Accepted, Typed, TypeOK
  <2>2. CASE ~ Accept(n, w)
    <3>1. UNCHANGED <<followers, removed>>
      BY <1>1, <1>3, <2>2 DEF WorkerStep, ReceiveRequest, ReceiveReply, Refuse, FindsNil,
           DeletePending, AddFollowing, Thread, tables
    <3> QED
      BY <3>1, TablesStay
  <2> QED
    BY <2>1, <2>2
<1>4. ASSUME NEW packet \in network, Lose(packet)
      PROVE  AcceptedStays
  BY <1>4, TablesStay DEF Lose, tables
<1>5. CASE UNCHANGED vars
  BY <1>5, TablesStay DEF vars, tables
<1> QED
  BY <1>2, <1>3, <1>4, <1>5 DEF Next

\* What is known stays known.
LEMMA EarnedStays ==
    ASSUME AcceptedStays, NEW n \in Node, NEW r \in ThreadRecord, Earned(n, r),
           r.pc # "idle" => r.peer \in Node
    PROVE  Earned(n, r)'
BY DEF AcceptedStays, Earned

\* A step of one thread: it must have earned its new record.
LEMMA ThreadListed ==
    ASSUME Typed, Listed, AcceptedStays, NEW n \in Node, NEW t \in Thread, NEW r, Goto(n, t, r),
           t # User => Earned(n, r)'
    PROVE  \A m \in Node : \A w \in Worker : Earned(m, thread[m][w])'
<1> SUFFICES ASSUME NEW m \in Node, NEW w \in Worker PROVE Earned(m, thread[m][w])'
  OBVIOUS
<1>0. w \in Thread /\ w # User
  BY ThreadAssumption DEF Thread
<1>1. CASE m = n /\ w = t
  <2>1. thread'[m][w] = r
    BY <1>1, RecordAfter
  <2> QED
    BY <1>0, <1>1, <2>1 DEF Earned
<1>2. CASE m # n \/ w # t
  <2>1. thread'[m][w] = thread[m][w]
    BY <1>0, <1>2 DEF Goto, Typed, TypeOK
  <2>2. /\ thread[m][w] \in ThreadRecord
        /\ thread[m][w].pc # "idle" => thread[m][w].peer \in Node
        /\ Earned(m, thread[m][w])
    BY <1>0 DEF Typed, TypeOK, Busy, Pc, Listed
  <2>3. (\A x \in ThreadRecord : Earned(m, x) /\ (x.pc # "idle" => x.peer \in Node) => Earned(m, x)')
    BY EarnedStays
  <2> QED
    BY <2>1, <2>2, <2>3 DEF Earned
<1> QED
  BY <1>1, <1>2

\* Packets and tables that only hold what they held.
LEMMA PacketsListed ==
    ASSUME Typed, Listed, AcceptedStays,
           \A packet \in network' : packet \in network \/ packet.type # "followreply"
    PROVE  \A packet \in network' : packet.type = "followreply"
                                      => Accepted(packet.to, packet.from)'
BY DEF Typed, TypeOK, Packet, Listed, AcceptedStays

LEMMA FollowingListed ==
    ASSUME Typed, Listed, AcceptedStays, \A n \in Node : following'[n] \subseteq following[n]
    PROVE  \A n \in Node : \A p \in following'[n] : Accepted(n, p)'
BY DEF Typed, TypeOK, Listed, AcceptedStays

LEMMA UserListed ==
    ASSUME Typed, Listed, AcceptedStays, NEW n \in Node, UserStep(n)
    PROVE  Listed'
<1>0. User \in Thread
  BY DEF Thread
<1>1. \A m \in Node : \A w \in Worker : Earned(m, thread[m][w])'
  <2>1. CASE \E p \in Node : StopFollowing(n, p)
    <3>1. UNCHANGED thread
      BY <2>1 DEF StopFollowing
    <3>2. ASSUME NEW m \in Node, NEW w \in Worker
          PROVE  Earned(m, thread[m][w])'
      <4>1. /\ thread[m][w] \in ThreadRecord
            /\ thread[m][w].pc # "idle" => thread[m][w].peer \in Node
            /\ Earned(m, thread[m][w])
        BY DEF Typed, TypeOK, Busy, Pc, Listed, Thread
      <4> QED
        BY <3>1, <4>1 DEF AcceptedStays, Earned
    <3> QED
      BY <3>2
  <2>2. CASE ~ \E p \in Node : StopFollowing(n, p)
    <3>1. \E r : Goto(n, User, r)
      BY <2>2 DEF UserStep, FollowRequest, Block, RecordPending, BlockStops, RemoveFollower,
           GenerateKey, UpdateKeys, GetFollowers, NextFollower, StoreKeys, KeysUpdated, Continue
    <3> QED
      BY <1>0, <3>1, ThreadListed
  <2> QED
    BY <2>1, <2>2
<1>2. \A packet \in network' : packet \in network \/ packet.type # "followreply"
  <2>1. ASSUME NEW p \in Node, FollowRequest(n, p)
        PROVE  \A packet \in network' : packet \in network \/ packet.type # "followreply"
    BY <2>1 DEF FollowRequest
  <2>2. CASE ~ \E p \in Node : FollowRequest(n, p)
    BY <2>2 DEF UserStep, StopFollowing, Block, RecordPending, BlockStops, RemoveFollower,
         GenerateKey, UpdateKeys, GetFollowers, NextFollower, StoreKeys, KeysUpdated
  <2> QED
    BY <2>1, <2>2
<1>3. \A m \in Node : following'[m] \subseteq following[m]
  <2>1. CASE \E p \in Node : StopFollowing(n, p)
    BY <2>1 DEF StopFollowing, Typed, TypeOK
  <2>2. CASE BlockStops(n)
    BY <2>2 DEF BlockStops, Typed, TypeOK
  <2>3. CASE ~ BlockStops(n) /\ ~ \E p \in Node : StopFollowing(n, p)
    <3>1. UNCHANGED following
      BY <2>3 DEF UserStep, FollowRequest, Block, RecordPending, RemoveFollower, GenerateKey,
           UpdateKeys, GetFollowers, NextFollower, StoreKeys, KeysUpdated, tables
    <3> QED
      BY <3>1
  <2> QED
    BY <2>1, <2>2, <2>3
<1> QED
  BY <1>1, <1>2, <1>3, PacketsListed, FollowingListed DEF Listed

LEMMA KeysListed ==
    ASSUME Typed, Listed, AcceptedStays, NEW n \in Node, NEW w \in Worker, UpdateKeys(n, w)
    PROVE  Listed'
<1> DEFINE job == thread[n][w]
<1>0. w \in Thread /\ w # User
  BY ThreadAssumption DEF Thread
<1>1. /\ job \in ThreadRecord /\ Earned(n, job)
      /\ job.pc \in {"followers", "next", "store"} /\ job.peer \in Node
  <2>1. job.pc \in {"followers", "next", "store"}
    BY DEF Pc, UpdateKeys, GetFollowers, NextFollower, StoreKeys, KeysUpdated
  <2> QED
    BY <1>0, <2>1 DEF Typed, TypeOK, Busy, Pc, Listed
<1>2. Accepted(job.peer, n)
  BY <1>1 DEF Earned
<1>3. UNCHANGED <<followers, removed, following>>
  BY DEF UpdateKeys, GetFollowers, NextFollower, StoreKeys, KeysUpdated, tables
<1>4. PICK r : Goto(n, w, r) /\ (r.peer = job.peer \/ r.pc = "idle") /\ r.pc \notin {"delete", "follow"}
  <2>1. CASE KeysUpdated(n, w)
    BY <2>1, IdleRecord DEF KeysUpdated
  <2>2. CASE GetFollowers(n, w)
    <3> DEFINE q == [job EXCEPT !.pc = "next", !.todo = followers[n]]
    <3>1. Goto(n, w, q) /\ q.peer = job.peer /\ q.pc = "next"
      BY <1>1, <2>2 DEF GetFollowers, ThreadRecord
    <3> HIDE DEF q
    <3> QED
      BY <3>1
  <2>3. CASE NextFollower(n, w)
    <3>1. PICK v \in job.todo :
            Goto(n, w, [job EXCEPT !.todo = @ \ {v},
                                   !.pc = IF v \in followers[n] THEN "store" ELSE "next",
                                   !.reader = v])
      BY <2>3 DEF NextFollower
    <3> DEFINE q == [job EXCEPT !.todo = @ \ {v},
                                !.pc = IF v \in followers[n] THEN "store" ELSE "next",
                                !.reader = v]
    <3>2. Goto(n, w, q) /\ q.peer = job.peer /\ q.pc \in {"store", "next"}
      BY <1>1, <3>1 DEF ThreadRecord
    <3> HIDE DEF q
    <3> QED
      BY <3>2
  <2>4. CASE StoreKeys(n, w)
    <3> DEFINE q == [job EXCEPT !.pc = "next"]
    <3>1. Goto(n, w, q) /\ q.peer = job.peer /\ q.pc = "next"
      BY <1>1, <2>4 DEF StoreKeys, Continue, ThreadRecord
    <3> HIDE DEF q
    <3> QED
      BY <3>1
  <2> QED
    BY <2>1, <2>2, <2>3, <2>4 DEF UpdateKeys
<1>5. \A m \in Node : \A u \in Worker : Earned(m, thread[m][u])'
  <2>1. Earned(n, r)'
    BY <1>2, <1>3, <1>4 DEF Earned, Accepted
  <2> QED
    BY <1>0, <1>4, <2>1, ThreadListed
<1>6. \A packet \in network' : packet.type = "followreply" => Accepted(packet.to, packet.from)'
  <2>1. CASE KeysUpdated(n, w)
    <3>1. network' = network \cup {[type |-> "followreply", id |-> job.id,
                                    from |-> n, to |-> job.peer]}
      BY <1>0, <2>1 DEF KeysUpdated
    <3> QED
      BY <1>2, <1>3, <3>1 DEF Listed, Accepted
  <2>2. CASE ~ KeysUpdated(n, w)
    <3>1. network' = network
      BY <2>2 DEF UpdateKeys, GetFollowers, NextFollower, StoreKeys
    <3> QED
      BY <1>3, <3>1 DEF Listed, Accepted
  <2> QED
    BY <2>1, <2>2
<1> QED
  BY <1>3, <1>5, <1>6 DEF Listed, Accepted

LEMMA WorkerListed ==
    ASSUME Typed, Listed, AcceptedStays, NEW n \in Node, NEW w \in Worker, WorkerStep(n, w),
           ~ UpdateKeys(n, w)
    PROVE  Listed'
<1> DEFINE job == thread[n][w]
<1>0. w \in Thread /\ w # User
  BY ThreadAssumption DEF Thread
<1>1. job \in ThreadRecord /\ Earned(n, job) /\ (job.pc # "idle" => job.peer \in Node)
  BY <1>0 DEF Typed, TypeOK, Busy, Pc, Listed
<1>2. ASSUME NEW packet \in network, ReceiveRequest(n, w, packet)
      PROVE  Listed'
  <2>1. PICK r : Goto(n, w, r) /\ r.pc \in {"idle", "prompt"}
    <3> DEFINE q == [Idle EXCEPT !.pc = "prompt", !.id = packet.id, !.peer = packet.from]
    <3>1. q.pc = "prompt"
      BY DEF Idle
    <3>2. Goto(n, w, IF packet.from \in blocked[n] THEN Idle ELSE q)
      BY <1>2 DEF ReceiveRequest
    <3> HIDE DEF q
    <3>3. CASE packet.from \in blocked[n]
      BY <3>2, <3>3, IdleRecord
    <3>4. CASE packet.from \notin blocked[n]
      BY <3>1, <3>2, <3>4
    <3> QED
      BY <3>3, <3>4
  <2>2. \A m \in Node : \A u \in Worker : Earned(m, thread[m][u])'
    BY <1>0, <2>1, ThreadListed DEF Earned
  <2>3. network' \subseteq network /\ UNCHANGED following
    BY <1>2 DEF ReceiveRequest, tables
  <2> QED
    BY <2>2, <2>3, PacketsListed, FollowingListed DEF Listed
<1>3. ASSUME NEW packet \in network, ReceiveReply(n, w, packet)
      PROVE  Listed'
  <2>1. Accepted(n, packet.from) /\ UNCHANGED <<followers, removed, following>>
    BY <1>3 DEF ReceiveReply, Listed, tables
  <2>2. PICK r : Goto(n, w, r) /\ (r.pc = "idle" \/ (r.pc = "delete" /\ r.peer = packet.from))
    <3> DEFINE q == [Idle EXCEPT !.pc = "delete", !.id = packet.id, !.peer = packet.from]
    <3>1. q.pc = "delete" /\ q.peer = packet.from
      BY DEF Idle
    <3>2. Goto(n, w, IF packet.id \in pending[n] THEN q ELSE Idle)
      BY <1>3 DEF ReceiveReply
    <3> HIDE DEF q
    <3>3. CASE packet.id \in pending[n]
      BY <3>1, <3>2, <3>3
    <3>4. CASE packet.id \notin pending[n]
      BY <3>2, <3>4, IdleRecord
    <3> QED
      BY <3>3, <3>4
  <2>3. Earned(n, r)'
    BY <2>1, <2>2 DEF Earned, Accepted
  <2>4. \A m \in Node : \A u \in Worker : Earned(m, thread[m][u])'
    BY <1>0, <2>2, <2>3, ThreadListed
  <2>5. network' \subseteq network
    BY <1>3 DEF ReceiveReply
  <2> QED
    BY <2>1, <2>4, <2>5, PacketsListed, FollowingListed DEF Listed
<1>4. CASE Accept(n, w)
  <2> DEFINE r == [job EXCEPT !.pc = "followers"]
  <2>1. Goto(n, w, r) /\ r.pc = "followers" /\ r.peer = job.peer
    BY <1>1, <1>4 DEF Accept, Continue, ThreadRecord
  <2>2. job.peer \in followers'[n]
    BY <1>1, <1>4 DEF Accept, Typed, TypeOK
  <2> HIDE DEF r
  <2>3. ASSUME NEW q, q = r PROVE Earned(n, q)'
    BY <2>1, <2>2, <2>3 DEF Earned, Accepted
  <2>4. \A m \in Node : \A u \in Worker : Earned(m, thread[m][u])'
    BY <1>0, <2>1, <2>3, ThreadListed
  <2>5. UNCHANGED <<network, following>>
    BY <1>4 DEF Accept
  <2> QED
    BY <2>4, <2>5, PacketsListed, FollowingListed DEF Listed
<1>5. CASE Refuse(n, w) \/ FindsNil(n, w)
  <2>1. Goto(n, w, Idle) /\ UNCHANGED <<network, following>>
    BY <1>5 DEF Refuse, FindsNil, tables
  <2>2. \A m \in Node : \A u \in Worker : Earned(m, thread[m][u])'
    BY <1>0, <2>1, IdleRecord, ThreadListed DEF Earned
  <2> QED
    BY <2>1, <2>2, PacketsListed, FollowingListed DEF Listed
<1>6. CASE DeletePending(n, w)
  <2> DEFINE r == [job EXCEPT !.pc = "follow"]
  <2>1. Goto(n, w, r) /\ r.pc = "follow" /\ r.peer = job.peer
    BY <1>1, <1>6 DEF DeletePending, Continue, ThreadRecord
  <2>2. Accepted(n, job.peer) /\ UNCHANGED <<network, following, followers, removed>>
    BY <1>1, <1>6 DEF DeletePending, Earned, Pc
  <2> HIDE DEF r
  <2>3. ASSUME NEW q, q = r PROVE Earned(n, q)'
    BY <2>1, <2>2, <2>3 DEF Earned, Accepted
  <2>4. \A m \in Node : \A u \in Worker : Earned(m, thread[m][u])'
    BY <1>0, <2>1, <2>3, ThreadListed
  <2> QED
    BY <2>2, <2>4, PacketsListed, FollowingListed DEF Listed
<1>7. CASE AddFollowing(n, w)
  <2>1. Goto(n, w, Idle) /\ UNCHANGED <<network, followers, removed>>
    BY <1>7 DEF AddFollowing
  <2>2. \A m \in Node : \A u \in Worker : Earned(m, thread[m][u])'
    BY <1>0, <2>1, IdleRecord, ThreadListed DEF Earned
  <2>3. Accepted(n, job.peer)
    BY <1>1, <1>7 DEF AddFollowing, Earned, Pc
  <2>4. \A m \in Node : following'[m] \subseteq following[m] \cup (IF m = n THEN {job.peer} ELSE {})
    BY <1>7 DEF AddFollowing, Typed, TypeOK
  <2>5. \A m \in Node : \A p \in following'[m] : Accepted(m, p)
    BY <2>3, <2>4 DEF Listed
  <2> QED
    BY <2>1, <2>2, <2>5, PacketsListed DEF Listed, Accepted
<1> QED
  BY <1>2, <1>3, <1>4, <1>5, <1>6, <1>7 DEF WorkerStep

LEMMA ListedInit == Init => Listed
BY IdleRecord, ThreadAssumption DEF Init, Listed, Earned, Thread

LEMMA ListedStep == Typed /\ Listed /\ [Next]_vars => Listed'
<1> SUFFICES ASSUME Typed, Listed, [Next]_vars PROVE Listed'
  OBVIOUS
<1>0. AcceptedStays
  BY NobodyForgotten
<1>1. ASSUME NEW n \in Node, UserStep(n) PROVE Listed'
  BY <1>0, <1>1, UserListed
<1>2. ASSUME NEW n \in Node, NEW w \in Worker, WorkerStep(n, w) PROVE Listed'
  BY <1>0, <1>2, WorkerListed, KeysListed
<1>3. ASSUME NEW packet \in network, Lose(packet) PROVE Listed'
  BY <1>3 DEF Lose, Listed, Accepted, Earned, tables
<1>4. CASE UNCHANGED vars
  BY <1>4 DEF vars, tables, Listed, Accepted, Earned
<1> QED
  BY <1>1, <1>2, <1>3, <1>4 DEF Next

\* Whom a node follows has it among its followers, or has removed it since.
THEOREM FollowersListed == Spec => []FollowersAreListed
<1>1. Init => Typed /\ Listed
  BY TypedInit, ListedInit
<1>2. Typed /\ Listed /\ [Next]_vars => (Typed /\ Listed)'
  BY TypedStep, ListedStep
<1>3. Typed /\ Listed => FollowersAreListed
  BY DEF Listed, Accepted, FollowersAreListed
<1> QED
  BY <1>1, <1>2, <1>3, PTL DEF Spec

-----------------------------------------------------------------------------
(* A block lasts.  Block has added the peer to the blocked ones before it  *)
(* removes the follower; a callback asks the user only about those who are *)
(* not blocked, and only those it has asked about become followers.        *)

Blocking == \A n \in Node :
    Pc(n, User) \in {"stop", "remove"} => thread[n][User].peer \in blocked[n]

\* Nobody is ever unblocked.
LEMMA BlockedStay ==
    ASSUME Typed, [Next]_vars, NEW n \in Node
    PROVE  blocked[n] \subseteq blocked'[n]
<1>1. ASSUME NEW m \in Node, UserStep(m) PROVE blocked[n] \subseteq blocked'[n]
  <2>1. CASE \E p \in Node : Block(m, p)
    BY <2>1 DEF Block, Typed, TypeOK
  <2>2. CASE \E p \in Node : FollowRequest(m, p) \/ StopFollowing(m, p)
    BY <2>2 DEF FollowRequest, StopFollowing, tables
  <2>3. CASE RecordPending(m) \/ BlockStops(m) \/ RemoveFollower(m) \/ GenerateKey(m)
    BY <2>3 DEF RecordPending, BlockStops, RemoveFollower, GenerateKey, tables
  <2>4. CASE UpdateKeys(m, User)
    BY <2>4 DEF UpdateKeys, GetFollowers, NextFollower, StoreKeys, KeysUpdated, tables
  <2> QED
    BY <1>1, <2>1, <2>2, <2>3, <2>4 DEF UserStep
<1>2. ASSUME NEW m \in Node, NEW w \in Worker, WorkerStep(m, w)
      PROVE  UNCHANGED blocked
  BY <1>2 DEF WorkerStep, ReceiveRequest, ReceiveReply, Accept, Refuse, FindsNil,
     DeletePending, AddFollowing, UpdateKeys, GetFollowers, NextFollower, StoreKeys,
     KeysUpdated, tables
<1> QED
  BY <1>1, <1>2 DEF Next, Lose, vars, tables

\* A step of one thread leaves the others where they are.
LEMMA OthersStay ==
    ASSUME Typed, NEW n \in Node, NEW t \in Thread, NEW r, Goto(n, t, r)
    PROVE  \A m \in Node : \A u \in Thread : m # n \/ u # t => thread'[m][u] = thread[m][u]
BY DEF Goto, Typed, TypeOK

LEMMA UserMoves ==
    ASSUME Typed, NEW n \in Node, UserStep(n)
    PROVE  thread' = thread \/ \E r : Goto(n, User, r)
BY DEF UserStep, FollowRequest, StopFollowing, Block, RecordPending, BlockStops,
   RemoveFollower, GenerateKey, UpdateKeys, GetFollowers, NextFollower, StoreKeys,
   KeysUpdated, Continue

LEMMA WorkerMoves ==
    ASSUME Typed, NEW n \in Node, NEW w \in Worker, WorkerStep(n, w)
    PROVE  \E r : Goto(n, w, r)
BY DEF WorkerStep, ReceiveRequest, ReceiveReply, Accept, Refuse, FindsNil, DeletePending,
   AddFollowing, UpdateKeys, GetFollowers, NextFollower, StoreKeys, KeysUpdated, Continue

\* Where a thread is after a step, for the steps that go on with the same record.
LEMMA ContinueAfter ==
    ASSUME Typed, NEW n \in Node, NEW t \in Thread, NEW pc, Continue(n, t, pc)
    PROVE  thread'[n][t].pc = pc /\ thread'[n][t].peer = thread[n][t].peer
<1>1. thread[n][t] \in ThreadRecord
  BY DEF Typed, TypeOK
<1>2. thread'[n][t] = [thread[n][t] EXCEPT !.pc = pc]
  BY RecordAfter DEF Continue
<1> QED
  BY <1>1, <1>2 DEF ThreadRecord

LEMMA UpdateAfter ==
    ASSUME Typed, NEW n \in Node, NEW t \in Thread, UpdateKeys(n, t)
    PROVE  thread'[n][t].pc \in {"next", "store", "idle"}
<1>1. thread[n][t] \in ThreadRecord
  BY DEF Typed, TypeOK
<1>2. CASE GetFollowers(n, t)
  <2> DEFINE r == [thread[n][t] EXCEPT !.pc = "next", !.todo = followers[n]]
  <2>1. Goto(n, t, r)
    BY <1>2 DEF GetFollowers
  <2>2. r.pc = "next"
    BY <1>1 DEF ThreadRecord
  <2> HIDE DEF r
  <2> QED
    BY <2>1, <2>2, RecordAfter
<1>3. CASE NextFollower(n, t)
  <2>1. PICK v \in thread[n][t].todo :
          Goto(n, t, [thread[n][t] EXCEPT !.todo = @ \ {v},
                                          !.pc = IF v \in followers[n] THEN "store" ELSE "next",
                                          !.reader = v])
    BY <1>3 DEF NextFollower
  <2>2. thread'[n][t] = [thread[n][t] EXCEPT !.todo = @ \ {v},
                                !.pc = IF v \in followers[n] THEN "store" ELSE "next",
                                !.reader = v]
    BY <2>1, RecordAfter
  <2> QED
    BY <1>1, <2>2 DEF ThreadRecord
<1>4. CASE StoreKeys(n, t)
  BY <1>4, ContinueAfter DEF StoreKeys
<1>5. CASE KeysUpdated(n, t)
  BY <1>5, RecordAfter DEF KeysUpdated, Idle
<1> QED
  BY <1>2, <1>3, <1>4, <1>5 DEF UpdateKeys

LEMMA BlockingStep == Typed /\ Blocking /\ [Next]_vars => Blocking'
<1> SUFFICES ASSUME Typed, Blocking, [Next]_vars, NEW n \in Node,
                    Pc(n, User)' \in {"stop", "remove"}
             PROVE  thread'[n][User].peer \in blocked'[n]
  BY DEF Blocking, Pc
<1>0. User \in Thread /\ User \notin Worker /\ Worker \subseteq Thread
  BY ThreadAssumption DEF Thread
<1>1. CASE thread'[n][User] = thread[n][User]
  BY <1>1, BlockedStay DEF Blocking, Pc
<1>2. ASSUME NEW m \in Node, UserStep(m), m # n
      PROVE  thread'[n][User] = thread[n][User]
  BY <1>0, <1>2, UserMoves, OthersStay
<1>3. CASE UserStep(n)
  <2>1. ASSUME NEW p \in Node, Block(n, p)
        PROVE  thread'[n][User].peer \in blocked'[n]
    <3>1. thread'[n][User].peer = p
      <4> DEFINE r == [Idle EXCEPT !.pc = "stop", !.peer = p]
      <4>1. Goto(n, User, r)
        BY <2>1 DEF Block
      <4>2. r.peer = p
        BY DEF Idle
      <4> HIDE DEF r
      <4> QED
        BY <1>0, <4>1, <4>2, RecordAfter
    <3> QED
      BY <2>1, <3>1 DEF Block, Typed, TypeOK
  <2>2. CASE BlockStops(n)
    <3>1. thread'[n][User].peer = thread[n][User].peer
      BY <1>0, <2>2 DEF BlockStops, Continue, Goto, Typed, TypeOK, ThreadRecord
    <3> QED
      BY <2>2, <3>1 DEF BlockStops, Blocking
  <2>3. CASE \/ \E p \in Node : FollowRequest(n, p) \/ StopFollowing(n, p)
             \/ RecordPending(n) \/ RemoveFollower(n) \/ GenerateKey(n)
             \/ UpdateKeys(n, User)
    <3>1. CASE \E p \in Node : FollowRequest(n, p)
      <4>1. PICK p \in Node : FollowRequest(n, p)
        BY <3>1
      <4> DEFINE r == [Idle EXCEPT !.pc = "record", !.id = calls', !.peer = p]
      <4>2. Goto(n, User, r)
        BY <4>1 DEF FollowRequest
      <4>3. r.pc = "record"
        BY DEF Idle
      <4> HIDE DEF r
      <4>4. thread'[n][User].pc = "record"
        BY <1>0, <4>2, <4>3, RecordAfter
      <4> QED
        BY <4>4 DEF Pc
    <3>2. CASE \E p \in Node : StopFollowing(n, p)
      BY <1>1, <3>2 DEF StopFollowing
    <3>3. CASE RecordPending(n)
      BY <1>0, <3>3, RecordAfter DEF RecordPending, Idle, Pc
    <3>4. CASE RemoveFollower(n) \/ GenerateKey(n)
      BY <1>0, <3>4, ContinueAfter DEF RemoveFollower, GenerateKey, Pc
    <3>5. CASE UpdateKeys(n, User)
      BY <1>0, <3>5, UpdateAfter DEF Pc
    <3> QED
      BY <2>3, <3>1, <3>2, <3>3, <3>4, <3>5
  <2> QED
    BY <1>3, <2>1, <2>2, <2>3 DEF UserStep
<1>4. ASSUME NEW m \in Node, NEW w \in Worker, WorkerStep(m, w)
      PROVE  thread'[n][User] = thread[n][User]
  BY <1>0, <1>4, WorkerMoves, OthersStay
<1> QED
  BY <1>1, <1>2, <1>3, <1>4 DEF Next, Lose, vars

\* The user is asked only about who is not blocked.
LEMMA AskedUnblocked ==
    ASSUME Typed, [Next]_vars, NEW n \in Node, NEW p \in blocked[n], Asked(n, p)'
    PROVE  Asked(n, p)
<1>0. User \in Thread /\ User \notin Worker /\ Worker \subseteq Thread
  BY ThreadAssumption DEF Thread
<1>1. PICK w \in Worker : thread'[n][w].pc = "prompt" /\ thread'[n][w].peer = p
  BY DEF Asked, Pc
<1>2. CASE thread'[n][w] = thread[n][w]
  BY <1>1, <1>2 DEF Asked, Pc
<1>3. ASSUME NEW m \in Node, UserStep(m) PROVE thread'[n][w] = thread[n][w]
  BY <1>0, <1>3, UserMoves, OthersStay
<1>4. ASSUME NEW m \in Node, NEW v \in Worker, WorkerStep(m, v), m # n \/ v # w
      PROVE  thread'[n][w] = thread[n][w]
  BY <1>0, <1>4, WorkerMoves, OthersStay
<1>5. ASSUME WorkerStep(n, w) PROVE FALSE
  <2>1. \A packet \in network : ~ ReceiveRequest(n, w, packet)
    <3> SUFFICES ASSUME NEW packet \in network, ReceiveRequest(n, w, packet) PROVE FALSE
      OBVIOUS
    <3>1. CASE packet.from \in blocked[n]
      <4>1. thread'[n][w] = Idle
        BY <1>0, <3>1, RecordAfter DEF ReceiveRequest
      <4> QED
        BY <1>1, <4>1 DEF Idle
    <3>2. CASE packet.from \notin blocked[n]
      <4>1. thread'[n][w] = [Idle EXCEPT !.pc = "prompt", !.id = packet.id, !.peer = packet.from]
        BY <1>0, <3>2, RecordAfter DEF ReceiveRequest
      <4> QED
        BY <1>1, <3>2, <4>1 DEF Idle
    <3> QED
      BY <3>1, <3>2
  <2>2. \A packet \in network : ~ ReceiveReply(n, w, packet)
    <3> SUFFICES ASSUME NEW packet \in network, ReceiveReply(n, w, packet) PROVE FALSE
      OBVIOUS
    <3>1. \/ thread'[n][w] = Idle
          \/ thread'[n][w] = [Idle EXCEPT !.pc = "delete", !.id = packet.id, !.peer = packet.from]
      <4>1. CASE packet.id \in pending[n]
        BY <1>0, <4>1, RecordAfter DEF ReceiveReply
      <4>2. CASE packet.id \notin pending[n]
        BY <1>0, <4>2, RecordAfter DEF ReceiveReply
      <4> QED
        BY <4>1, <4>2
    <3>2. Idle.pc # "prompt"
      BY DEF Idle
    <3>3. [Idle EXCEPT !.pc = "delete", !.id = packet.id, !.peer = packet.from].pc = "delete"
      BY DEF Idle
    <3> QED
      BY <1>1, <3>1, <3>2, <3>3
  <2>3. ~ Accept(n, w) /\ ~ DeletePending(n, w)
    BY <1>0, <1>1, ContinueAfter DEF Accept, DeletePending
  <2>4. ~ Refuse(n, w) /\ ~ FindsNil(n, w) /\ ~ AddFollowing(n, w)
    BY <1>0, <1>1, RecordAfter DEF Refuse, FindsNil, AddFollowing, Idle
  <2>5. ~ UpdateKeys(n, w)
    BY <1>0, <1>1, UpdateAfter
  <2> QED
    BY <1>5, <2>1, <2>2, <2>3, <2>4, <2>5 DEF WorkerStep
<1> QED
  BY <1>2, <1>3, <1>4, <1>5 DEF Next, Lose, vars

\* Nobody becomes a follower whom the user has not been asked about.
LEMMA FollowersAsked ==
    ASSUME Typed, [Next]_vars, NEW n \in Node, NEW p \in followers'[n], p \notin followers[n]
    PROVE  Asked(n, p)
<1>1. ASSUME NEW m \in Node, UserStep(m) PROVE followers'[n] \subseteq followers[n]
  <2>1. CASE RemoveFollower(m)
    BY <2>1 DEF RemoveFollower, Typed, TypeOK
  <2>2. CASE ~ RemoveFollower(m)
    BY <1>1, <2>2 DEF UserStep, FollowRequest, StopFollowing, Block, RecordPending, BlockStops,
       GenerateKey, UpdateKeys, GetFollowers, NextFollower, StoreKeys, KeysUpdated, tables
  <2> QED
    BY <2>1, <2>2
<1>2. ASSUME NEW m \in Node, NEW w \in Worker, WorkerStep(m, w), ~ Accept(m, w)
      PROVE  UNCHANGED followers
  BY <1>2 DEF WorkerStep, ReceiveRequest, ReceiveReply, Refuse, FindsNil, DeletePending,
     AddFollowing, UpdateKeys, GetFollowers, NextFollower, StoreKeys, KeysUpdated, tables
<1>3. PICK m \in Node, w \in Worker : Accept(m, w)
  BY <1>1, <1>2 DEF Next, Lose, vars, tables
<1>4. m = n /\ p = thread[n][w].peer
  BY <1>3 DEF Accept, Typed, TypeOK
<1> QED
  BY <1>3, <1>4 DEF Accept, Asked

\* A peer that Block has removed while no callback had it before the user is no
\* follower ever after.
THEOREM BlocksLast == Spec => BlockLasts
<1>1. Init => Typed /\ Blocking
  BY TypedInit DEF Init, Blocking, Idle, Pc, Thread
<1>2. Typed /\ Blocking /\ [Next]_vars => (Typed /\ Blocking)'
  BY TypedStep, BlockingStep
<1>3. Typed /\ Blocking /\ [Next]_vars =>
        [\A n \in Node : \A p \in Node :
           \/ Out(n, p)
           \/ RemoveFollower(n) /\ thread[n][User].peer = p /\ ~ Asked(n, p)
           => Out(n, p)']_vars
  <2> SUFFICES ASSUME Typed, Blocking, [Next]_vars, NEW n \in Node, NEW p \in Node,
                      \/ Out(n, p)
                      \/ RemoveFollower(n) /\ thread[n][User].peer = p /\ ~ Asked(n, p)
               PROVE  Out(n, p)'
    OBVIOUS
  <2>1. p \in blocked[n] /\ ~ Asked(n, p)
    BY DEF Out, RemoveFollower, Blocking
  <2>2. p \in blocked'[n] /\ ~ Asked(n, p)'
    BY <2>1, BlockedStay, AskedUnblocked
  <2>3. p \notin followers'[n]
    <3>1. CASE Out(n, p)
      BY <2>1, <3>1, FollowersAsked DEF Out
    <3>2. CASE RemoveFollower(n) /\ thread[n][User].peer = p
      BY <3>2 DEF RemoveFollower, Typed, TypeOK
    <3> QED
      BY <3>1, <3>2
  <2> QED
    BY <2>2, <2>3 DEF Out
<1> QED
  BY <1>1, <1>2, <1>3, PTL DEF Spec, BlockLasts

=============================================================================
