------------------------------- MODULE Follow -------------------------------
(***************************************************************************)
(* Who follows whom, and who is given the keys of whose posts              *)
(* (peer/impl/impl.go, message_callbacks.go, peer_utils.go).               *)
(*                                                                         *)
(* A node encrypts a post with its newest post key.  Every post key is     *)
(* stored once per follower, encrypted for that follower.  The list of     *)
(* followers and the keys are changed by the node's user and by callbacks  *)
(* at the same time, each access to a table under a lock of its own.       *)
(*                                                                         *)
(* Nodes have WithChord and PostEncryption set, share a store (as the      *)
(* tests of encrypted posts do), have set up their keys and know each      *)
(* other's addresses.  A request that fails its validation is one that is  *)
(* lost.                                                                   *)
(***************************************************************************)
EXTENDS Integers

CONSTANTS Node,
          Worker,   \* threads of a node that run callbacks
          User,     \* the thread that calls the API of a node
          Nobody,   \* no node
          MaxCalls, \* bound: calls of the API, at all nodes together
          Lossy     \* whether packets may be lost

ASSUME ThreadAssumption == User \notin Worker
ASSUME NobodyAssumption == Nobody \notin Node
ASSUME CallsAssumption  == MaxCalls \in Nat
ASSUME LossyAssumption  == Lossy \in BOOLEAN

VARIABLES
    network,    \* packets in flight
    following,  \* following[n]: whom n follows
    pending,    \* pending[n]: PendingRequests, requests of n not answered yet
    followers,  \* followers[n]: whom n has accepted
    blocked,    \* blocked[n]: BlockedPeers
    posts,      \* posts[n]: how many post keys n has, len(postPpkModules)
    keys,       \* keys[n][r]: the post keys of n that are stored for r
    thread,     \* thread[n][t]: where thread t of n is
    calls,      \* calls made; the RequestID of a follow request is its number
    removed     \* history: removed[n] are those n has removed and not accepted again

tables == <<following, pending, followers, blocked, posts, keys, removed>>
vars   == <<network, thread, calls, tables>>

Thread == Worker \cup {User}
Packet == [type : {"followrequest", "followreply"}, id : Nat, from : Node, to : Node]

\* pc is what the thread does next, peer whom a call or a callback is about, id
\* the request, todo the followers whose keys are still to be stored and reader
\* the one whose turn it is.
At == {"idle", "record",                  \* FollowRequest
       "prompt",                          \* FollowRequestMessageCallback
       "delete", "follow",                \* FollowReplyMessageCallback
       "stop", "remove", "append",        \* Block
       "followers", "next", "store"}      \* updateNodePostKeys
ThreadRecord == [pc : At, id : Nat, peer : Node \cup {Nobody},
                 todo : SUBSET Node, reader : Node \cup {Nobody}]
Idle == [pc |-> "idle", id |-> 0, peer |-> Nobody, todo |-> {}, reader |-> Nobody]

\* Every variable has its type.
TypeOK ==
    /\ network \subseteq Packet
    /\ following \in [Node -> SUBSET Node]
    /\ pending \in [Node -> SUBSET Nat]
    /\ followers \in [Node -> SUBSET Node]
    /\ blocked \in [Node -> SUBSET Node]
    /\ posts \in [Node -> Nat]
    /\ keys \in [Node -> [Node -> SUBSET Nat]]
    /\ thread \in [Node -> [Thread -> ThreadRecord]]
    /\ calls \in Nat
    /\ removed \in [Node -> SUBSET Node]

\* setupNodeKeys has made the first post key; nobody follows yet.
Init ==
    /\ network = {}
    /\ following = [n \in Node |-> {}]
    /\ pending = [n \in Node |-> {}]
    /\ followers = [n \in Node |-> {}]
    /\ blocked = [n \in Node |-> {}]
    /\ posts = [n \in Node |-> 1]
    /\ keys = [n \in Node |-> [r \in Node |-> {}]]
    /\ thread = [n \in Node |-> [t \in Thread |-> Idle]]
    /\ calls = 0
    /\ removed = [n \in Node |-> {}]

-----------------------------------------------------------------------------
(* Steps of thread t of n. *)

Pc(n, t) == thread[n][t].pc
Goto(n, t, record) == thread' = [thread EXCEPT ![n][t] = record]
Continue(n, t, pc) == Goto(n, t, [thread[n][t] EXCEPT !.pc = pc])

\* A call of the API: one at a time at each node.
Call(n) == Pc(n, User) = "idle" /\ calls < MaxCalls /\ calls' = calls + 1

-----------------------------------------------------------------------------
(* FollowRequest and StopFollowing. *)

\* The request is sent first and noted afterwards.
FollowRequest(n, p) ==
    /\ Call(n) /\ p # n
    /\ network' = network \cup {[type |-> "followrequest", id |-> calls', from |-> n, to |-> p]}
    /\ Goto(n, User, [Idle EXCEPT !.pc = "record", !.id = calls', !.peer = p])
    /\ UNCHANGED tables

RecordPending(n) ==
    /\ Pc(n, User) = "record"
    /\ pending' = [pending EXCEPT ![n] = @ \cup {thread[n][User].id}]
    /\ Goto(n, User, Idle)
    /\ UNCHANGED <<network, calls, following, followers, blocked, posts, keys, removed>>

StopFollowing(n, p) ==
    /\ Call(n) /\ p \in following[n]
    /\ following' = [following EXCEPT ![n] = @ \ {p}]
    /\ UNCHANGED <<network, thread, pending, followers, blocked, posts, keys, removed>>

-----------------------------------------------------------------------------
(* Block: three tables one after another, and then the keys. *)

Block(n, p) ==
    /\ Call(n) /\ p # n
    /\ blocked' = [blocked EXCEPT ![n] = @ \cup {p}]
    /\ Goto(n, User, [Idle EXCEPT !.pc = "stop", !.peer = p])
    /\ UNCHANGED <<network, following, pending, followers, posts, keys, removed>>

BlockStops(n) ==
    /\ Pc(n, User) = "stop"
    /\ following' = [following EXCEPT ![n] = @ \ {thread[n][User].peer}]
    /\ Continue(n, User, "remove")
    /\ UNCHANGED <<network, calls, pending, followers, blocked, posts, keys, removed>>

RemoveFollower(n) ==
    LET p == thread[n][User].peer IN
    /\ Pc(n, User) = "remove"
    /\ followers' = [followers EXCEPT ![n] = @ \ {p}]
    /\ removed' = [removed EXCEPT ![n] = @ \cup (followers[n] \cap {p})]
    /\ Continue(n, User, "append")
    /\ UNCHANGED <<network, calls, following, pending, blocked, posts, keys>>

\* generateNewPostPPKModule appends a new key, under no lock.
GenerateKey(n) ==
    /\ Pc(n, User) = "append"
    /\ posts' = [posts EXCEPT ![n] = @ + 1]
    /\ Continue(n, User, "followers")
    /\ UNCHANGED <<network, calls, following, pending, followers, blocked, keys, removed>>

-----------------------------------------------------------------------------
(* updateNodePostKeys: the list of followers, then one follower after      *)
(* another in any order.                                                   *)

GetFollowers(n, t) ==
    /\ Pc(n, t) = "followers"
    /\ Goto(n, t, [thread[n][t] EXCEPT !.pc = "next", !.todo = followers[n]])
    /\ UNCHANGED <<network, calls, tables>>

\* One who has been removed meanwhile has no id, so no public key: it is skipped.
NextFollower(n, t) ==
    /\ Pc(n, t) = "next"
    /\ \E v \in thread[n][t].todo :
         Goto(n, t, [thread[n][t] EXCEPT !.todo = @ \ {v},
                                         !.pc = IF v \in followers[n] THEN "store" ELSE "next",
                                         !.reader = v])
    /\ UNCHANGED <<network, calls, tables>>

\* All the post keys there are, for one follower.
StoreKeys(n, t) ==
    /\ Pc(n, t) = "store"
    /\ keys' = [keys EXCEPT ![n][thread[n][t].reader] = @ \cup 1 .. posts[n]]
    /\ Continue(n, t, "next")
    /\ UNCHANGED <<network, calls, following, pending, followers, blocked, posts, removed>>

\* A callback that ranges over postPpkModules while the user's append writes it may
\* find the new length before the new element, which is nil: it panics, and the
\* registry recovers.
FindsNil(n, w) ==
    /\ Pc(n, w) = "store" /\ Pc(n, User) = "append"
    /\ Goto(n, w, Idle)
    /\ UNCHANGED <<network, calls, tables>>

\* Variant: the answer goes to the follower whose keys were stored last.
AnswersReader(n, t) ==
    LET job == thread[n][t] IN
    /\ job.pc = "next" /\ job.todo = {}
    /\ network' = IF t = User THEN network
                  ELSE network \cup {[type |-> "followreply", id |-> job.id,
                                      from |-> n, to |-> job.reader]}
    /\ Goto(n, t, Idle)
    /\ UNCHANGED <<calls, tables>>

\* The user's call ends; a callback answers the request.
KeysUpdated(n, t) ==
    LET job == thread[n][t] IN
    /\ job.pc = "next" /\ job.todo = {}
    /\ network' = IF t = User THEN network
                  ELSE network \cup {[type |-> "followreply", id |-> job.id,
                                      from |-> n, to |-> job.peer]}
    /\ Goto(n, t, Idle)
    /\ UNCHANGED <<calls, tables>>

-----------------------------------------------------------------------------
(* Callbacks, each on a goroutine of its own. *)

\* Variant: the user is asked about blocked peers all the same.
ReceiveFromAll(n, w, packet) ==
    /\ packet.type = "followrequest" /\ packet.to = n
    /\ Pc(n, w) = "idle"
    /\ network' = network \ {packet}
    /\ Goto(n, w, [Idle EXCEPT !.pc = "prompt", !.id = packet.id, !.peer = packet.from])
    /\ UNCHANGED <<calls, tables>>

\* FollowRequestMessageCallback drops what a blocked peer asks.
ReceiveRequest(n, w, packet) ==
    /\ packet.type = "followrequest" /\ packet.to = n
    /\ Pc(n, w) = "idle"
    /\ network' = network \ {packet}
    /\ Goto(n, w, IF packet.from \in blocked[n] THEN Idle
                  ELSE [Idle EXCEPT !.pc = "prompt", !.id = packet.id, !.peer = packet.from])
    /\ UNCHANGED <<calls, tables>>

\* Variant: a new follower is not given the keys there are.
AcceptWithoutKeys(n, w) ==
    LET p == thread[n][w].peer IN
    /\ Pc(n, w) = "prompt"
    /\ followers' = [followers EXCEPT ![n] = @ \cup {p}]
    /\ removed' = [removed EXCEPT ![n] = @ \ {p}]
    /\ Continue(n, w, "next")
    /\ UNCHANGED <<network, calls, following, pending, blocked, posts, keys>>

\* FollowRequestUserPrompt answers after any time, ...
Accept(n, w) ==
    LET p == thread[n][w].peer IN
    /\ Pc(n, w) = "prompt"
    /\ followers' = [followers EXCEPT ![n] = @ \cup {p}]
    /\ removed' = [removed EXCEPT ![n] = @ \ {p}]
    /\ Continue(n, w, "followers")
    /\ UNCHANGED <<network, calls, following, pending, blocked, posts, keys>>

\* Variant: who is refused is answered all the same.
RefuseWithAnswer(n, w) ==
    /\ Pc(n, w) = "prompt"
    /\ Continue(n, w, "next")
    /\ UNCHANGED <<network, calls, tables>>

\* ... or refuses.
Refuse(n, w) ==
    /\ Pc(n, w) = "prompt"
    /\ Goto(n, w, Idle)
    /\ UNCHANGED <<network, calls, tables>>

\* FollowReplyMessageCallback ignores an answer to what is not pending.
ReceiveReply(n, w, packet) ==
    /\ packet.type = "followreply" /\ packet.to = n
    /\ Pc(n, w) = "idle"
    /\ network' = network \ {packet}
    /\ Goto(n, w, IF packet.id \in pending[n]
                  THEN [Idle EXCEPT !.pc = "delete", !.id = packet.id, !.peer = packet.from]
                  ELSE Idle)
    /\ UNCHANGED <<calls, tables>>

DeletePending(n, w) ==
    /\ Pc(n, w) = "delete"
    /\ pending' = [pending EXCEPT ![n] = @ \ {thread[n][w].id}]
    /\ Continue(n, w, "follow")
    /\ UNCHANGED <<network, calls, following, followers, blocked, posts, keys, removed>>

AddFollowing(n, w) ==
    /\ Pc(n, w) = "follow"
    /\ following' = [following EXCEPT ![n] = @ \cup {thread[n][w].peer}]
    /\ Goto(n, w, Idle)
    /\ UNCHANGED <<network, calls, pending, followers, blocked, posts, keys, removed>>

\* A packet is lost, or its request does not pass the validation.
Lose(packet) ==
    /\ Lossy
    /\ network' = network \ {packet}
    /\ UNCHANGED <<thread, calls, tables>>

-----------------------------------------------------------------------------
UpdateKeys(n, t) ==
    GetFollowers(n, t) \/ NextFollower(n, t) \/ StoreKeys(n, t) \/ KeysUpdated(n, t)

UserStep(n) ==
    \/ \E p \in Node : FollowRequest(n, p) \/ StopFollowing(n, p) \/ Block(n, p)
    \/ RecordPending(n) \/ BlockStops(n) \/ RemoveFollower(n) \/ GenerateKey(n)
    \/ UpdateKeys(n, User)

WorkerStep(n, w) ==
    \/ \E packet \in network : ReceiveRequest(n, w, packet) \/ ReceiveReply(n, w, packet)
    \/ Accept(n, w) \/ Refuse(n, w)
    \/ UpdateKeys(n, w) \/ FindsNil(n, w)
    \/ DeletePending(n, w) \/ AddFollowing(n, w)

Next ==
    \/ \E n \in Node : UserStep(n) \/ \E w \in Worker : WorkerStep(n, w)
    \/ \E packet \in network : Lose(packet)

Spec == Init /\ [][Next]_vars

-----------------------------------------------------------------------------
\* Once nobody at n is about to store keys, every follower of n has all the post
\* keys of n, however acceptances, blocks and panics have interleaved.
FollowersGetKeys ==
    \A n \in Node :
      (\A t \in Thread : Pc(n, t) \notin {"append", "followers", "next", "store"})
        => \A v \in followers[n] : 1 .. posts[n] \subseteq keys[n][v]

\* Whom n follows has accepted n, and has n among its followers unless it has
\* removed n since.
FollowersAreListed ==
    \A n \in Node : \A p \in following[n] : n \in followers[p] \cup removed[p]

Asked(n, p) == \E w \in Worker : Pc(n, w) = "prompt" /\ thread[n][w].peer = p
Out(n, p)   == p \in blocked[n] /\ p \notin followers[n] /\ ~ Asked(n, p)

\* A block lasts: unless the user is being asked about p when Block removes it, p is no
\* follower from then on, and neither is it once the user has refused.
BlockLasts ==
    [][\A n \in Node : \A p \in Node :
         \/ Out(n, p)
         \/ RemoveFollower(n) /\ thread[n][User].peer = p /\ ~ Asked(n, p)
         => Out(n, p)']_vars

Quiet == network = {} /\ \A n \in Node : \A t \in Thread : Pc(n, t) = "idle"

\* "Block prevent a peer from following you" (peer/socialnetwork.go:60): a blocked
\* peer is no follower once Block has returned.
BlockedDoesNotFollow ==
    Quiet => \A n \in Node : followers[n] \cap blocked[n] = {}

\* "Node1 should no longer be able to decrypt the posts."
\* (peer/tests/unit/socialnetwork_test.go:874): who is a follower no more has no key
\* to the posts that are encrypted from now on.
RemovedCannotRead ==
    Quiet => \A n \in Node : \A p \in removed[n] : posts[n] \notin keys[n][p]

\* "Check if follow succeeded." (socialnetwork_test.go:856): after one follow request
\* and nothing else, who has been accepted follows.
AcceptedFollows ==
    Quiet /\ calls = 1 => \A n \in Node : \A p \in Node : n \in followers[p] => p \in following[n]

=============================================================================
