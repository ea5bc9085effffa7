# Formal models of Nex2Chat

TLA+ models of Nex2Chat, a peer-to-peer social network in Go with a web page in
JavaScript: what its peers and its page do, checked with TLC on small instances, and theorems about them proved with
TLAPS for instances of every size. Paths below are relative to `src/`.

## The system

A peer (`peer/impl`) is one `node` value: a socket, a few goroutines and many
tables, each under a lock of its own. `Start` (impl.go:221) runs the receive
loop. Without `WithChord` and `RequestValidation` it calls `processPacket`
itself, so callbacks run one at a time; with one of them each packet gets a
goroutine and callbacks run side by side. The message registry maps a
message's type to its callback and runs that callback in a goroutine whose
panics it recovers; afterwards a goroutine calls the notification handlers.

`gui/httpnode` serves a web page per peer. `main.js` defines one Stimulus
controller per panel; `stimulus.js` connects controllers to the elements that
name them and calls their methods on clicks. A method awaits an HTTP request to
the peer and writes the answer into its panel. Packets that the peer processes
reach the page over an event stream.

| Component | State | Operations | Interacts with | Hard | Correct when |
|---|---|---|---|---|---|
| Gossip (`message_callbacks.go:27-149`, `peer_utils.go`) | rumor table, ack channels (`SyncTable`), routing table | `Broadcast`, `AddPeer`, callbacks of rumors, status and ack, the mongering goroutine, the anti-entropy and heartbeat timers | registry (embedded messages), socket, routing | loss, duplication, reordering, late acks, callbacks side by side | each origin's messages are handled everywhere, in order and once; who acknowledges a packet has taken it; answers fit |
| Chord (`chord_utils.go`, `safe_fingertable.go`, `utils.go`) | finger table, predecessor, `hasJoinedChordNetwork` | `Join`, `InitFingerTable`, `updateOthers`, `updateFingerTable`, `findSuccessor` | RPC channels, Unicast, `AddPeer` | searches cross a ring that is being relinked; nested calls; unknown addresses | the successors are one ring, a look-up finds the owner, a member's table leads nobody astray |
| Routing (`impl.go:277-360`) | routing table | `Unicast`, `AddPeer`, `SetRoutingEntry`, relaying | everything | stale routes, circles | a packet arrives or its sender learns of it |
| RPC channels (`async_handler.go`) | a channel per request | add, remove, send without waiting | Chord, posts, catalogs, validation | a reply before the receiver waits, late replies | a reply wakes its caller, once |
| Peer validation (`entityverify`, `peer_utils.go:1120-1178`) | table of hashes, outstanding challenges | generate, solve, validate | in front of data, search and follow requests | replies faster than the registration, concurrent validations | a request is processed only after a valid answer |
| Posts, catalogs (`impl.go:480-880`) | post store, post catalog, likes | store, get, like, comment, feeds | Chord, RPC channels, keys | read-modify-write across nodes | no post, like or comment is lost |
| Post keys (`n2ccrypto/ppk_module.go`, `peer_utils.go:1180-1260`) | key list, encrypted keys per follower | new key, update for followers | followers, posts | key change while posts are read | followers read posts, removed ones do not read new ones |
| Follow, block (`impl.go:876-930`, `message_callbacks.go:268-336`) | following, followers, pending, blocked | request, reply, stop, remove, block | validation, keys | a block while the user is asked | a blocked peer is no follower |
| Flags (`impl.go:939`, `message_callbacks.go:338`) | flags per post, reputation | flag, callback | gossip, posts | automatic flags set off others | one flag per node, threshold respected |
| Data sharing, search (`impl.go:340-470`, `message_callbacks.go:168-266`) | blob and naming stores, catalog, requests seen, replies | upload, download, search | routing, ack channels | duplicates, late replies, budgets | data is what its hash says; a search stays in its budget |
| Web page (`main.js`) | panels, flashes, chat | one async method per button, `initialize` | HTTP handlers, Stimulus | answers late, lost and out of order; updates overlap; a second await fails | a panel shows what the peer had during the request; an update after a write shows the write; every request ends visibly |
| Stimulus, controllers (`stimulus.js:336-880, 1340-2050`) | elements, tokens, scopes with counts, modules, contexts | start, register, unload, records of mutations | DOM, controllers | records come late, in batches, to a changed document | the connected controllers are those the document names, each once |
| Stimulus, actions (`stimulus.js:1-334, 900-1160, 1600-1670`) | bindings, event listeners | bind, unbind, dispatch, find targets | DOM, contexts | nested controllers of one name, stopped events | a click calls each action once, on the right controller |
| Registry and packet feed (`registry/standard`, `controller/registry.go`) | handlers, notifications, a channel per request | register, process, notify | callbacks, HTTP, `EventSource` | goroutines queue for a lock and time out; a page leaves; reconnections | a listening page gets each packet once, in order |
| Transports, storage, cryptography, command line, graph rendering, test tools | | | | | not modelled as components of their own |

Gossip reads the routing table that Chord's `AddPeer` calls extend. Posts ask
Chord for the owner of a key and then call it. Flags and heartbeats are
broadcasts. Validation comes before the callbacks of three message types. The
page's methods run when Stimulus has connected their controllers and bound
their actions; `Stimulus`, `Bindings`, `Page` and `PacketFeed` are these layers
from the document to the peer, and each takes the one below from its properties.

## Modules

| Module | What it is |
|---|---|
| `Gossip` | the gossip of every peer, one action per handler step |
| `RumorBroadcast` | what gossip promises: per-origin FIFO, no duplicates |
| `MCGossip` | topologies and rumor counts for TLC |
| `GossipProofs` | theorems about `Gossip`: types, tables, statuses, delivery, acks, answers, the neighbors tried |
| `Ring` | arithmetic on identifiers and the three interval tests |
| `Directory` | what the overlay promises: the owner of a key, while nodes enter |
| `Chord` | the overlay of every node, one action per remote call |
| `MCChord` | `Chord` for TLC |
| `ChordProofs` | theorems about `Ring` and `Chord`: intervals, types, the ring, the fingers, who leads astray; `Chord` implements `Directory` |
| `Panel` | what one panel of the page promises: a state the peer had during the request |
| `Page` | the requests of the page, one operator per method of `main.js` |
| `PageProofs` | theorems about `Page` |
| `Stimulus`, `MCStimulus` | which controllers are connected; the instance for TLC |
| `StimulusProofs` | theorems about `Stimulus` |
| `Bindings`, `MCBindings` | actions, listeners, targets and clicks; the instance for TLC |
| `BindingsProofs` | theorems about `Bindings` |
| `PacketFeed` | from `ProcessPacket` to the page that shows the packet |
| `FeedProofs` | theorems about `PacketFeed` |
| `Follow`, `MCFollow` | follow requests, blocks and the keys of posts; the instance for TLC |
| `FollowProofs` | theorems about `Follow` |
| `Validation`, `MCValidation` | challenges before requests are processed; the instance for TLC |
| `ValidationProofs` | theorems about `Validation` |

### Gossip and the code

`rumorTable[n][o]` is the list of `RumorTable[o]` at `n`, kept as sequence
numbers: the content matters only for whether its handler fails, which is a
choice (`"handler" \in Faults`). `routing` is the routing table, `syncTable`
the ack channels with whether each is closed, `monger` the goroutines of
`sendRumorsAndWaitForAck`, `handlers` the running callbacks, `network` the
packets in flight. `delivered` is history: what the registry was given.

`RumorsMessageCallback` is cut where its locks are: it reads the neighbors
(`ReceiveRumors`), reads the last sequence number (`CheckRumor`), appends
(`StoreRumor`), writes the route and runs the embedded handler (`DeliverRumor`),
and at the end acknowledges and passes the packet on (`ReplyToRumors`). The
route and the embedded handler are one step: nothing another thread does
between them is told apart. `StatusMessageCallback` reads the status
(`ReceiveStatus`) and then forwards or reconciles (`ForwardStatus`,
`Reconcile`); the tables may have grown meanwhile. An ack closes its channel,
and one that finds it closed panics (`ReceiveAck`, `Recover`). `Worker` is the
set of threads that run callbacks: one for the plain receive loop, two for
`WithChord` or `RequestValidation`. Map iteration order is a choice
(`Sortings`). Gossip packets always go directly, as the code sends them.
`SetRoutingEntry` (impl.go:343), by which the user changes the routing table over
HTTP, is left out.

### Chord and the code

A node is its `chordID`, `NoNode` is `ChordNode{}`, whose id is 0. `finger`
and `predecessor` are the node's own state, `known` the addresses in its
routing table: `Unicast` to another one fails, and callbacks of requests and
replies add the addresses they see (`Called`). `job[n]` is where the caller at
`n` is in `Join` or `findSuccessor`; handlers that call others in turn
(`rpcFindSuccessor`, the chain of `rpcUpdateFingerTable`) are nested in it, `by`
being the node that runs them. Every remote call is one step, taken at the
callee, and steps of different jobs interleave. `findPredecessor` is `Ask`,
`Hop`, `ReadSuccessor`; `findSuccessor` then reads the successor again
(`FindSuccessor`). `InitFingerTable` is `SetFirstFinger`, `GetPredecessor`,
`SetPredecessor`, `SetSuccessor` and the loop of `InitFinger`/`SetFinger`;
`updateOthers` is `UpdateOthers`, `UpdateFinger`, `UpdateDone`. A call that
cannot reach its callee (`Lost`) spins at its caller without end if the address
is unknown (`Spins`), and fails after `RPCRetry` timeouts if it is the empty address;
whoever waits for a spinning handler fails as well (`Fail`).

Abstractions: a call that can reach its callee is answered before `AckTimeout`,
so handlers run once per call; ids are distinct; the scan of a finger table
under its lock per entry is one step; nodes do not crash.

### The page and the code

A job of `Page` is one click, or one `initialize`, with all that it awaits.
JavaScript runs one piece at a time, so an action is the code between two
awaits: `Submit`, `Update`, `Resolve`, `Upload` up to the `await`, and one
operator per continuation (`ShowTable`, `DrawGraph`, `EntryAdded`, ...). `Send`,
`UpdateRouting`, ... `Tag` put each method together; `op` says which method a job
is in, so an update after a write is the same job with another `op`. `Serve` is
what the HTTP handler does, at any time and in any order; `Lose` is every way to
get no answer. Contents are versions that count the changes of a resource.

`shown`, `searching`, `flashes` and `chat` are what the user sees. `told` and
`since` are history: the version that the job has told the user of, and the one
there was when the request left. `Routing.update` catches the error of the first
fetch and asks for the graph all the same; the code does so and so does
`ShowTable`. Searches leave "searching..." when they fail. `Naming.resolve`
ignores its check. The removal of a flash after 4 s, the upload's progress,
collapsing and the peer's own address are left out.

### Stimulus and the code

`node.html` calls `main()` in an inline script at the end of its body, so
`document.readyState` is "loading" or not and `Application.start` may wait while
`register` is called (`Main`, `DomReady`, `Start`). The tables of the observers
stand one above the other: `ElementObserver` (`elements`), `TokenListObserver`
(`tokens`), `ScopeObserver` (`references`), `Router` and `Module` (`scopes`,
`modules`, `contexts`, `connected`); `calls` and `missed` are history. A change of the
DOM queues a record (`Queue`); `Deliver` hands over all that have gathered, and
`Process` handles one with the document as it is. Removed nodes stay observed until
the records are handed over (`transient`), as the DOM standard has it. No controller of
`main.js` changes `data-controller` or `data-action`, so the document does not
change until the batch is empty (`Idle`). What a record does is stated for all
elements and scopes at once: which elements are observed then
(`ProcessMutation`), which tokens are replaced (`Observe`, `FirstDiffering`), how
many of them name a scope and so which counts leave or reach 0 (`Unmatched`,
`Matched`, `UnmatchScope`, `MatchScope`). Scopes share no state, so the order
matters only to what `initialize` finds, and that is `InOrder`.

`Bindings` starts where `Stimulus` ends: it takes the controllers that are
connected from the document at each hand-over and models what each context does
with `data-action`: which tokens it reads when it starts, goes on and stops
(`Read`), which bindings it replaces (`FirstDiffering`, `Gone`, `Come`), what the
dispatcher then has (`Dispatch`), and what an event calls (`HandleEvent`,
`WillBeInvoked`). The contexts take their turns in the code; a binding carries its
context, and a context touches no other's bindings, so one step does for all. All actions are clicks, as the fourteen of `node.html` are.
`Click` is a function of the state: a click is handled in one go. Its calls are a
set, each with its place; `Before` is the order they are made in, and `UntilStopped`
leaves out what comes after a call that stops the event.

### The packet feed and the code

`thread` are the callers of `ProcessPacket`, `exec` the goroutines of `ExecAll`,
`holder` the one with the lock. The loop over the handlers is one step per
handler (`Notify`), which waits while that request's channel is full.
`RegisterNotify` takes the same lock. `Write` and `ContextDone` are the two cases
of the loop in `pktNotifyGet`; `PacketMessage` and `PacketError` are the page's.
`EventSource` connects again after an error, with a new request.

### Follow, the keys and the code

`thread[n]` are the user's calls at `n`, one at a time, and its running callbacks
(`Worker`). Each access to a table is under a lock of its own and so an action of
its own: `Block` adds to `blocked`, `BlockStops` and `RemoveFollower` change two
more tables, `GenerateKey` appends to `postPpkModules` under no lock, and the steps
of `updateNodePostKeys` follow. A callback looks at `blocked` (`ReceiveRequest`),
the user answers after any time (`Accept`, `Refuse`), the keys are updated and the
answer is sent (`KeysUpdated`). `updateNodePostKeys` reads the list of followers
once, reads each one's id (`NextFollower`) and stores all keys for it (`StoreKeys`).
A thread that ranges over the slice while it is appended to may find a nil element,
panics and is recovered (`FindsNil`); tears of a Go slice or map that end the
process are left out. `removed` is history.

Assumptions: nodes have `WithChord` (so callbacks run side by side) and
`PostEncryption`, have set up their keys and share a store, as the tests of
encrypted posts do; nobody follows or blocks itself. A request whose validation
fails is one that is lost. A key is its number; ciphers are left out.

### Validation and the code

`job` are the goroutines of `processPacketWithValidate`, from `validatePeer` to its
result; `challenges` is the table of open challenges, `generated` the proof-of-space
module's, `channel` the channels of `AsyncHandler` under the challenge's
`RequestID`, each named by the goroutine that has added it. Two goroutines of one
peer may both find no open challenge and make two, or share one and with it the
channel: `AddChannel` replaces the other's, `RemoveChannel` removes whichever is
there. A reply is handed over only to a goroutine that waits (`SendToChan`).
`ValidateChallenge` looks under a read lock and deletes under another
(`LookUpChallenge`, `DeleteChallenge`), so two goroutines may spend one challenge.
`answered` is history: the goroutines to whose challenge a reply has come before
they gave up. A peer answers each challenge it gets, or nobody answers (`Lose`);
the number is always found, as every challenge has the same difficulty.

## Runs

| Run | Question | Bounds, and why they are enough |
|---|---|---|
| `gossip_pair` | Do tables, statuses and delivery agree, does an ack mean that the packet has been taken, do answers to old statuses fit, with every fault? | Two peers, two rumors of one origin: the second can overtake, repeat or follow a failed first one. Loss, duplication, failing handlers and sends; late `AddPeer`. |
| `gossip_live` | Does anti-entropy alone deliver everything? | A chain of three told about one way only; loss; no acks, mongering on. |
| `gossip_concurrent` (violation) | Is a status the last sequence number with callbacks side by side? | Two peers, two workers, one rumor. |
| `gossip_acks` (violation) | Is the status in every ack processed? | One peer with two to choose from, one rumor, acks that may come after `AckTimeout`; no other fault is needed. |
| `chord_lookup` | What are the ring, the fingers and the answers to look-ups while nodes join? | Three of the ids 1, 3, 4, 5 and 7 (of 3 bits), in any order and over any member: neighbors, gaps and a table that wraps round; keys 4, at or next to a node, and 0, past the last one; one join and one look-up, or two look-ups, at a time. |
| `chord_astray` | Who leads a search to `ChordNode{}`, and does every call end, when Joins fail and look-ups spin? | Four of the ids 0, 2, 11, 14 and 15 (of 4 bits), one after another, and the key 12, which belongs to 14, 15 or 0, whichever has joined; addresses are learnt from the calls alone. The ids lie around 0, so that many fingers wrap round it and an unset finger, which counts as 0, falls among the members. |
| `page` | What do panels, flashes and searches show when requests overlap? | The two updates on load and one more click of any of the fourteen methods; one change of the peer, by a write or by somebody else. A write with its update then overlaps another update of the same panel, and the change can fall anywhere. |
| `stimulus` | Are the right controllers connected, each once? | Three elements, one inside another, two controllers of which one needs the other; four changes: enough to move an element, rename it and register anew before one hand-over, or with hand-overs between. Values with two and with repeated names. |
| `bindings` | What does a click call? | Nested controllers of one name and a button in both with two actions; a second name whose methods stop the event; four changes of any attribute. |
| `feed` | What does a page get to see? | Two packets, two requests (two pages, or one that reconnects), channels of one: a full channel, a page that leaves and a goroutine left behind by the timeout all occur. |
| `follow` | Does every follower get every key? Has a followed node accepted? Does a block last? | Three nodes, two callbacks and the user at each, three calls in all, loss: two followers of one node while it blocks one, a block during two updates, a request repeated after a block. |
| `validation` | Who is let through, is a taken answer in vain, and what stays behind? | Three requests of two peers: three of one peer share or take turns, two share beside a third. |

`MaxInFlight` bounds the packets in flight at the moment a timer fires or a
packet is doubled; every other send is unbounded. `MaxSequence`, `MaxMembers`,
`MaxJoins`, `MaxJobs` bound how often callers call. Deadlock is checked except
where the system may rightly stop: all have joined and nothing is left to look
up, or the bounds on clicks, changes, packets or requests are used up
(`MaxJobs`, `MaxChanges`, `MaxPackets`, `MaxRequests`, `MaxCalls`, the goroutines
of `Job`) and the pages closed.

An unset finger is `ChordNode{}` and counts as a node with id 0, and a joiner can be
reached before its fingers are set (chord_utils.go:213). So a search can be led
there even when joins do not overlap, and the `Join` or look-up fails half-way: with
6, 7 and 0, or with 4 and then 1, 6 and 5, of 3 bits. In `chord_lookup` look-ups fail in
this way, but no `Join` of three of its nodes does; what it says of the ring, the
predecessors and the fingers (`SuccessorsFormRing`, `RingWhenQuiet`,
`FingersGetNearer`) is bounded to Joins that do not fail. In `chord_astray` Joins
fail as well. What holds there all the same: only a node that has not finished its Join
leads anybody to `ChordNode{}`, members never do (`OnlyHalfJoinedMislead`); and no
search runs in a circle, through failed Joins or otherwise (`CallsEnd`).

### Disagreements between code and documents

Two are runs of their own. In `gossip_concurrent` check and append of a rumor are under
two locks. Two callbacks store one rumor twice, the status is ahead of the last
sequence number, which messaging_def.go:48 says it is, and anti-entropy leaves the
next rumor out. In `gossip_acks` a packet is tried with a second neighbor after
`AckTimeout`; the second ack closes a closed channel (message_callbacks.go:139) and
panics before the status in it is processed, though messaging_def.go:35 gives an ack
the two purposes of telling that the message was received and of sharing the status.

The others were met while modelling. TLC finds each of these properties, which the
modules define, violated in the instance given (the constants not named are those of
the passing run):

* `AcceptedFollows` in `Follow` (two nodes, one worker, one call, no loss):
  `FollowRequest` sends a request and then notes it as pending (impl.go:884). The
  answer comes in between and is ignored: one side has a follower, the other does
  not follow.
* `BlockedDoesNotFollow` in `Follow` (two nodes, one worker, two calls): the user
  accepts a request that was let through before the block (message_callbacks.go:277).
  The blocked peer is a follower and is given the newest key. `BlockLasts` says that
  there is no other way in.
* `RemovedCannotRead` in `Follow` (the same): an update of the keys for a follower is
  under way when the follower is removed and the new key appended; it stores the new
  key too (peer_utils.go:1200), and the removed follower can read the posts to come.
* `AnswerIsTaken` in `Validation` (one request): the challenge is sent before anybody
  waits for its answer, and the answer is not kept (peer_utils.go:1164,
  async_handler.go:26).
* `PacketsSent` in `PacketFeed`: the handler of a page that has left stays
  registered, its channel fills up, and the goroutine that waits for it keeps the
  lock of the notifications (controller/registry.go:91): no page gets a packet any
  more. `SentUnlessClogged` in `feed` shows that a page that listens misses nothing
  otherwise.
* `JobsEnd` in `Chord` (ids 0, 2, 11 and 15 of 4 bits, key 12, one job at a time,
  `Introduced = FALSE`): a finger can lead to a node whose address was never learnt
  (chord_utils.go:294), and a failed `Unicast` is not counted as an attempt
  (chord_utils.go:541, while peer/peer.go:107 says that `RpcRetry` bounds them).
  With heartbeats (the command line's default, not the tests') a rumor of that node
  ends the wait: with `Introduced = TRUE`, every address known, `JobsEnd` holds.
* `EveryNeighborTried` in `Gossip`, in a chain D -> A -> B -> C, each told of the next
  only: the mongering loop compares the lengths of the neighbors and of the exclude
  list (peer_utils.go:146), which contains a sender that need not be a neighbor, and
  a relay stops with a neighbor untried. `LeavesOneAtMost` says that it is one at most,
  and `OneNeighborLeft` proves it for all topologies.
* `FingersRight` in `Chord` (nodes 1, 2 and 5 of 3 bits): `updateOthers` looks for
  the predecessor of n - 2^i and passes by a node that is exactly there
  (chord_utils.go:258). Look-ups stay correct.
* `LoopFree` in `Gossip`, with two origins o and w, relays x, y and z and no fault. A
  packet of anti-entropy carries rumors of several origins, and a relay that expects
  one of them passes the whole packet on, with rumors that are ahead of its table
  (message_callbacks.go:75). o's first rumor goes over w and y to x and its second as
  far as y; z gets both from w by anti-entropy, then, in one packet, w's own rumor and
  o's third, and passes it on to x. x expects w's rumor and passes the packet on to y,
  which takes o's third rumor from it. Now y routes to o through x and x through y,
  and a message circles until its TTL ends. No document says that routes are free of
  loops, so no run states it.

## Fairness

`Gossip!Fairness`: a callback and a mongering goroutine that can go on do (weak
fairness, they are goroutines); the anti-entropy timer of a node keeps firing
towards every peer it may choose, since it chooses at random (strong fairness);
the receive loop takes packets of every sender and type again and again, which
says that the loss of a UDP network is not total (strong fairness). Nobody is
made to broadcast, time out early, lose or duplicate. `Chord!FairSpec`: a caller
goes on while it can. Nobody is made to join or to look anything up, and a caller that
spins is never helped out by a rumor: `CallsEnd` names it as the one that need not end.

`Page!Fairness`: the browser settles every fetch, with an answer or an error
(weak fairness of `Serve \/ Lose`), reads every file and runs every continuation.
`Stimulus!Fairness`: the script runs, the document gets loaded, a promise is
resolved and records are handed over and handled. `PacketFeed!Fairness`: goroutines that can
go on do; whoever keeps asking for a `sync.Mutex` gets it, since its starvation
mode hands it over in turn (strong fairness of `Lock` and `RegisterNotify`); the
browser reads what arrives. Nobody is made to click, to leave, to connect again
or to change the document.

## Proofs

`GossipProofs` holds for every set of nodes, topology and bound.

* `TypeCorrect`: `Spec => []TypeOK`, in every mode and with any number of
  workers. `TypeOK` alone is not inductive: a callback reads
  `h.pkt.rumors[h.i]`, so `WellFormed` (packets are not empty, callbacks are at
  a rumor of their packet, tables only grow) is proved with it.
* `InOrderInvariant`: `Spec => []InOrder` when there is one worker. `InOrder` is
  the inductive invariant: that tables are gapless needs that what a callback
  checked still holds when it stores (`ChecksHold`), which needs that no other
  callback runs (`OneCallback`), and that every rumor in flight exists at its
  origin at its index (`RumorsExist`). TLC checks it in `gossip_pair`.
* `StatusCorrect`, `EqualTables`, `InOrderDelivery` follow from it:
  `StatusIsLastSequence` and `EqualStatusEqualTables`, and delivery in order.
* `GossipImplementsBroadcast`: each step of `Gossip` is a step of
  `RumorBroadcast` or a stutter, under the mapping in `Promise`.
* `AcksMeanTaken`: `Spec => []AckMeansTaken` with one worker, for packets that mix any
  origins and repeat any rumors. A callback goes over a packet once, so a rumor that it
  finds too far ahead must not become the next one while it goes on. `TakenInv` is
  inductive: every packet, at rest, in flight or being handled, holds each origin's
  rumors in rising order (`AllRising`), which the sort by `Sequence` in the answers of
  anti-entropy brings about, and what a callback has behind it, it would not
  take now (`NoneMissed`); `ChecksHold` of `InOrder` carries it over the store.
* `AnswersDoFit`: `Spec => []AnswersFit` with one worker. An answer is computed from a
  status that may be arbitrarily old and from a table that has grown since, and it
  reaches a receiver whose table has grown as well. `AnswerInv` says that no status is
  ahead of the table of its sender (`StatusesPast`), so that an answer which
  starts after the status starts no later than after the table, and that in an answer each
  rumor but the first of its origin follows its predecessor (`AnswersJoined`); both
  survive every step because tables only grow.
* `OneNeighborLeft`: `Spec => LeavesOneAtMost`, with any number of workers, on any
  topology, late `AddPeer`s included, and under every fault, when the ack timeout is not
  zero (with zero the goroutine does not wait and tries one neighbor by design). The
  loop compares two lengths, which says something about the sets only by
  `AtMostOneStranger`: all that it excludes but one are neighbors it has chosen.

The hypothesis that there is one worker is needed for tables and delivery:
`gossip_concurrent` violates `StatusIsLastSequence` with two. Assumptions on constants
are the named ASSUMEs of the modules, which TLC evaluates.

`ChordProofs` holds for any set of ids, length of ids and number of look-ups.
`ArcsCorrect` proves `IntervalsAreArcs`, a fact about constants and so no property of
a run; `AddUndoesSubtract` that `SubtractInt` stays on the circle and
`AddInt` undoes it. `BitsAssumption` states that `Size = 2^M` is a positive
natural and that the powers up to it are positive too, since the provers know nothing
of powers.

* `ChordTypeCorrect`: `Spec => []TypeOK`, however many Joins overlap. Inductive
  with `Indexed`: where a job is fits what it is for, and its index is in range.

The next four theorems of the overlay have two hypotheses. `MaxJoins = 1`: Joins that
overlap break the ring (see below). `[]JoinsReach`: no Join fails; one that fails
half-way leaves its links behind, and ids exist for which that happens (see above).
So they are theorems about Joins that succeed. `chord_lookup` is an instance of them:
its three-node Joins all do, as TLC confirms of `JoinsReach`, while look-ups fail. No
hypothesis is made about look-ups.

* `RingIsNeverBroken`: `[]SuccessorsFormRing`. The inductive `RingInvariant` adds
  that fingers lead to members or nowhere, that predecessors are the successors'
  inverse but for the one that `rpcSetPredecessor` has moved ahead of
  `rpcSetSuccessor` (`PredecessorsLinked`, `Placed`), and where the search of the
  joiner stands. `findPredecessor` ends at the member before the key, so
  `SetSuccessor` puts the joiner between neighbors (`NewIsNext`); later
  `UpdateFinger` never moves a first finger, since nobody is nearer than the
  successor. A scan of a finger table returns its last match, for which a set of
  indices must have a last element (`LastIndex`, by `WellFoundedInduction`).
* `RingIsLinkedWhenQuiet`: `[]RingWhenQuiet`, from the same invariant.
* `FingersOnlyGetNearer`: `FingersGetNearer`. Needs that `InitFingerTable` writes
  each entry once, upwards, into a table that is still empty there (`TablesFill`).

`LookUpsFindOwners` shows that each step of `Chord` is a step of
`Directory` or a stutter under the mapping in `Lookups`. A look-up reads a
successor and uses it later; `LookUpsCross` says that it is still the successor or
that a node which has entered since is now before it (`NewerSuccessor`), and the
first member at or after a key in between is its owner (`NextIsOwner`). A call that
fails is `Directory`'s `GiveUp`, for which `Idles` says that a node between calls
can always call itself.

What the code guarantees whether Joins fail or not is the last theorem, which has no
hypothesis at all: any ids, any number of Joins and look-ups under way at a time, known
addresses or not, Joins that failed half-way and are tried again.

* `HalfJoinedMislead`: `Spec => OnlyHalfJoinedMislead`. A finger or a predecessor may lead
  to a node whose Join is under way or has failed, so "who is referred to is a member"
  is not invariant. `TablesLead` says instead that who is referred to has at least a
  successor and a predecessor (`Entered`), and, for each stage of a job, how much of the
  joiner's table is filled (`FilledTo`, `Whole`): `InitFingerTable` writes its own
  predecessor before `rpcSetPredecessor` and `rpcSetSuccessor` make it known, every index
  before `updateOthers`, and nothing ever becomes unset again. So the closest preceding
  finger of a member, its successor and its predecessor are nodes.

`PageProofs` holds for any number of clicks and changes.

* `PageTypeCorrect`: `Spec => []TypeOK`.
* `OwnWritesAreRead`: `Spec => []OwnWritesRead`. The invariant is not inductive:
  that an answer is not older than what the job has told needs that versions only
  grow and that each job's are in order at every stage, `told <= since <= value`
  and none beyond the peer's. `AllDated` says so and is inductive with `TypeOK`.
* `PageImplementsPanels`: `Spec => EveryPanel`; every step is a step of `Panel` or
  a stutter for each of the seven panels, again by `AllDated`. A step of `Next`
  is first sorted by kind (`MethodSteps`), since methods share their steps.

`BindingsProofs` holds for any tree, names and number of changes. The tree needs
`TreeAssumption`: elements are numbered so that parents come first.

* `BindingsAreThoseNamed`: `Spec => []BindingsFollow`, and `BindingsTypeCorrect`. The
  property speaks of quiet states only; `IInv` adds what holds in between: the
  dispatcher has the bindings of what the contexts have read (`Listening`), a context
  has read what its tree names but for outstanding records and nothing once it has
  stopped (`TokensFollow`). That replacing the bindings from the first difference on
  replaces them all is `ReplacedAll`. TLC checks `IInv` on the instance of the run.
* `TargetsBelongToOne`: `Spec => []TargetsApart`. `AncestorsDef` first shows that the
  recursive `Ancestors` is defined, as the least sets closed under parents;
  `AncestorsBefore`, by a least counterexample, that an element precedes what it
  encloses, so that an element that names a controller is its own nearest one.
* `ClicksReach`: `Spec => []ClickReaches`, from `BindingsFollow`. Of two elements
  around a third one encloses the other (`AncestorsNested`), so the order of the
  numbers and that of the tree agree along the way of an event, and the nearest
  controller around the target is among the contexts whose tree holds the action
  just when its element encloses it (`HandlesNearest`).

`StimulusProofs` holds for any page, names, values and number of changes, under the
same `TreeAssumption`.

* `ConnectedAreThoseNamed`: `Spec => []ConnectedWhenQuiet`. The property speaks of
  quiet states; between a change and its record each table may be wrong, and `IInv`
  says in which way the records that wait (`pending`) put it right. An observed
  element's tokens are those it names, or a record will have it read again
  (`TokensRead`); an observed element is in the document, or the removal of it or of
  what it is in will be handled, or it has lost the attribute and the record of that
  will be (`InPlace`); an element that should be observed
  is, or some record brings it and no removal after that record takes it away again
  (`AllComing`: an element that is removed and put back meanwhile is handled twice,
  in this order). `Handing` adds that nodes which wait for their removal to be handled
  are still observed, without which changes inside them would be lost.
  The steps that take a subtree out and put one in need what they do to the
  ancestors of every element (`NodeRemoved`, `NodeInserted`), over the recursive
  `AncestorsIn`, which `AncestorsDef` first shows to be defined.
* `CallsDoAlternate`: `Spec => []CallsAlternate`, from the part `Counted`: the count
  of a scope is the number of tokens that name it, the router has the scopes with
  a count, and a scope is connected when its module is there. That replacing the
  tokens from the first that differs keeps the counts right is `ScopeReplaced`.
* `InitializeFinds`: `Spec => []NeedsFound` if what a controller looks up comes before
  it on the page as it is loaded (`NeedsComeFirst`), as `peerInfo` does in
  `node.html` and in the instance of the run. Documents with the opposite order make
  `initialize` fail, so this is a hypothesis about the page and not about the code.
* `StimulusTypeCorrect`: `Spec => []TypeOK`.

TLC checks `IInv` on the instance of the run.

`FeedProofs` holds for any number of threads, pages, packets and requests and for
any capacity of the channels.

* `FeedTypeCorrect`: `Spec => []TypeOK`, with it that no channel is overfull.
* `FeedIsGapless`: `Spec => []Gapless`. Inductive together with `Handling`: the
  list of handlers names each request once and those that have registered; the
  goroutine with the lock notifies of the last packet, and whoever registers does
  so between two goroutines; what has gone reads no more.
* `FeedRepeatsNothing`: `Spec => []NothingTwice`. Needs that a packet is notified
  once (`OnceEach`) and that of two requests of a page the earlier has gone and
  ends where the later begins (`Turns`), which in turn rests on `Gapless`.

`FollowProofs` holds for any nodes, threads, loss and number of calls.

* `FollowTypeCorrect`: `Spec => []TypeOK`, inductive with `Busy`: a thread that
  is not idle deals with a node.
* `EveryFollowerGetsKeys`: `Spec => []FollowersGetKeys`. Not inductive: a follower
  may lack keys while somebody owes them. `KeysOwed` says that for each follower
  without all the keys some thread of the node is about to append, has not read
  the list yet, has the follower still on its list or is about to store its keys;
  a thread that panics may drop what it owes only because the one that appends
  owes it as well.
* `FollowersListed`: `Spec => []FollowersAreListed`, from `Listed`: every answer in
  flight, every callback that is about to answer or to follow and every entry of
  `following` is about somebody who was accepted, and nobody forgets that without
  noting a removal (`AcceptedStays`).
* `BlocksLast`: `Spec => BlockLasts`. Nobody is unblocked (`BlockedStay`), Block has
  blocked whom it removes (`Blocking`), a callback asks the user only about who is
  not blocked (`AskedUnblocked`), and only who has been asked about becomes a
  follower (`FollowersAsked`).

`ValidationProofs` holds for any peers, requests and challenges. One inductive
invariant gives the first four theorems: challenges have one owner (`Owned`), a new one
is known to its maker only (`Fresh`), one that has been forgotten stays forgotten
(`Forgotten`), a channel belongs to a goroutine with its challenge that has still to
remove it (`Channels`), an open challenge has a goroutine that will forget it or one
that could not send it (`Watched`), and nothing passes without a reply (`Replied`).

* `ValidationTypeCorrect`, `OnlyAnsweredAreValid`, `OpenChallengesUnspent`,
  `NothingIsLeft`.
* `AnswersCount`: `Spec => []AnswersLetThrough`, by a second invariant on top of the
  first: a challenge that is generated no more has let a request through (`Spent`),
  and whoever is refused with an answer found its challenge so (`RefusedLate`).

Model-checked only: liveness (`ReliableDelivery`, `CallsEnd`, `RequestsEnd`, `SearchesEnd`, `CatchesUp`,
`SentUnlessClogged`), which is out of the prover's reach.

Proved only, and no property of a run: `OpenMeansUnspent`, a step towards
`ValidMeansAnswered`, and `LeavesOneAtMost`, which only chains of four or more put to the
test.

## Not modelled, and what could follow

1. Calls over `AsyncHandler` by Chord, posts and catalogs: retries that run a
   handler again, late and doubled replies; crashes in `Chord`.
2. Posts over `Directory`: store, get, like, comment, catalogs; owners that
   change when a node joins (README.md:36 of the repository says that this is
   not supported).
3. Flags and reputation. The callback looks up the flagger's id among the followed
   peers, which are kept by address (message_callbacks.go:349), so no flag of another
   peer is ever counted; reputations are dropped under the author's id (impl.go:948)
   and read under the peer's address (peer_utils.go:230), so every challenge has the
   same difficulty. Challenges of validations that time out stay in
   `generatedChallenges` for good; `Validation` has this and states nothing of it.
4. Data requests, searches and their budgets; relaying with its TTL; registration of
   the registry's handlers and the lock that an unknown type leaves held.

Overlapping joins break `RingWhenQuiet` for every choice of ids tried. No
document says that they work, so no run states it; it is listed as a hazard.

Out of scope: ciphers, hashes and storage engines (computation on bytes, maps),
the command line, test scaffolding and `peer/malicious`. The HTTP handlers are
modelled only as `Page` and `PacketFeed` see them. Of `stimulus.js` the parts that
the page never uses are left out: values, classes, `StringMapObserver`, event
options, global event targets, `Application.stop`. `viz.js` and
`viz.lite.render.js` are a third-party Graphviz and its wrapper: drawing is a
computation, and the path over a worker, the only one with state, is not used.
