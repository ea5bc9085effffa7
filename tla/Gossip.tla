------------------------------- MODULE Gossip -------------------------------
(***************************************************************************)
(* The rumor gossip of a Nex2Chat peer (peer/impl): Broadcast, the three   *)
(* gossip callbacks (rumors, status, ack), the goroutine that mongers a    *)
(* rumors message until somebody acknowledges it, and the anti-entropy     *)
(* timer.  What is gossiped is abstracted to the pair (Origin, Sequence):  *)
(* the embedded message matters only for whether its handler fails.        *)
(*                                                                         *)
(* Every node runs the same code.  A node's threads are its callers of     *)
(* Broadcast, its mongering goroutines, its timer, and its Workers: the    *)
(* threads that run callbacks.  With one worker this is the receive loop   *)
(* that calls processPacket itself; with WithChord or RequestValidation    *)
(* the loop does "go n.processPacket(pkt)" and callbacks run side by side, *)
(* which is two workers or more.                                           *)
(***************************************************************************)
EXTENDS Integers, Sequences, FiniteSets

CONSTANTS Node,          \* the peers
          NoNode,        \* no entry in a routing table
          Peers,         \* Peers[n]: the addresses n is given before it starts
          LatePeers,     \* pairs <<n, a>>: AddPeer(a) may be called on n later
          Worker,        \* threads of a node that run callbacks
          AckTimeout,    \* FALSE: configured to 0, no wait for the ack
          Mongering,     \* FALSE: ContinueMongering is 0
          Faults,        \* what may go wrong, a subset of AllFaults
          MaxSequence,   \* bound: MaxSequence[n] rumors originate at n
          MaxInFlight    \* bound: packets in flight when a timer fires or one is doubled

\* loss, duplicate: the datagram transport.  timeout: an ack that comes after
\* AckTimeout.  unreachable: Socket.Send fails.  handler: the callback of an
\* embedded message returns an error.
AllFaults == {"loss", "duplicate", "timeout", "unreachable", "handler"}

ASSUME NodeAssumption   == IsFiniteSet(Node) /\ NoNode \notin Node
ASSUME PeersAssumption  == Peers \in [Node -> SUBSET Node]
ASSUME LateAssumption   == LatePeers \subseteq Node \X Node
ASSUME BoundsAssumption == MaxSequence \in [Node -> Nat] /\ MaxInFlight \in Nat
ASSUME ModeAssumption   == /\ AckTimeout \in BOOLEAN
                           /\ Mongering \in BOOLEAN
                           /\ Faults \subseteq AllFaults

VARIABLES rumorTable,   \* rumorTable[n][o]: sequence numbers n stored from o
          routing,      \* routing[n][o]: the relay towards o
          syncTable,    \* syncTable[n][id]: has the ack channel been closed?
          monger,       \* monger[n][id]: the goroutine that sends packet id
          handlers,     \* handlers[n]: the callbacks running at n
          network,      \* packets in flight
          unprocessed,  \* own rumors Broadcast has still to process locally
          delivered     \* delivered[n][o]: what n gave the embedded handlers

vars == <<rumorTable, routing, syncTable, monger, handlers, network,
          unprocessed, delivered>>

-----------------------------------------------------------------------------
(* Messages. *)

Rumor  == [origin : Node, seq : Nat]
Status == [Node -> Nat]          \* 0: the origin has no entry in the map
NoId   == 0                      \* a PacketID no ack channel is kept for

NoStatus == [o \in Node |-> 0]

Packet == [type : {"rumors", "status", "ack"}, from : Node, to : Node,
           id : Nat, rumors : Seq(Rumor), status : Status]

RumorsPacket(n, m, id, rumors) ==
  [type |-> "rumors", from |-> n, to |-> m, id |-> id,
   rumors |-> rumors, status |-> NoStatus]
StatusPacket(n, m, status) ==
  [type |-> "status", from |-> n, to |-> m, id |-> NoId,
   rumors |-> <<>>, status |-> status]
AckPacket(n, m, id, status) ==
  [type |-> "ack", from |-> n, to |-> m, id |-> id,
   rumors |-> <<>>, status |-> status]

-----------------------------------------------------------------------------
(* What a node reads of its tables, each under the table's lock. *)

\* getLastRumorSeqno: the Sequence of the LAST entry.
LastSeqno(n, o) == LET rumors == rumorTable[n][o]
                   IN IF rumors = <<>> THEN 0 ELSE rumors[Len(rumors)]

\* getStatusMessage: the NUMBER of entries.
StatusOf(n) == [o \in Node |-> Len(rumorTable[n][o])]

\* getNeighbors: the addresses that are their own relay.
Neighbors(n) == {a \in Node \ {n} : routing[n][a] = a}

\* Variant: the index of the slice is one too high.
MissingLater(n, localStatus, remote) ==
  UNION {{o} \X (remote[o] + 2 .. Len(rumorTable[n][o])) :
           o \in {p \in Node : localStatus[p] > remote[p]}}

\* getMissingRumors: the positions of the table the remote status lacks.  The
\* slice is taken from the table as it is now, not from the status compared.
Missing(n, localStatus, remote) ==
  UNION {{o} \X (remote[o] + 1 .. Len(rumorTable[n][o])) :
           o \in {p \in Node : localStatus[p] > remote[p]}}

RumorAt(n, p) == [origin |-> p[1], seq |-> rumorTable[n][p[1]][p[2]]]

\* Variant: not sorted.
Arrangements(n, positions) ==
  LET size == Cardinality(positions)
  IN {[i \in 1 .. size |-> RumorAt(n, f[i])] :
        f \in {g \in [1 .. size -> positions] : \A i, j \in 1 .. size : g[i] = g[j] => i = j}}

\* sort.Slice by Sequence over a map's iteration order: any arrangement of the
\* positions that is increasing in Sequence.
Sortings(n, positions) ==
  LET size == Cardinality(positions)
  IN {[i \in 1 .. size |-> RumorAt(n, f[i])] :
        f \in {g \in [1 .. size -> positions] :
                 /\ \A i, j \in 1 .. size : g[i] = g[j] => i = j
                 /\ \A i, j \in 1 .. size :
                      i < j => RumorAt(n, g[i]).seq <= RumorAt(n, g[j]).seq}}

-----------------------------------------------------------------------------
(* Threads. *)

Handler == [worker : Worker, pc : {"check", "store", "deliver", "reply",
                                   "status", "panicked"},
            pkt : Packet, i : Nat, found : BOOLEAN,
            neighbors : SUBSET Node, local : Status]

Mongerer == [rumors : Seq(Rumor), exclude : SUBSET Node, neighbors : SUBSET Node,
             dest : Node \cup {NoNode}, pc : {"new", "loop", "wait", "done"}]

\* sendRumorsMessage: a fresh PacketID, its ack channel and its goroutine.
NewMongerer(rumors, exclude) ==
  [rumors |-> rumors, exclude |-> exclude, neighbors |-> {},
   dest |-> NoNode, pc |-> "new"]

\* A finished goroutine: what is left of it is its ack channel.
Finished == [rumors |-> <<>>, exclude |-> {}, neighbors |-> {},
             dest |-> NoNode, pc |-> "done"]

StartMongering(n, rumors, exclude) ==
  /\ monger' = [monger EXCEPT ![n] = Append(@, NewMongerer(rumors, exclude))]
  /\ syncTable' = [syncTable EXCEPT ![n] = Append(@, FALSE)]

Idle(n) == {w \in Worker : \A h \in handlers[n] : h.worker # w}

Start(n, w, pkt, pc) ==
  handlers' = [handlers EXCEPT ![n] = @ \cup
    {[worker |-> w, pc |-> pc, pkt |-> pkt, i |-> 1, found |-> FALSE,
      neighbors |-> IF pc = "check" THEN Neighbors(n) ELSE {},
      local |-> IF pc = "status" THEN StatusOf(n) ELSE NoStatus]}]
Become(n, h, g) == handlers' = [handlers EXCEPT ![n] = (@ \ {h}) \cup {g}]
Return(n, h)    == handlers' = [handlers EXCEPT ![n] = @ \ {h}]

\* The next turn of the loop over rumorsMsg.Rumors, or what follows the loop.
NextRumor(h) == [h EXCEPT !.i = @ + 1,
                          !.pc = IF h.i < Len(h.pkt.rumors) THEN "check" ELSE "reply"]

\* Packets in flight or being processed: timers are slow compared to these, and
\* duplication is rare.
InFlight == Cardinality(network) + Cardinality({n \in Node : handlers[n] # {}})

\* A packet leaves the network when it is received, unless it is duplicated.
Take(pkt) == \/ network' = network \ {pkt}
             \/ "duplicate" \in Faults /\ InFlight <= MaxInFlight /\ UNCHANGED network

-----------------------------------------------------------------------------
Init ==
  /\ rumorTable  = [n \in Node |-> [o \in Node |-> <<>>]]
  /\ routing     = [n \in Node |-> [a \in Node |->
                      IF a = n \/ a \in Peers[n] THEN a ELSE NoNode]]
  /\ syncTable   = [n \in Node |-> <<>>]
  /\ monger      = [n \in Node |-> <<>>]
  /\ handlers    = [n \in Node |-> {}]
  /\ network     = {}
  /\ unprocessed = [n \in Node |-> {}]
  /\ delivered   = [n \in Node |-> [o \in Node |-> <<>>]]

(* Callers of the peer. *)

\* Broadcast, up to sendRumorsMessage: createRumor numbers the rumor by the
\* length of the own list, and the message is mongered to any neighbor.
Broadcast(n) ==
  LET seq == Len(rumorTable[n][n]) + 1
  IN /\ seq <= MaxSequence[n]
     /\ rumorTable' = [rumorTable EXCEPT ![n][n] = Append(@, seq)]
     /\ StartMongering(n, <<[origin |-> n, seq |-> seq]>>, {})
     /\ unprocessed' = [unprocessed EXCEPT ![n] = @ \cup {seq}]
     /\ UNCHANGED <<routing, handlers, network, delivered>>

\* The rest of Broadcast: the message is processed locally.
ProcessOwn(n, seq) ==
  /\ seq \in unprocessed[n]
  /\ unprocessed' = [unprocessed EXCEPT ![n] = @ \ {seq}]
  /\ UNCHANGED <<rumorTable, routing, syncTable, monger, handlers, network, delivered>>

AddPeer(n, a) ==
  /\ <<n, a>> \in LatePeers /\ a # n
  /\ routing' = [routing EXCEPT ![n][a] = a]
  /\ UNCHANGED <<rumorTable, syncTable, monger, handlers, network, unprocessed, delivered>>

\* The anti-entropy timer: the own status to a random neighbor.
AntiEntropy(n, m) ==
  /\ InFlight < MaxInFlight
  /\ m \in Neighbors(n)
  /\ network' = network \cup {StatusPacket(n, m, StatusOf(n))}
  /\ UNCHANGED <<rumorTable, routing, syncTable, monger, handlers, unprocessed, delivered>>

-----------------------------------------------------------------------------
(* sendRumorsAndWaitForAck: the goroutine that mongers one packet. *)

\* The neighbors are read once, when the goroutine starts.
Known(n, id) == IF monger[n][id].pc = "new" THEN Neighbors(n)
                                            ELSE monger[n][id].neighbors

\* excludeList holds distinct addresses, so its length is the set's size; it
\* may hold an address that is no neighbor.
MayTry(n, id) == /\ monger[n][id].pc \in {"new", "loop"}
                 /\ Cardinality(Known(n, id)) > Cardinality(monger[n][id].exclude)

\* m has not taken or not acknowledged the packet: back to the loop, without m.
Excluding(n, id, m) == [monger[n][id] EXCEPT !.neighbors = Known(n, id), !.dest = NoNode,
                                             !.exclude = @ \cup {m}, !.pc = "loop"]

MongerUnchanged == UNCHANGED <<rumorTable, routing, syncTable, handlers,
                               unprocessed, delivered>>

\* sendPacketToRandomNeighbor, then the wait for the ack; no wait when
\* AckTimeout is 0.
MongerSend(n, id, m) ==
  /\ MayTry(n, id)
  /\ m \in Known(n, id) \ monger[n][id].exclude
  /\ network' = network \cup {RumorsPacket(n, m, id, monger[n][id].rumors)}
  /\ monger' = [monger EXCEPT ![n][id] =
       IF AckTimeout THEN [@ EXCEPT !.neighbors = Known(n, id), !.dest = m, !.pc = "wait"]
                     ELSE Finished]
  /\ MongerUnchanged

\* Socket.Send failed: exclude the destination and try another one.
MongerSendFails(n, id, m) ==
  /\ "unreachable" \in Faults
  /\ MayTry(n, id)
  /\ m \in Known(n, id) \ monger[n][id].exclude
  /\ monger' = [monger EXCEPT ![n][id] = Excluding(n, id, m)]
  /\ MongerUnchanged /\ UNCHANGED network

\* No neighbor is left to try.
MongerGiveUp(n, id) ==
  /\ monger[n][id].pc \in {"new", "loop"}
  /\ MayTry(n, id) => Known(n, id) \subseteq monger[n][id].exclude
  /\ monger' = [monger EXCEPT ![n][id] = Finished]
  /\ MongerUnchanged /\ UNCHANGED network

\* The channel is closed: acknowledged.
MongerAcked(n, id) ==
  /\ monger[n][id].pc = "wait"
  /\ syncTable[n][id]
  /\ monger' = [monger EXCEPT ![n][id] = Finished]
  /\ MongerUnchanged /\ UNCHANGED network

\* AckTimeout has passed: exclude the destination and try another one, with
\* the same packet.  Without the fault "timeout", only when no ack is coming.
AckComing(n, id) ==
  \/ \E p \in network : p.id = id /\ \/ p.type = "ack" /\ p.to = n
                                     \/ p.type = "rumors" /\ p.from = n
  \/ \E m \in Node : \E h \in handlers[m] :
       h.pkt.id = id /\ h.pkt.type = "rumors" /\ h.pkt.from = n
MongerTimeout(n, id) ==
  /\ monger[n][id].pc = "wait"
  /\ "timeout" \in Faults \/ (~syncTable[n][id] /\ ~AckComing(n, id))
  /\ monger' = [monger EXCEPT ![n][id] = Excluding(n, id, monger[n][id].dest)]
  /\ MongerUnchanged /\ UNCHANGED network

-----------------------------------------------------------------------------
(* RumorsMessageCallback. *)

ReceiveRumors(n, w, pkt) ==
  /\ pkt \in network /\ pkt.to = n /\ pkt.type = "rumors" /\ w \in Idle(n)
  /\ Take(pkt)
  /\ Start(n, w, pkt, "check")
  /\ UNCHANGED <<rumorTable, routing, syncTable, monger, unprocessed, delivered>>

\* Variants: a newer rumor may leave a gap, the last one may come again.
AnyNewer(n, rumor) == rumor.seq > LastSeqno(n, rumor.origin)
NotOlder(n, rumor) == rumor.seq >= LastSeqno(n, rumor.origin)

\* A rumor is expected if it is the one after the last one stored.
Expected(n, rumor) == rumor.seq = LastSeqno(n, rumor.origin) + 1

CheckRumor(n, h) ==
  LET rumor == h.pkt.rumors[h.i]
  IN /\ h.pc = "check"
     /\ IF Expected(n, rumor)
        THEN Become(n, h, [h EXCEPT !.pc = "store", !.found = TRUE])
        ELSE Become(n, h, NextRumor(h))
     /\ UNCHANGED <<rumorTable, routing, syncTable, monger, network, unprocessed, delivered>>

\* updateRumorTable: appends, whatever the table has become since the check.
StoreRumor(n, h) ==
  LET rumor == h.pkt.rumors[h.i]
  IN /\ h.pc = "store"
     /\ rumorTable' = [rumorTable EXCEPT ![n][rumor.origin] = Append(@, rumor.seq)]
     /\ Become(n, h, IF rumor.origin = n THEN NextRumor(h) ELSE [h EXCEPT !.pc = "deliver"])
     /\ UNCHANGED <<routing, syncTable, monger, network, unprocessed, delivered>>

\* The relay becomes the route to an origin that was no neighbor when the
\* callback began.
RouteBy(n, h, origin) ==
  IF origin \in h.neighbors THEN routing
  ELSE [routing EXCEPT ![n][origin] = h.pkt.from]

\* Then the embedded message is processed.  When its handler fails the callback
\* returns: no ack, no forward, no further rumor.
DeliverRumor(n, h) ==
  LET rumor == h.pkt.rumors[h.i]
  IN /\ h.pc = "deliver"
     /\ routing' = RouteBy(n, h, rumor.origin)
     /\ delivered' = [delivered EXCEPT ![n][rumor.origin] = Append(@, rumor.seq)]
     /\ \/ Become(n, h, NextRumor(h))
        \/ "handler" \in Faults /\ Return(n, h)
     /\ UNCHANGED <<rumorTable, syncTable, monger, network, unprocessed>>

\* The ack, and if a rumor was expected the whole message goes on to a
\* neighbor other than its sender.
ReplyToRumors(n, h) ==
  /\ h.pc = "reply"
  /\ network' = network \cup {AckPacket(n, h.pkt.from, h.pkt.id, StatusOf(n))}
  /\ IF h.found THEN StartMongering(n, h.pkt.rumors, {h.pkt.from})
                ELSE UNCHANGED <<monger, syncTable>>
  /\ Return(n, h)
  /\ UNCHANGED <<rumorTable, routing, unprocessed, delivered>>

-----------------------------------------------------------------------------
(* StatusMessageCallback and AckMessageCallback. *)

ReceiveStatus(n, w, pkt) ==
  /\ pkt \in network /\ pkt.to = n /\ pkt.type = "status" /\ w \in Idle(n)
  /\ Take(pkt)
  /\ Start(n, w, pkt, "status")
  /\ UNCHANGED <<rumorTable, routing, syncTable, monger, unprocessed, delivered>>

\* Wakes the goroutine that waits for this packet.  The channel stays in the
\* table, and closing it again panics: processing the status is skipped.
ReceiveAck(n, w, pkt) ==
  /\ pkt \in network /\ pkt.to = n /\ pkt.type = "ack" /\ w \in Idle(n)
  /\ Take(pkt)
  /\ IF pkt.id = NoId
     THEN Start(n, w, pkt, "status") /\ UNCHANGED syncTable
     ELSE /\ Start(n, w, pkt, IF syncTable[n][pkt.id] THEN "panicked" ELSE "status")
          /\ syncTable' = [syncTable EXCEPT ![n][pkt.id] = TRUE]
  /\ UNCHANGED <<rumorTable, routing, monger, unprocessed, delivered>>

\* The registry recovers the panic and reports an error.
Recover(n, h) ==
  /\ h.pc = "panicked"
  /\ Return(n, h)
  /\ UNCHANGED <<rumorTable, routing, syncTable, monger, network, unprocessed, delivered>>

StatusUnchanged == UNCHANGED <<rumorTable, routing, syncTable, monger, unprocessed, delivered>>

\* Both have the same rumors: forwardStatusMessage, with some probability.
ForwardStatus(n, h) ==
  /\ h.pc = "status" /\ h.local = h.pkt.status
  /\ Return(n, h)
  /\ \/ UNCHANGED network
     \/ /\ Mongering
        /\ \E m \in Neighbors(n) \ {h.pkt.from} :
             network' = network \cup {StatusPacket(n, m, h.local)}
  /\ StatusUnchanged

\* Variant: an origin the remote has no entry for is not looked at.
HasMoreOfKnown(one, other) == \E o \in Node : other[o] # 0 /\ one[o] > other[o]

\* checkStatusMessages: a missing entry counts as 0.
HasMore(one, other) == \E o \in Node : one[o] > other[o]

\* They differ: send what the remote lacks, and ask for what it has.
Reconcile(n, h) ==
  LET remote == h.pkt.status
      ask == IF HasMore(remote, h.local)
             THEN {StatusPacket(n, h.pkt.from, h.local)} ELSE {}
  IN /\ h.pc = "status" /\ h.local # remote
     /\ Return(n, h)
     /\ IF HasMore(h.local, remote)
        THEN \E rumors \in Sortings(n, Missing(n, h.local, remote)) :
               network' = network \cup ask \cup {RumorsPacket(n, h.pkt.from, NoId, rumors)}
        ELSE network' = network \cup ask
     /\ StatusUnchanged

-----------------------------------------------------------------------------
Lose(pkt) ==
  /\ "loss" \in Faults
  /\ pkt \in network
  /\ network' = network \ {pkt}
  /\ UNCHANGED <<rumorTable, routing, syncTable, monger, handlers, unprocessed, delivered>>

Monger(n, id) ==
  \/ \E m \in Node : MongerSend(n, id, m) \/ MongerSendFails(n, id, m)
  \/ MongerGiveUp(n, id)
  \/ MongerAcked(n, id)
  \/ MongerTimeout(n, id)

Receive(n, pkt) == \E w \in Worker : \/ ReceiveRumors(n, w, pkt)
                                     \/ ReceiveStatus(n, w, pkt)
                                     \/ ReceiveAck(n, w, pkt)

Callback(n, h) == \/ CheckRumor(n, h) \/ StoreRumor(n, h) \/ DeliverRumor(n, h)
                  \/ ReplyToRumors(n, h) \/ ForwardStatus(n, h) \/ Reconcile(n, h)
                  \/ Recover(n, h)

Next ==
  \/ \E n \in Node :
       \/ Broadcast(n)
       \/ \E seq \in unprocessed[n] : ProcessOwn(n, seq)
       \/ \E a \in Node : AddPeer(n, a) \/ AntiEntropy(n, a)
       \/ \E id \in DOMAIN monger[n] : Monger(n, id)
       \/ \E pkt \in network : Receive(n, pkt)
       \/ \E h \in handlers[n] : Callback(n, h)
  \/ \E pkt \in network : Lose(pkt)

Spec == Init /\ [][Next]_vars

\* Nodes that may come to exchange packets directly.
Told(n) == Peers[n] \cup {a \in Node : <<n, a>> \in LatePeers}
Linked  == {link \in Node \X Node : \/ link[2] \in Told(link[1])
                                    \/ link[1] \in Told(link[2])}

\* A thread of a node runs when it can, and its timer keeps firing.  The receive
\* loop serves the socket in order of arrival, so packets of no sender and type
\* wait forever, and a lossy network loses only some of them.  Nobody has to
\* broadcast, to time out early, to lose or to duplicate.
Fairness ==
  /\ \A n \in Node : /\ WF_vars(\E h \in handlers[n] : Callback(n, h))
                     /\ WF_vars(\E id \in DOMAIN monger[n] : Monger(n, id))
  /\ \A link \in Linked :
       /\ SF_vars(AntiEntropy(link[1], link[2]))
       /\ SF_vars(\E pkt \in network : pkt.from = link[2] /\ pkt.type = "rumors" /\ Receive(link[1], pkt))
       /\ SF_vars(\E pkt \in network : pkt.from = link[2] /\ pkt.type # "rumors" /\ Receive(link[1], pkt))

FairSpec == Spec /\ Fairness

-----------------------------------------------------------------------------
(* Properties. *)

\* Every variable has its type: tables of sequence numbers, packets, threads.
TypeOK ==
  /\ rumorTable \in [Node -> [Node -> Seq(Nat)]]
  /\ routing \in [Node -> [Node -> Node \cup {NoNode}]]
  /\ syncTable \in [Node -> Seq(BOOLEAN)]
  /\ monger \in [Node -> Seq(Mongerer)]
  /\ handlers \in [Node -> SUBSET Handler]
  /\ network \in SUBSET Packet
  /\ unprocessed \in [Node -> SUBSET Nat]
  /\ delivered \in [Node -> [Node -> Seq(Nat)]]

\* A status gives for each origin the sequence number of the last rumor stored:
\* getStatusMessage counts entries, getLastRumorSeqno reads the last one, and
\* getMissingRumors uses the one as an index into the list of the other.
StatusIsLastSequence == \A n, o \in Node : StatusOf(n)[o] = LastSeqno(n, o)

\* Equal statuses mean equal tables, so that anti-entropy may stop there.
EqualStatusEqualTables ==
  \A n, m \in Node : StatusOf(n) = StatusOf(m) => rumorTable[n] = rumorTable[m]

\* The embedded messages of an origin reach the handlers of another node in the
\* order they were broadcast and once each: what was delivered is what was
\* stored, up to the rumor that a callback is just about to deliver.
Delivering(n, o) ==
  \E h \in handlers[n] : h.pc = "deliver" /\ h.pkt.rumors[h.i].origin = o
DeliveredInOrder ==
  \A n \in Node : \A o \in Node \ {n} :
    /\ \A i \in DOMAIN delivered[n][o] : delivered[n][o][i] = i
    /\ Len(rumorTable[n][o]) =
         IF Delivering(n, o) THEN Len(delivered[n][o]) + 1 ELSE Len(delivered[n][o])

\* Why tables have no gaps.  In every mode: packets to monger are not empty, a
\* callback is at a rumor of its packet, and tables only grow.
PacketsFull   == \A pkt \in network : pkt.type = "rumors" => pkt.rumors # <<>>
MongerersFull == \A n \in Node : \A id \in DOMAIN monger[n] :
                   /\ monger[n][id].pc # "done" => monger[n][id].rumors # <<>>
                   /\ monger[n][id].pc = "wait" => monger[n][id].dest \in Node
HandlersFull  == \A n \in Node : \A h \in handlers[n] :
                   /\ h.pc \in {"check", "store", "deliver"} => h.i \in 1 .. Len(h.pkt.rumors)
                   /\ h.pc = "reply" => h.pkt.rumors # <<>>
LocalIsPast   == \A n \in Node : \A h \in handlers[n] : \A o \in Node :
                   h.local[o] <= Len(rumorTable[n][o])
WellFormed    == PacketsFull /\ MongerersFull /\ HandlersFull /\ LocalIsPast

\* With one worker: every rumor that goes round is one its origin has, at its
\* index, and a check made by a callback still holds when it stores.
Exists(rumors) == \A i \in DOMAIN rumors :
                    rumors[i].seq <= Len(rumorTable[rumors[i].origin][rumors[i].origin])
RumorsExist == /\ \A pkt \in network : Exists(pkt.rumors)
               /\ \A n \in Node : /\ \A id \in DOMAIN monger[n] : Exists(monger[n][id].rumors)
                                  /\ \A h \in handlers[n] : Exists(h.pkt.rumors)
Gapless     == \A n, o \in Node : /\ \A i \in DOMAIN rumorTable[n][o] : rumorTable[n][o][i] = i
                                  /\ Len(rumorTable[n][o]) <= Len(rumorTable[o][o])
OneCallback == \A n \in Node : \A g, h \in handlers[n] : g = h
ChecksHold  == \A n \in Node : \A h \in handlers[n] :
                 LET rumor == h.pkt.rumors[h.i]
                     size  == Len(rumorTable[n][rumor.origin])
                 IN /\ h.pc = "store" => rumor.seq = size + 1
                    /\ h.pc = "deliver" => rumor.origin # n /\ rumor.seq = size

Sequential == RumorsExist /\ Gapless /\ OneCallback /\ ChecksHold /\ DeliveredInOrder

\* A receive loop that runs one callback at a time keeps the tables gapless.
InOrder == TypeOK /\ WellFormed /\ Sequential

\* Following the routes towards an origin never comes back to where it was: no
\* set of nodes only relays among itself.
LoopFree ==
  \A o \in Node : \A S \in (SUBSET (Node \ {o})) \ {{}} :
    \E n \in S : routing[n][o] \notin S

\* Who acknowledges a packet has taken from it whatever it could take: the
\* callback goes over the rumors once, so they have to come in order, and none of
\* them becomes the next one after it has been passed over.
AckMeansTaken ==
  \A n \in Node : \A h \in handlers[n] : h.pc = "reply" =>
    \A rumor \in {h.pkt.rumors[i] : i \in DOMAIN h.pkt.rumors} :
      rumor.seq # LastSeqno(n, rumor.origin) + 1

\* An answer of anti-entropy fits on to what its receiver has, however old the
\* status is that it answers, and whatever both have stored since: each rumor is
\* the next one at most, or its predecessor comes before it in the answer.
AnswersFit ==
  \A pkt \in network : pkt.type = "rumors" /\ pkt.id = NoId =>
    \A i \in DOMAIN pkt.rumors :
      LET rumor == pkt.rumors[i] IN
      \/ rumor.seq <= LastSeqno(pkt.to, rumor.origin) + 1
      \/ \E j \in 1 .. i - 1 : pkt.rumors[j] = [rumor EXCEPT !.seq = @ - 1]

\* The handler of an ack goes on to process the status in it: an ack tells that
\* the message was received and shares the status (messaging_def.go:35).
AckSharesStatus == \A n \in Node : \A h \in handlers[n] : h.pc # "panicked"

\* A goroutine stops only when its packet is acknowledged or every neighbor
\* has been tried (when it waits for acks at all).
GivesUp(n, id) == /\ monger[n][id].pc # "done" /\ monger'[n][id].pc = "done"
                  /\ ~syncTable[n][id]
EveryNeighborTried ==
  [][\A n \in Node : \A id \in DOMAIN monger[n] :
       GivesUp(n, id) => Known(n, id) \subseteq monger[n][id].exclude]_vars

\* It may leave one out, but no more: whom it forwards for, and excludes, need
\* not be a neighbor.
LeavesOneAtMost ==
  [][\A n \in Node : \A id \in DOMAIN monger[n] :
       GivesUp(n, id) => Cardinality(Known(n, id) \ monger[n][id].exclude) <= 1]_vars

\* What is delivered, where and in which order, is what a reliable broadcast
\* allows.
Promise == INSTANCE RumorBroadcast WITH
  sent     <- [o \in Node |-> Len(rumorTable[o][o])],
  received <- delivered

ImplementsBroadcast == Promise!Spec

\* Every message broadcast reaches the handlers of every other node.
ReliableDelivery ==
  \A o \in Node : \A n \in Node \ {o}, k \in 1 .. MaxSequence[o] :
    Len(rumorTable[o][o]) >= k ~> Len(delivered[n][o]) >= k
=============================================================================
